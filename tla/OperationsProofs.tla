-------------------------- MODULE OperationsProofs --------------------------
(***************************************************************************)
(* Proofs about Operations, for any datastores, servers, connections,      *)
(* requests and nesting of dialogs and waits: the types and the shape of   *)
(* the stack, the capabilities a request needs, the capability window, the *)
(* controls of an idle tab, and the locks it remembers and shows.          *)
(***************************************************************************)
EXTENDS Operations, SequenceTheorems, WellFoundedInduction, TLAPS

-----------------------------------------------------------------------------
(* The greatest of some numbers                                             *)

LEMMA LessOnNat ==
  \E R : IsWellFoundedOn(R, Nat) /\ \A x, y \in Nat : y < x => <<y, x>> \in R
<1> DEFINE R == OpToRel(<, Nat)
<1>1. IsWellFoundedOn(R, Nat)
  BY NatLessThanWellFounded, Zenon
<1>2. \A x, y \in Nat : y < x => <<y, x>> \in R
  BY Zenon DEF OpToRel
<1> QED
  <2> HIDE DEF R
  <2> QED BY <1>1, <1>2

LEMMA Greatest ==
  ASSUME NEW n \in Nat, NEW S \in SUBSET (0..n), S # {}
  PROVE  \E m \in S : \A i \in S : i <= m
<1> DEFINE T == {n - i : i \in S}
<1>1. T \subseteq Nat /\ T # {}
  <2>1. \A i \in S : i \in 0..n
    OBVIOUS
  <2>2. \A i \in S : n - i \in Nat
    BY <2>1
  <2> QED BY <2>2
<1>2. PICK R : IsWellFoundedOn(R, Nat) /\ \A x, y \in Nat : y < x => <<y, x>> \in R
  BY LessOnNat
<1>3. PICK x \in T : \A y \in T : ~(<<y, x>> \in R)
  <2> HIDE DEF T
  <2> QED BY <1>1, <1>2, WFMin, Zenon
<1>4. \A y \in T : ~(y < x)
  <2> HIDE DEF T
  <2> QED BY <1>1, <1>2, <1>3
<1>5. PICK m \in S : x = n - m
  BY <1>3
<1>6. ASSUME NEW i \in S PROVE i <= m
  <2>1. n - i \in T
    OBVIOUS
  <2>2. ~(n - i < n - m)
    BY <2>1, <1>4, <1>5
  <2> QED BY <2>2
<1> QED
  BY <1>6

-----------------------------------------------------------------------------
(* The stack                                                                *)

Frames == Dialogs \cup Waits

LEMMA DialogOrWait ==
  /\ \A f \in Dialogs : ~Waiting(f) /\ f \notin Waits /\ f.kind \notin {"rpc", "schemas"}
  /\ \A f \in Waits : Waiting(f) /\ f \notin Dialogs
<1>1. \A f \in Dialogs : f.kind \notin {"rpc", "info", "schemas"}
  BY DEF Dialogs
<1>2. \A f \in Waits : f.kind \in {"rpc", "info", "schemas"}
  BY DEF Waits
<1> QED
  BY <1>1, <1>2 DEF Waiting

LEMMA StackShape ==
  ASSUME NEW s, StackOK(s)
  PROVE  /\ s \in Seq(Frames) /\ Len(s) \in Nat /\ DOMAIN s = 1..Len(s)
         /\ \A i \in 1..Len(s) : s[i] \in Dialogs \/ s[i] \in Waits
<1>1. s \in Seq(Frames)
  BY DEF StackOK, Frames
<1> QED
  BY <1>1, LenProperties, ElementOfSeq DEF Frames

(* Something comes on top.                                                 *)
LEMMA Pushed ==
  ASSUME NEW s, StackOK(s), NEW f \in Frames,
         f \in Waits => /\ WaitOK(f)
                        /\ OfDialog(f) => f.dlg \in 1..Len(s) /\ s[f.dlg] \in Dialogs
  PROVE  /\ StackOK(Append(s, f))
         /\ Len(Append(s, f)) = Len(s) + 1
         /\ Append(s, f)[Len(Append(s, f))] = f
         /\ Busy(Append(s, f)) <=> Busy(s) \/ f.kind \in {"rpc", "schemas"}
<1> DEFINE t == Append(s, f)
<1>1. s \in Seq(Frames) /\ Len(s) \in Nat /\ DOMAIN s = 1..Len(s)
  BY StackShape
<1>2. t \in Seq(Frames) /\ Len(t) = Len(s) + 1 /\ DOMAIN t = 1..(Len(s) + 1)
      /\ t[Len(s) + 1] = f /\ \A i \in 1..Len(s) : t[i] = s[i]
  BY <1>1, AppendProperties, LenProperties
<1> HIDE DEF t
<1>3. StackOK(t)
  <2>1. ASSUME NEW i \in DOMAIN t, t[i] \in Waits
        PROVE  /\ WaitOK(t[i])
               /\ OfDialog(t[i]) => t[i].dlg \in 1..(i - 1) /\ t[t[i].dlg] \in Dialogs
    <3>1. CASE i = Len(s) + 1
      BY <3>1, <2>1, <1>1, <1>2
    <3>2. CASE i \in 1..Len(s)
      BY <3>2, <2>1, <1>1, <1>2 DEF StackOK
    <3> QED
      BY <3>1, <3>2, <1>1, <1>2
  <2> QED
    BY <2>1, <1>2 DEF StackOK, Frames
<1>4. Busy(t) <=> Busy(s) \/ f.kind \in {"rpc", "schemas"}
  BY <1>1, <1>2 DEF Busy
<1> QED
  BY <1>2, <1>3, <1>4 DEF t

(* What is on top goes.                                                    *)
LEMMA Prefix ==
  ASSUME NEW s, StackOK(s), NEW n \in 0..Len(s)
  PROVE  /\ StackOK(SubSeq(s, 1, n)) /\ Len(SubSeq(s, 1, n)) = n
         /\ \A i \in 1..n : SubSeq(s, 1, n)[i] = s[i]
<1> DEFINE t == SubSeq(s, 1, n)
<1>1. s \in Seq(Frames) /\ Len(s) \in Nat /\ DOMAIN s = 1..Len(s) /\ n \in Nat
  BY StackShape
<1>2. \A i \in 1..n : s[i] \in Frames
  BY <1>1, ElementOfSeq
<1>3. t \in Seq(Frames) /\ Len(t) = n /\ \A i \in 1..n : t[i] = s[i]
  <2>1. /\ t \in Seq(Frames)
        /\ Len(t) = IF 1 <= n THEN n - 1 + 1 ELSE 0
        /\ \A i \in 1..(n - 1 + 1) : t[i] = s[1 + i - 1]
    BY <1>1, <1>2, SubSeqProperties
  <2> QED
    BY <2>1, <1>1
<1>4. DOMAIN t = 1..n
  BY <1>3, LenProperties
<1> HIDE DEF t
<1>5. StackOK(t)
  BY <1>1, <1>3, <1>4 DEF StackOK, Frames
<1> QED
  BY <1>3, <1>5 DEF t

(* What returned takes with it only dialogs that are closed.               *)
LEMMA UnwoundKeeps ==
  ASSUME NEW s, StackOK(s)
  PROVE  StackOK(Unwound(s)) /\ (Busy(Unwound(s)) <=> Busy(s))
<1> DEFINE live == {i \in DOMAIN s : Waiting(s[i]) \/ s[i].open}
           n == CHOOSE m \in live \cup {0} : \A i \in live : i <= m
<1>1. Len(s) \in Nat /\ DOMAIN s = 1..Len(s)
  BY StackShape
<1>2. n \in live \cup {0} /\ \A i \in live : i <= n
  <2>1. live \cup {0} \subseteq 0..Len(s)
    BY <1>1
  <2>2. \E m \in live \cup {0} : \A i \in live \cup {0} : i <= m
    <3> HIDE DEF live
    <3> QED BY <1>1, <2>1, Greatest
  <2> QED
    BY <2>2
<1>3. n \in 0..Len(s)
  BY <1>1, <1>2
<1>4. Unwound(s) = SubSeq(s, 1, n)
  BY DEF Unwound
<1> HIDE DEF n
<1>5. /\ StackOK(Unwound(s)) /\ Len(Unwound(s)) = n
      /\ \A i \in 1..n : Unwound(s)[i] = s[i]
  BY <1>3, <1>4, Prefix
<1>6. DOMAIN Unwound(s) = 1..n
  BY <1>5, StackShape
<1>7. ASSUME NEW i \in DOMAIN s, s[i].kind \in {"rpc", "schemas"} PROVE i \in 1..n
  BY <1>1, <1>2, <1>3, <1>7 DEF Waiting
<1>8. DOMAIN Unwound(s) \subseteq DOMAIN s
  BY <1>1, <1>3, <1>6
<1> QED
  BY <1>5, <1>6, <1>7, <1>8 DEF Busy

(* A stack in which nothing but boxes and replies changed.                 *)
Alike(f, g) ==
  /\ f \in Dialogs <=> g \in Dialogs
  /\ f \in Waits => /\ g \in Waits /\ g.kind = f.kind /\ g.via = f.via /\ g.dlg = f.dlg
                    /\ g.delay => f.delay

LEMMA AlikeKeeps ==
  ASSUME NEW s, StackOK(s), NEW t \in [1..Len(s) -> Frames],
         \A i \in 1..Len(s) : Alike(s[i], t[i])
  PROVE  StackOK(t) /\ (Busy(t) <=> Busy(s)) /\ Len(t) = Len(s)
<1>1. Len(s) \in Nat /\ DOMAIN s = 1..Len(s) /\ \A i \in 1..Len(s) : s[i] \in Dialogs \/ s[i] \in Waits
  BY StackShape
<1>2. t \in Seq(Frames) /\ Len(t) = Len(s) /\ DOMAIN t = 1..Len(s)
  BY <1>1
<1>3. ASSUME NEW i \in DOMAIN t, t[i] \in Waits
      PROVE  /\ WaitOK(t[i])
             /\ OfDialog(t[i]) => t[i].dlg \in 1..(i - 1) /\ t[t[i].dlg] \in Dialogs
  <2>alike. s[i] \in Waits /\ Alike(s[i], t[i])
    BY <1>1, <1>2, <1>3, DialogOrWait DEF Alike
  <2>wait. /\ WaitOK(s[i])
           /\ OfDialog(s[i]) => s[i].dlg \in 1..(i - 1) /\ s[s[i].dlg] \in Dialogs
    BY <2>alike, <1>1, <1>2 DEF StackOK
  <2>dialog. OfDialog(t[i]) => OfDialog(s[i])
    BY <2>alike DEF Alike, OfDialog
  <2>below. \A j \in 1..(i - 1) : s[j] \in Dialogs => t[j] \in Dialogs
    BY <1>1, <1>2 DEF Alike
  <2> QED
    BY <2>alike, <2>wait, <2>dialog, <2>below DEF Alike, WaitOK, OfDialog
<1>4. StackOK(t)
  BY <1>2, <1>3 DEF StackOK, Frames
<1>5. \A i \in 1..Len(s) : s[i].kind \in {"rpc", "schemas"} <=> t[i].kind \in {"rpc", "schemas"}
  BY <1>1, DialogOrWait DEF Alike
<1> QED
  BY <1>1, <1>2, <1>4, <1>5 DEF Busy

LEMMA BoxSet ==
  ASSUME NEW s, StackOK(s), NEW d \in 1..Len(s), s[d] \in Dialogs,
         NEW b \in SUBSET (Places \cup {"row"})
  PROVE  /\ StackOK([s EXCEPT ![d].boxes = b])
         /\ Busy([s EXCEPT ![d].boxes = b]) <=> Busy(s)
         /\ Len([s EXCEPT ![d].boxes = b]) = Len(s)
         /\ [s EXCEPT ![d].boxes = b][d] \in Dialogs
<1> DEFINE t == [s EXCEPT ![d].boxes = b]
<1>1. DOMAIN s = 1..Len(s) /\ \A i \in 1..Len(s) : s[i] \in Dialogs \/ s[i] \in Waits
  BY StackShape
<1>2. [s[d] EXCEPT !.boxes = b] \in Dialogs
  BY DEF Dialogs
<1>3. \A i \in 1..Len(s) : t[i] = IF i = d THEN [s[d] EXCEPT !.boxes = b] ELSE s[i]
  BY <1>1
<1>4. t \in [1..Len(s) -> Frames]
  BY <1>1, <1>2 DEF Frames
<1> HIDE DEF t
<1>5. \A i \in 1..Len(s) : Alike(s[i], t[i])
  BY <1>1, <1>2, <1>3, DialogOrWait DEF Alike
<1>6. StackOK(t) /\ (Busy(t) <=> Busy(s)) /\ Len(t) = Len(s) /\ t[d] \in Dialogs
  BY <1>2, <1>3, <1>4, <1>5, AlikeKeeps
<1> QED
  BY <1>6 DEF t

LEMMA AfterBoxKeeps ==
  ASSUME NEW s, StackOK(s), NEW f, f.dlg \in 1..Len(s), s[f.dlg] \in Dialogs,
         f.req.target \in Places, NEW rsp
  PROVE  StackOK(AfterBox(s, f, rsp)) /\ (Busy(AfterBox(s, f, rsp)) <=> Busy(s))
<1>1. DOMAIN s = 1..Len(s)
  BY StackShape
<1>2. s[f.dlg].boxes \ {f.req.target} \in SUBSET (Places \cup {"row"})
      /\ s[f.dlg].boxes \cup {f.req.target} \in SUBSET (Places \cup {"row"})
  BY DEF Dialogs
<1>3. \/ AfterBox(s, f, rsp) = s
      \/ AfterBox(s, f, rsp) = [s EXCEPT ![f.dlg].boxes = s[f.dlg].boxes \ {f.req.target}]
      \/ AfterBox(s, f, rsp) = [s EXCEPT ![f.dlg].boxes = s[f.dlg].boxes \cup {f.req.target}]
  BY <1>1 DEF AfterBox
<1>4. \A b \in SUBSET (Places \cup {"row"}) :
        StackOK([s EXCEPT ![f.dlg].boxes = b]) /\ (Busy([s EXCEPT ![f.dlg].boxes = b]) <=> Busy(s))
  BY BoxSet
<1>5. CASE AfterBox(s, f, rsp) = s
  BY <1>5
<1>6. CASE AfterBox(s, f, rsp) = [s EXCEPT ![f.dlg].boxes = s[f.dlg].boxes \ {f.req.target}]
  BY <1>2, <1>4, <1>6
<1>7. CASE AfterBox(s, f, rsp) = [s EXCEPT ![f.dlg].boxes = s[f.dlg].boxes \cup {f.req.target}]
  BY <1>2, <1>4, <1>7
<1> QED
  BY <1>3, <1>5, <1>6, <1>7

(* The top and the rest.                                                   *)
LEMMA Topped ==
  ASSUME StackOK(stack), stack # <<>>
  PROVE  /\ Len(stack) \in Nat \ {0} /\ Top \in Frames
         /\ StackOK(Below) /\ Len(Below) = Len(stack) - 1
         /\ Top \in Waits => WaitOK(Top)
         /\ Top \in Waits /\ OfDialog(Top) =>
               Top.dlg \in 1..Len(Below) /\ Below[Top.dlg] \in Dialogs
         /\ Top.kind \notin {"rpc", "schemas"} => (Busy(Below) <=> Busy(stack))
<1>1. stack \in Seq(Frames) /\ Len(stack) \in Nat /\ DOMAIN stack = 1..Len(stack)
  BY StackShape
<1>2. Len(stack) \in Nat \ {0}
  BY <1>1, EmptySeq
<1>3. Top \in Frames
  BY <1>1, <1>2, ElementOfSeq DEF Top
<1>4. Len(stack) - 1 \in 0..Len(stack)
  BY <1>2
<1>5. /\ StackOK(Below) /\ Len(Below) = Len(stack) - 1
      /\ \A i \in 1..(Len(stack) - 1) : Below[i] = stack[i]
  BY <1>4, Prefix DEF Below
<1>6. DOMAIN Below = 1..(Len(stack) - 1)
  BY <1>5, StackShape
<1>7. Top \in Waits /\ OfDialog(Top) => Top.dlg \in 1..Len(Below) /\ Below[Top.dlg] \in Dialogs
  BY <1>1, <1>2, <1>5 DEF StackOK, Top
<1>9. Top \in Waits => WaitOK(Top)
  BY <1>1, <1>2 DEF StackOK, Top
<1>8. Top.kind \notin {"rpc", "schemas"} => (Busy(Below) <=> Busy(stack))
  BY <1>1, <1>2, <1>5, <1>6 DEF Busy, Top
<1> QED
  BY <1>2, <1>3, <1>5, <1>7, <1>8, <1>9

LEMMA Front ==
  ASSUME StackOK(stack), Modal # {}
  PROVE  /\ FrontDialog \in 1..Len(stack)
         /\ stack[FrontDialog].kind # "schemas" => stack[FrontDialog] \in Dialogs
<1>1. Len(stack) \in Nat /\ DOMAIN stack = 1..Len(stack)
      /\ \A i \in 1..Len(stack) : stack[i] \in Dialogs \/ stack[i] \in Waits
  BY StackShape
<1>2. Modal \in SUBSET (0..Len(stack)) /\ Modal \subseteq 1..Len(stack)
  BY <1>1 DEF Modal
<1>3. \E m \in Modal : \A i \in Modal : i <= m
  BY <1>1, <1>2, Greatest
<1>4. FrontDialog \in Modal
  BY <1>3 DEF FrontDialog
<1> QED
  BY <1>1, <1>2, <1>4, DialogOrWait DEF Modal

-----------------------------------------------------------------------------
(* What a step has to show                                                  *)

Inv == TypeOK /\ ConnectionKnown

WireOK == wire \in Seq([id : Nat, op : {"lock", "unlock", "other"}, target : Places])
SendOK == /\ StackOK(stack) /\ WireOK
          /\ operable \in BOOLEAN /\ abort \in BOOLEAN
          /\ app \in {"running", "exited"} /\ sends \in 0..MaxSends

(* The latest request went to a server that announced what it needs.       *)
Supported ==
  sends' > sends => LET f == stack'[Len(stack')] IN f.kind = "rpc" => Needs(f.req) \subseteq offer

(* The controls are as they were, or on, or off for what runs.             *)
ControlsKept == ~operable' => Busy(stack') \/ (~operable /\ (Busy(stack) => Busy(stack')))

LEMMA QuietStep ==
  ASSUME Inv, UNCHANGED <<conn, signals, capshow>>, SendOK', ControlsKept, menu' \subseteq Acts,
         lock' \subseteq Places, doubt' \subseteq Places, held' \subseteq Places, schemas' \in Nat
  PROVE  Inv'
<1>1. UNCHANGED <<manager, up, connected, offer, conns, signals, capshow>>
  BY DEF conn
<1>2. TypeOK'
  BY <1>1 DEF Inv, TypeOK, SendOK, WireOK
<1>3. ConnectionKnown'
  <2>loss. LossPending' = LossPending
    BY <1>1 DEF LossPending
  <2>up. up' => manager' # 0
    BY <1>1 DEF Inv, ConnectionKnown
  <2>signals. signals' # <<>> => signals'[Len(signals')] = connected'
    BY <1>1 DEF Inv, ConnectionKnown
  <2>caps. capshow' # 0 => (connected' /\ capshow' = manager') \/ LossPending'
    BY <1>1, <2>loss DEF Inv, ConnectionKnown
  <2>busy. ~operable' => Busy(stack') \/ signals' # <<>> \/ ~connected'
    BY <1>1 DEF Inv, ConnectionKnown, ControlsKept
  <2> QED
    BY <2>up, <2>signals, <2>caps, <2>busy DEF ConnectionKnown, LossPending, Busy
<1> QED
  BY <1>2, <1>3 DEF Inv

LEMMA EnabledActs == \A op : Enabled(op) \subseteq Acts
BY DEF Enabled

-----------------------------------------------------------------------------
(* Sending                                                                  *)

LEMMA WaitTyped ==
  ASSUME Inv, NEW kind \in {"rpc", "info", "schemas"},
         NEW via \in {"menu", "box", "kill", "open", "refresh"},
         NEW dlg \in Nat, NEW req \in Reqs
  PROVE  /\ Wait(kind, via, dlg, req) \in Waits
         /\ \A c \in Reqs : [Wait(kind, via, dlg, req) EXCEPT !.chosen = c] \in Waits
<1>1. manager \in Nat /\ sends + 1 \in Nat
  BY OperationsAssumption DEF Inv, TypeOK
<1>2. Wait(kind, via, dlg, req) \in Waits
  BY <1>1 DEF Wait, Waits
<1> QED
  BY <1>2 DEF Waits

LEMMA WiredOK ==
  ASSUME Inv, NEW req \in Reqs, wire' = Append(wire, Wired(req))
  PROVE  WireOK'
<1> DEFINE T == [id : Nat, op : {"lock", "unlock", "other"}, target : Places]
<1>1. wire \in Seq(T) /\ sends + 1 \in Nat
  BY OperationsAssumption DEF Inv, TypeOK
<1>2. Wired(req) \in T
  BY <1>1 DEF Wired, Reqs
<1>3. Append(wire, Wired(req)) \in Seq(T)
  <2> HIDE DEF T
  <2> QED BY <1>1, <1>2, AppendProperties
<1> QED
  BY <1>3 DEF WireOK

LEMMA PostsKeeps ==
  ASSUME Inv, NEW below, StackOK(below), NEW f \in Waits, f.req \in Reqs, f.kind = "rpc",
         OfDialog(f) => f.dlg \in 1..Len(below) /\ below[f.dlg] \in Dialogs,
         Posts(below, f)
  PROVE  SendOK' /\ ControlsKept /\ stack'[Len(stack')] = f
<1>1. /\ StackOK(stack') /\ stack'[Len(stack')] = f /\ Busy(stack')
  BY Pushed DEF Posts, Frames, WaitOK
<1>2. WireOK'
  BY WiredOK DEF Posts
<1>3. sends' \in 0..MaxSends
  BY OperationsAssumption DEF Posts, Inv, TypeOK
<1> QED
  BY <1>1, <1>2, <1>3 DEF SendOK, ControlsKept, Posts, Inv, TypeOK

LEMMA SameKeeps ==
  ASSUME Inv, StackOK(stack'), Busy(stack) => Busy(stack'),
         UNCHANGED <<operable, abort, wire, sends>>, app' \in {"running", "exited"}
  PROVE  SendOK' /\ ControlsKept /\ Supported
<1>1. sends \in Nat
  BY OperationsAssumption DEF Inv, TypeOK
<1> QED
  BY <1>1 DEF SendOK, WireOK, ControlsKept, Supported, Inv, TypeOK

LEMMA SendsKeeps ==
  ASSUME Inv, NEW below, StackOK(below), Busy(stack) => Busy(below),
         NEW chosen \in Reqs, NEW req \in Reqs, up => Needs(req) \subseteq offer,
         Sends(below, chosen, req)
  PROVE  SendOK' /\ ControlsKept /\ Supported
<1> DEFINE f == [Wait("rpc", "menu", 0, req) EXCEPT !.chosen = chosen]
<1>1. CASE Posts(below, f)
  <2>1. f \in Waits /\ f.req = req /\ f.kind = "rpc" /\ f.via = "menu"
    BY WaitTyped DEF Wait
  <2>2. ~OfDialog(f)
    BY <2>1 DEF OfDialog
  <2> HIDE DEF f
  <2>3. SendOK' /\ ControlsKept /\ stack'[Len(stack')] = f
    BY <1>1, <2>1, <2>2, PostsKeeps
  <2>4. Supported
    BY <1>1, <2>1, <2>3 DEF Supported, Posts
  <2> QED
    BY <2>3, <2>4
<1>2. CASE Refuses(below)
  BY <1>2, SameKeeps DEF Refuses, Inv, TypeOK
<1>3. CASE Raises
  BY <1>3, SameKeeps DEF Raises, Inv, TypeOK
<1> QED
  BY <1>1, <1>2, <1>3 DEF Sends

LEMMA RequestKeeps ==
  ASSUME Inv, NEW below, StackOK(below), Busy(stack) => Busy(below),
         NEW chosen \in Reqs, NEW req \in Reqs, NEW caps, Needs(req) \subseteq caps,
         Request(below, chosen, req, caps)
  PROVE  Inv' /\ Supported
<1>1. SendOK' /\ ControlsKept /\ Supported
  <2>1. CASE Asserted(caps) /\ Sends(below, chosen, req)
    <3>1. up => Needs(req) \subseteq offer
      BY <2>1 DEF Asserted, Inv, ConnectionKnown
    <3> QED
      BY <2>1, <3>1, SendsKeeps
  <2>2. CASE stack' = below /\ UNCHANGED <<operable, abort, wire, app, sends>>
    BY <2>2, SameKeeps DEF Inv, TypeOK
  <2> QED
    BY <2>1, <2>2 DEF Request
<1>2. UNCHANGED <<conn, signals, menu, views, held>>
  BY DEF Request
<1> QED
  BY <1>1, <1>2, QuietStep DEF Inv, TypeOK, views

(* Needed capabilities and the ones looked for.                            *)
LEMMA RequestsTyped ==
  ASSUME NEW op \in Ops, NEW source \in Places, NEW target \in Places
  PROVE  /\ Req(op, source, target) \in Reqs
         /\ \A c \in BOOLEAN : [Req(op, source, target) EXCEPT !.confirmed = c] \in Reqs
<1>1. Req(op, source, target) \in Reqs
  BY DEF Req, Reqs
<1> QED
  BY <1>1 DEF Reqs

LEMMA NeedsKnown ==
  /\ \A a, b \in Where : Needs(BuildCopyXML(b, a)) \subseteq Url({a, b})
  /\ \A b \in Where : Needs(Req("delete-config", "none", b)) \subseteq Url({b})
  /\ \A a \in Where : Needs(Req("validate", a, "none")) \subseteq {"validate"} \cup Url({a})
  /\ \A c \in BOOLEAN : Needs(BuildCommitXML(c)) \subseteq CommitCaps(c)
  /\ Needs(Plain("discard-changes")) \subseteq {"candidate"}
  /\ Needs(Plain("cancel-commit")) = {} /\ Needs(Plain("kill-session")) = {}
  /\ \A t \in Datastores : Needs(Req("lock", "none", t)) = {} /\ Needs(Req("unlock", "none", t)) = {}
<1> USE OperationsAssumption DEF Needs, Req, Url, Plain
<1>1. \A a, b \in Where : Needs(BuildCopyXML(b, a)) \subseteq Url({a, b})
  BY DEF BuildCopyXML
<1>2. \A b \in Where : Needs(Req("delete-config", "none", b)) \subseteq Url({b})
  OBVIOUS
<1>3. \A a \in Where : Needs(Req("validate", a, "none")) \subseteq {"validate"} \cup Url({a})
  OBVIOUS
<1>4. \A c \in BOOLEAN : Needs(BuildCommitXML(c)) \subseteq CommitCaps(c)
  BY DEF BuildCommitXML, CommitCaps
<1>5. Needs(Plain("discard-changes")) \subseteq {"candidate"}
  OBVIOUS
<1>6. Needs(Plain("cancel-commit")) = {} /\ Needs(Plain("kill-session")) = {}
  OBVIOUS
<1>7. \A t \in Datastores : Needs(Req("lock", "none", t)) = {} /\ Needs(Req("unlock", "none", t)) = {}
  OBVIOUS
<1> QED
  BY <1>1, <1>2, <1>3, <1>4, <1>5, <1>6, <1>7

-----------------------------------------------------------------------------
(* The dialogs of one request, and the requests of the menu                 *)

LEMMA OpensKeeps ==
  ASSUME Inv, NEW d \in Dialogs, Opens(d)
  PROVE  Inv' /\ Supported
<1>1. StackOK(stack') /\ (Busy(stack) => Busy(stack'))
  BY Pushed, DialogOrWait DEF Opens, Frames, Inv, TypeOK
<1>2. SendOK' /\ ControlsKept /\ Supported
  BY <1>1, SameKeeps DEF Opens, tab, Inv, TypeOK
<1>3. UNCHANGED <<conn, signals, menu, lock, schemas, capshow, doubt, held>>
  BY DEF Opens, tab, views
<1> QED
  BY <1>2, <1>3, QuietStep DEF Inv, TypeOK

LEMMA DialogTyped ==
  ASSUME Inv, NEW k \in {"copy", "delete", "validate", "confirmed", "cancel", "locks", "manager"},
         NEW b \in SUBSET (Places \cup {"row"})
  PROVE  Dialog(k, b) \in Dialogs
BY DEF Dialog, Dialogs, Inv, TypeOK

LEMMA OpenDialogKeeps == Inv /\ OpenDialog => Inv' /\ Supported
<1> SUFFICES ASSUME Inv, NEW k \in {"copy", "delete", "validate", "confirmed", "cancel"},
                    Opens(Dialog(k, {}))
             PROVE  Inv' /\ Supported
  BY DEF OpenDialog
<1> QED
  BY DialogTyped, OpensKeeps

LEMMA ManageLocksKeeps == Inv /\ ManageLocks => Inv' /\ Supported
<1> SUFFICES ASSUME Inv, Opens(Dialog("locks", lock)) PROVE Inv' /\ Supported
  BY DEF ManageLocks
<1>1. lock \in SUBSET (Places \cup {"row"})
  BY DEF Inv, TypeOK
<1> QED
  BY <1>1, DialogTyped, OpensKeeps

LEMMA AcceptedRest ==
  ASSUME Inv, NEW kind \in {"copy", "delete", "validate", "confirmed", "cancel"}, Accepts(kind)
  PROVE  StackOK(Below) /\ (Busy(stack) => Busy(Below))
<1>1. StackOK(stack) /\ Modal # {}
  BY DEF Inv, TypeOK, Accepts, InFront
<1>2. stack # <<>>
  BY <1>1, Front, StackShape
<1> QED
  BY <1>1, <1>2, Topped DEF Accepts

LEMMA AcceptingKeeps ==
  Inv /\ (CopyConfig \/ DeleteConfig \/ ValidateConfig \/ ConfirmedCommit) => Inv' /\ Supported
<1> SUFFICES ASSUME Inv, CopyConfig \/ DeleteConfig \/ ValidateConfig \/ ConfirmedCommit
             PROVE  Inv' /\ Supported
  OBVIOUS
<1>0. Where \subseteq Places /\ "none" \in Places /\ DeleteConfiguration \subseteq Where
  BY OperationsAssumption DEF Where, Places, DeleteConfiguration
<1>1. CASE CopyConfig
  <2>1. PICK a \in Where, b \in Where :
             Request(Below, Req("copy-config", a, b), BuildCopyXML(b, a), Url({a, b}))
    BY <1>1 DEF CopyConfig, CopyConfiguration
  <2>2. Req("copy-config", a, b) \in Reqs /\ BuildCopyXML(b, a) \in Reqs
    BY <1>0, RequestsTyped DEF BuildCopyXML, Ops
  <2>3. Needs(BuildCopyXML(b, a)) \subseteq Url({a, b})
    BY NeedsKnown
  <2> QED
    BY <1>1, <2>1, <2>2, <2>3, AcceptedRest, RequestKeeps DEF CopyConfig
<1>2. CASE DeleteConfig
  <2>1. PICK b \in Where : LET r == Req("delete-config", "none", b)
                           IN Request(Below, r, r, Url({b}))
    BY <1>0, <1>2 DEF DeleteConfig
  <2>2. Req("delete-config", "none", b) \in Reqs
    BY <1>0, RequestsTyped DEF Ops
  <2>3. Needs(Req("delete-config", "none", b)) \subseteq Url({b})
    BY NeedsKnown
  <2> QED
    BY <1>2, <2>1, <2>2, <2>3, AcceptedRest, RequestKeeps DEF DeleteConfig
<1>3. CASE ValidateConfig
  <2>1. PICK a \in Where : LET r == Req("validate", a, "none")
                           IN Request(Below, r, r, {"validate"} \cup Url({a}))
    BY <1>3 DEF ValidateConfig, ValidateConfiguration
  <2>2. Req("validate", a, "none") \in Reqs
    BY <1>0, RequestsTyped DEF Ops
  <2>3. Needs(Req("validate", a, "none")) \subseteq {"validate"} \cup Url({a})
    BY NeedsKnown
  <2> QED
    BY <1>3, <2>1, <2>2, <2>3, AcceptedRest, RequestKeeps DEF ValidateConfig
<1>4. CASE ConfirmedCommit
  <2>1. PICK c \in BOOLEAN : LET r == BuildCommitXML(c) IN Request(Below, r, r, CommitCaps(c))
    BY <1>4 DEF ConfirmedCommit, ComfirmedCommit
  <2>2. BuildCommitXML(c) \in Reqs
    BY <1>0, RequestsTyped DEF Ops, BuildCommitXML, Plain
  <2>3. Needs(BuildCommitXML(c)) \subseteq CommitCaps(c)
    BY NeedsKnown
  <2> QED
    BY <1>4, <2>1, <2>2, <2>3, AcceptedRest, RequestKeeps DEF ConfirmedCommit
<1> QED
  BY <1>1, <1>2, <1>3, <1>4

LEMMA CommitKeeps ==
  Inv /\ (CancelCommit \/ Commit \/ DiscardChanges) => Inv' /\ Supported
<1> SUFFICES ASSUME Inv, CancelCommit \/ Commit \/ DiscardChanges PROVE Inv' /\ Supported
  OBVIOUS
<1>0. \A op \in Ops : Plain(op) \in Reqs
  BY RequestsTyped DEF Plain, Places
<1>1. CASE CancelCommit
  <2>1. Plain("cancel-commit") \in Reqs /\ Needs(Plain("cancel-commit")) \subseteq offer
    BY <1>0, NeedsKnown DEF Ops
  <2>2. StackOK(Below) /\ (Busy(stack) => Busy(Below))
    BY <1>1, AcceptedRest DEF CancelCommit
  <2>3. SendOK' /\ ControlsKept /\ Supported
    BY <1>1, <2>1, <2>2, SendsKeeps DEF CancelCommit
  <2>4. UNCHANGED <<conn, signals, menu, lock, schemas, capshow, doubt, held>>
    BY <1>1 DEF CancelCommit, views
  <2> QED
    BY <2>3, <2>4, QuietStep DEF Inv, TypeOK
<1>2. CASE Commit
  <2>1. BuildCommitXML(FALSE) \in Reqs
    BY RequestsTyped DEF Ops, BuildCommitXML, Plain, Places
  <2>2. Needs(BuildCommitXML(FALSE)) \subseteq CommitCaps(FALSE)
    BY NeedsKnown
  <2> QED
    BY <1>2, <2>1, <2>2, RequestKeeps DEF Commit, Inv, TypeOK
<1>3. CASE DiscardChanges
  <2>1. Plain("discard-changes") \in Reqs
    BY <1>0 DEF Ops
  <2>2. Needs(Plain("discard-changes")) \subseteq {"candidate"}
    BY NeedsKnown
  <2> QED
    BY <1>3, <2>1, <2>2, RequestKeeps DEF DiscardChanges, Inv, TypeOK
<1> QED
  BY <1>1, <1>2, <1>3

LEMMA CloseDialogKeeps == Inv /\ CloseDialog => Inv' /\ Supported
<1> SUFFICES ASSUME Inv, CloseDialog PROVE Inv' /\ Supported
  OBVIOUS
<1> DEFINE d == FrontDialog
           t == [stack EXCEPT ![d].open = FALSE]
<1>1. StackOK(stack) /\ d \in 1..Len(stack) /\ stack[d] \in Dialogs
  BY Front DEF CloseDialog, Inv, TypeOK
<1> HIDE DEF d
<1>2. DOMAIN stack = 1..Len(stack) /\ \A i \in 1..Len(stack) : stack[i] \in Dialogs \/ stack[i] \in Waits
  BY <1>1, StackShape
<1>3. [stack[d] EXCEPT !.open = FALSE] \in Dialogs
  BY <1>1 DEF Dialogs
<1>4. \A i \in 1..Len(stack) : t[i] = IF i = d THEN [stack[d] EXCEPT !.open = FALSE] ELSE stack[i]
  BY <1>1, <1>2
<1>5. t \in [1..Len(stack) -> Frames]
  BY <1>1, <1>2, <1>3 DEF Frames
<1> HIDE DEF t
<1>6. \A i \in 1..Len(stack) : Alike(stack[i], t[i])
  BY <1>1, <1>2, <1>3, <1>4, DialogOrWait DEF Alike
<1>7. StackOK(t) /\ (Busy(t) <=> Busy(stack))
  BY <1>1, <1>5, <1>6, AlikeKeeps
<1>8. stack' = Unwound(t)
  BY DEF CloseDialog, d, t
<1>9. StackOK(stack') /\ (Busy(stack') <=> Busy(stack))
  BY <1>7, <1>8, UnwoundKeeps
<1>10. SendOK' /\ ControlsKept /\ Supported
  BY <1>9, SameKeeps DEF CloseDialog, tab, Inv, TypeOK
<1>11. UNCHANGED <<conn, signals, menu, lock, schemas, capshow, doubt, held>>
  BY DEF CloseDialog, tab, views
<1> QED
  BY <1>10, <1>11, QuietStep DEF Inv, TypeOK

-----------------------------------------------------------------------------
(* The lock dialog and the session manager                                  *)

LEMMA FrontOf ==
  ASSUME Inv, NEW kind, kind # "schemas", InFront(kind)
  PROVE  FrontDialog \in 1..Len(stack) /\ stack[FrontDialog] \in Dialogs
BY Front DEF InFront, Inv, TypeOK

LEMMA ClickBoxKeeps == Inv /\ ClickBox => Inv' /\ Supported
<1> SUFFICES ASSUME Inv, ClickBox PROVE Inv' /\ Supported
  OBVIOUS
<1> DEFINE i == FrontDialog
<1>1. PICK t \in Datastores :
        LET on == t \notin stack[i].boxes
            f == Wait("rpc", "box", i, Req(IF on THEN "lock" ELSE "unlock", "none", t))
            clicked == [stack EXCEPT ![i].boxes = IF on THEN @ \cup {t} ELSE @ \ {t}]
        IN Posts(clicked, f) \/ Refuses(AfterBox(clicked, f, "none")) \/ Raises
  BY DEF ClickBox
<1> DEFINE on == t \notin stack[i].boxes
           req == Req(IF on THEN "lock" ELSE "unlock", "none", t)
           f == Wait("rpc", "box", i, req)
           b == IF on THEN stack[i].boxes \cup {t} ELSE stack[i].boxes \ {t}
           clicked == [stack EXCEPT ![i].boxes = b]
<1>2. StackOK(stack) /\ i \in 1..Len(stack) /\ stack[i] \in Dialogs
  BY FrontOf DEF ClickBox, Inv, TypeOK
<1>3. t \in Places /\ b \in SUBSET (Places \cup {"row"})
  BY <1>2 DEF Places, Dialogs
<1>4. [stack EXCEPT ![i].boxes = IF on THEN @ \cup {t} ELSE @ \ {t}] = clicked
  BY <1>2
<1>5. Posts(clicked, f) \/ Refuses(AfterBox(clicked, f, "none")) \/ Raises
  BY <1>1, <1>4
<1> HIDE DEF i, b
<1>6. StackOK(clicked) /\ (Busy(clicked) <=> Busy(stack)) /\ Len(clicked) = Len(stack)
      /\ clicked[i] \in Dialogs
  BY <1>2, <1>3, BoxSet
<1>7. req \in Reqs /\ Needs(req) = {}
  BY <1>3, RequestsTyped, NeedsKnown DEF Ops, Places
<1>8. i \in Nat
  BY <1>2, StackShape
<1> HIDE DEF clicked, req
<1>9. f \in Waits
  BY <1>7, <1>8, WaitTyped
<1>10. f.dlg = i /\ f.req = req /\ f.kind = "rpc"
  BY DEF Wait
<1> HIDE DEF f
<1>11. req.target \in Places
  BY <1>7 DEF Reqs
<1>12. SendOK' /\ ControlsKept /\ Supported
  <2>1. CASE Posts(clicked, f)
    <3>1. SendOK' /\ ControlsKept /\ stack'[Len(stack')] = f
      BY <2>1, <1>2, <1>6, <1>7, <1>9, <1>10, PostsKeeps
    <3>2. Supported
      BY <3>1, <1>7, <1>10 DEF Supported
    <3> QED
      BY <3>1, <3>2
  <2>2. CASE Refuses(AfterBox(clicked, f, "none"))
    <3>1. StackOK(AfterBox(clicked, f, "none"))
          /\ (Busy(AfterBox(clicked, f, "none")) <=> Busy(clicked))
      BY <1>2, <1>6, <1>10, <1>11, AfterBoxKeeps
    <3> QED
      BY <2>2, <3>1, <1>6, SameKeeps DEF Refuses, Inv, TypeOK
  <2>3. CASE Raises
    BY <2>3, SameKeeps DEF Raises, Inv, TypeOK
  <2> QED
    BY <1>5, <2>1, <2>2, <2>3
<1>13. UNCHANGED <<conn, signals, menu, lock, schemas, capshow, doubt, held>>
  BY DEF ClickBox, views
<1> QED
  BY <1>12, <1>13, QuietStep DEF Inv, TypeOK

(* A request for information: the controls stay as they are.               *)
LEMMA AsksKeeps ==
  ASSUME Inv, NEW below, StackOK(below), Busy(stack) => Busy(below) \/ operable',
         operable' \in BOOLEAN, ~operable' => ~operable,
         NEW via \in {"open", "refresh"},
         NEW dlg \in Nat, via = "refresh" => dlg \in 1..Len(below) /\ below[dlg] \in Dialogs,
         sends < MaxSends, sends' = sends + 1,
         stack' = Append(below, Wait("info", via, dlg, Plain("get"))),
         wire' = Append(wire, Wired(Plain("get"))),
         abort' \in BOOLEAN, app' = app
  PROVE  SendOK' /\ ControlsKept /\ Supported
<1>1. Plain("get") \in Reqs
  BY RequestsTyped DEF Plain, Ops, Places
<1> DEFINE f == Wait("info", via, dlg, Plain("get"))
<1>2. f \in Waits
  BY <1>1, WaitTyped
<1>3. f.kind = "info" /\ f.via = via /\ f.dlg = dlg /\ f.delay = FALSE
  BY DEF Wait
<1> HIDE DEF f
<1>4. StackOK(stack') /\ stack'[Len(stack')] = f /\ (Busy(below) => Busy(stack'))
  BY <1>2, <1>3, Pushed DEF OfDialog, WaitOK, Frames, f
<1>5. WireOK'
  BY <1>1, WiredOK
<1>6. sends' \in 0..MaxSends
  BY OperationsAssumption DEF Inv, TypeOK
<1> QED
  BY <1>3, <1>4, <1>5, <1>6 DEF SendOK, ControlsKept, Supported, Inv, TypeOK

LEMMA ListedKeeps ==
  ASSUME Inv, NEW below, StackOK(below), NEW via, NEW dlg,
         via # "open" => dlg \in 1..Len(below) /\ below[dlg] \in Dialogs,
         NEW rows \in SUBSET {"row"}
  PROVE  StackOK(Listed(below, via, dlg, rows)) /\ (Busy(Listed(below, via, dlg, rows)) <=> Busy(below))
<1>1. rows \in SUBSET (Places \cup {"row"})
  OBVIOUS
<1>2. CASE via = "open"
  <2>1. Dialog("manager", rows) \in Dialogs
    BY <1>1, DialogTyped
  <2>2. Listed(below, via, dlg, rows) = Append(below, Dialog("manager", rows))
    BY <1>2 DEF Listed
  <2> QED
    BY <2>1, <2>2, Pushed, DialogOrWait DEF Frames
<1>3. CASE via # "open"
  <2> DEFINE t == [below EXCEPT ![dlg].boxes = rows]
  <2>1. StackOK(t) /\ (Busy(t) <=> Busy(below))
    BY <1>1, <1>3, BoxSet
  <2>2. Listed(below, via, dlg, rows) = Unwound(t)
    BY <1>3 DEF Listed
  <2> QED
    BY <2>1, <2>2, UnwoundKeeps
<1> QED
  BY <1>2, <1>3

LEMMA ManagerKeeps == Inv /\ (OpenManager \/ Refresh) => Inv' /\ Supported
<1> SUFFICES ASSUME Inv, NEW via \in {"open", "refresh"}, NEW dlg \in Nat,
                    via = "refresh" => dlg \in 1..Len(stack) /\ stack[dlg] \in Dialogs,
                    \/ Asks(via, dlg)
                    \/ /\ stack' = Listed(stack, via, dlg, {})
                       /\ UNCHANGED <<wire, abort, sends>>,
                    UNCHANGED <<conn, signals, operable, menu, views, held, app>>
             PROVE  Inv' /\ Supported
  <2>1. ASSUME Inv, Refresh PROVE FrontDialog \in Nat /\ FrontDialog \in 1..Len(stack)
                                  /\ stack[FrontDialog] \in Dialogs
    BY <2>1, FrontOf, StackShape DEF Refresh
  <2>2. 0 \in Nat
    OBVIOUS
  <2> QED
    BY <2>1, <2>2 DEF OpenManager, Refresh
<1>1. StackOK(stack)
  BY DEF Inv, TypeOK
<1>2. SendOK' /\ ControlsKept /\ Supported
  <2>1. CASE Asks(via, dlg)
    BY <2>1, <1>1, AsksKeeps DEF Asks, Inv, TypeOK
  <2>2. CASE stack' = Listed(stack, via, dlg, {}) /\ UNCHANGED <<wire, abort, sends>>
    <3>1. StackOK(stack') /\ (Busy(stack) => Busy(stack'))
      BY <2>2, <1>1, ListedKeeps
    <3> QED
      BY <2>2, <3>1, SameKeeps DEF Inv, TypeOK
  <2> QED
    BY <2>1, <2>2
<1> QED
  BY <1>2, QuietStep DEF Inv, TypeOK, views

LEMMA KillSessionKeeps == Inv /\ KillSession => Inv' /\ Supported
<1> SUFFICES ASSUME Inv, KillSession PROVE Inv' /\ Supported
  OBVIOUS
<1> DEFINE d == FrontDialog
           f == Wait("rpc", "kill", d, Plain("kill-session"))
<1>1. StackOK(stack) /\ d \in 1..Len(stack) /\ stack[d] \in Dialogs /\ d \in Nat
  BY FrontOf, StackShape DEF KillSession, Inv, TypeOK
<1>2. Plain("kill-session") \in Reqs /\ Needs(Plain("kill-session")) = {}
  BY RequestsTyped, NeedsKnown DEF Plain, Ops, Places
<1>3. SendOK' /\ ControlsKept /\ Supported
  <2>1. CASE Posts(stack, f)
    <3> HIDE DEF d
    <3>1. f \in Waits
      BY <1>1, <1>2, WaitTyped
    <3>2. f.dlg = d /\ f.req = Plain("kill-session") /\ f.kind = "rpc"
      BY DEF Wait
    <3> HIDE DEF f
    <3>3. SendOK' /\ ControlsKept /\ stack'[Len(stack')] = f
      BY <2>1, <1>1, <1>2, <3>1, <3>2, PostsKeeps
    <3> QED
      BY <3>2, <3>3, <1>2 DEF Supported
  <2>2. CASE Raises
    BY <2>2, SameKeeps DEF Raises, Inv, TypeOK
  <2>3. CASE app' = "exited" /\ UNCHANGED <<operable, abort, stack, wire, sends>>
    BY <2>3, SameKeeps DEF Inv, TypeOK
  <2> QED
    BY <2>1, <2>2, <2>3 DEF KillSession
<1>4. UNCHANGED <<conn, signals, menu, lock, schemas, capshow, doubt, held>>
  BY DEF KillSession, views
<1> QED
  BY <1>3, <1>4, QuietStep DEF Inv, TypeOK

LEMMA InfoReturnsKeeps == Inv /\ InfoReturns => Inv' /\ Supported
<1> SUFFICES ASSUME Inv, InfoReturns PROVE Inv' /\ Supported
  OBVIOUS
<1>1. /\ StackOK(Below) /\ (Busy(stack) => Busy(Below))
      /\ Top.via # "open" => Top.dlg \in 1..Len(Below) /\ Below[Top.dlg] \in Dialogs
  <2>1. StackOK(stack) /\ stack # <<>> /\ Top.kind = "info"
    BY DEF InfoReturns, Inv, TypeOK
  <2>2. Top \in Waits
    BY <2>1, Topped DEF Frames, Dialogs
  <2> QED
    BY <2>1, <2>2, Topped DEF WaitOK
<1>2. StackOK(stack') /\ (Busy(stack) => Busy(stack'))
  BY <1>1, ListedKeeps DEF InfoReturns
<1>3. SendOK' /\ ControlsKept /\ Supported
  BY <1>2, SameKeeps DEF InfoReturns, tab, Inv, TypeOK
<1>4. UNCHANGED <<conn, signals, menu, lock, schemas, capshow, doubt, held>>
  BY DEF InfoReturns, tab, views
<1> QED
  BY <1>3, <1>4, QuietStep DEF Inv, TypeOK

-----------------------------------------------------------------------------
(* Schemas and the reply of a request                                       *)

LEMMA GetSchemasKeeps == Inv /\ GetSchemas => Inv' /\ Supported
<1> SUFFICES ASSUME Inv, GetSchemas PROVE Inv' /\ Supported
  OBVIOUS
<1>1. StackOK(stack) /\ operable /\ sends \in Nat
  BY OperationsAssumption DEF GetSchemas, Inv, TypeOK
<1>2. SendOK' /\ ControlsKept /\ Supported /\ menu' \subseteq Acts
  <2>1. CASE /\ sends < MaxSends /\ sends' = sends + 1
             /\ stack' = Append(stack, Wait("schemas", "menu", 0, Plain("get")))
             /\ wire' = Append(wire, Wired(Plain("get")))
             /\ operable' = FALSE /\ menu' = Enabled(FALSE) /\ abort' = FALSE
    <3> DEFINE f == Wait("schemas", "menu", 0, Plain("get"))
    <3>1. Plain("get") \in Reqs
      BY RequestsTyped DEF Plain, Ops, Places
    <3>2. f \in Waits
      BY <3>1, WaitTyped
    <3>3. f.kind = "schemas" /\ f.via = "menu" /\ f.delay = FALSE
      BY DEF Wait
    <3> HIDE DEF f
    <3>4. StackOK(stack') /\ Busy(stack') /\ stack'[Len(stack')] = f
      BY <2>1, <1>1, <3>2, <3>3, Pushed DEF OfDialog, WaitOK, Frames, f
    <3>5. WireOK'
      BY <2>1, <3>1, WiredOK
    <3>6. sends' \in 0..MaxSends
      BY <2>1, <1>1, OperationsAssumption
    <3>7. app' = app
      BY DEF GetSchemas
    <3> QED
      BY <2>1, <3>3, <3>4, <3>5, <3>6, <3>7, EnabledActs DEF SendOK, ControlsKept, Supported, Inv, TypeOK
  <2>2. CASE /\ operable' = TRUE /\ menu' = Enabled(TRUE)
             /\ UNCHANGED <<stack, wire, abort, sends>>
    BY <2>2, <1>1, SameKeeps, EnabledActs DEF GetSchemas, Inv, TypeOK
  <2> QED
    BY <2>1, <2>2 DEF GetSchemas
<1>3. UNCHANGED <<conn, signals, lock, schemas, capshow, doubt, held>>
  BY DEF GetSchemas, views
<1> QED
  BY <1>2, <1>3, QuietStep DEF Inv, TypeOK

LEMMA NextSchemaKeeps == Inv /\ NextSchema => Inv' /\ Supported
<1> SUFFICES ASSUME Inv, NextSchema PROVE Inv' /\ Supported
  OBVIOUS
<1>1. StackOK(stack) /\ stack # <<>> /\ Top.kind = "schemas" /\ sends \in Nat /\ manager \in Nat
  BY OperationsAssumption DEF NextSchema, Inv, TypeOK
<1>2. Top \in Waits /\ WaitOK(Top) /\ StackOK(Below)
      /\ (OfDialog(Top) => Top.dlg \in 1..Len(Below) /\ Below[Top.dlg] \in Dialogs)
  BY <1>1, Topped DEF Frames, Dialogs
<1>3. PICK n \in Int : stack' = Append(Below, [Top EXCEPT !.id = sends + 1, !.of = manager,
                                                         !.reply = "pending", !.left = n - 1])
  <2>1. Top.left \in Int /\ 1..MaxSchemas \subseteq Int
    BY <1>2, OperationsAssumption DEF Waits
  <2> QED
    BY <2>1 DEF NextSchema
<1> DEFINE f == [Top EXCEPT !.id = sends + 1, !.of = manager, !.reply = "pending", !.left = n - 1]
<1>4. f \in Waits /\ f.kind = "schemas" /\ f.via = Top.via /\ f.dlg = Top.dlg /\ f.delay = Top.delay
  <2>1. sends + 1 \in Nat /\ n - 1 \in Int
    BY <1>1
  <2>2. f \in Waits
    BY <1>1, <1>2, <2>1 DEF Waits
  <2>3. f.kind = Top.kind /\ f.via = Top.via /\ f.dlg = Top.dlg /\ f.delay = Top.delay
    BY <1>2 DEF Waits
  <2> QED
    BY <1>1, <2>2, <2>3
<1>a. stack' = Append(Below, f)
  BY <1>3
<1> HIDE DEF f
<1>5. WaitOK(f) /\ (OfDialog(f) => f.dlg \in 1..Len(Below) /\ Below[f.dlg] \in Dialogs)
  BY <1>1, <1>2, <1>4 DEF WaitOK, OfDialog
<1>6. StackOK(stack') /\ Busy(stack') /\ stack'[Len(stack')] = f
  BY <1>2, <1>a, <1>4, <1>5, Pushed DEF Frames
<1>7. Plain("get-schema") \in Reqs
  BY RequestsTyped DEF Plain, Ops, Places
<1>8. WireOK'
  BY <1>7, WiredOK DEF NextSchema
<1>9. sends' \in 0..MaxSends
  BY <1>1, OperationsAssumption DEF NextSchema
<1>10. SendOK' /\ ControlsKept /\ Supported
  BY <1>4, <1>6, <1>8, <1>9 DEF NextSchema, SendOK, ControlsKept, Supported, Inv, TypeOK
<1>11. UNCHANGED <<conn, signals, menu, lock, schemas, capshow, doubt, held>>
  BY DEF NextSchema, views
<1> QED
  BY <1>10, <1>11, QuietStep DEF Inv, TypeOK

LEMMA SchemasLoadedKeeps == Inv /\ SchemasLoaded => Inv' /\ Supported
<1> SUFFICES ASSUME Inv, SchemasLoaded PROVE Inv' /\ Supported
  OBVIOUS
<1>1. StackOK(stack) /\ stack # <<>> /\ Top.kind = "schemas" /\ sends \in Nat
  BY OperationsAssumption DEF SchemasLoaded, Inv, TypeOK
<1>2. StackOK(Below) /\ Top \in Waits
  BY <1>1, Topped DEF Frames, Dialogs
<1>3. PICK list \in Nat : LoadEnds(list)
  <2>1. Top.of \in Nat
    BY <1>2 DEF Waits
  <2> QED
    BY <2>1 DEF SchemasLoaded
<1>4. StackOK(stack')
  BY <1>2, <1>3, UnwoundKeeps DEF LoadEnds
<1>5. SendOK' /\ ControlsKept /\ Supported
  BY <1>1, <1>3, <1>4 DEF SchemasLoaded, LoadEnds, SendOK, WireOK, ControlsKept, Supported, Inv, TypeOK
<1>6. UNCHANGED <<conn, signals, lock, capshow, doubt, held>> /\ menu' \subseteq Acts /\ schemas' \in Nat
  BY <1>3, EnabledActs DEF SchemasLoaded, LoadEnds
<1> QED
  BY <1>5, <1>6, QuietStep DEF Inv, TypeOK

LEMMA ShowCapabilitiesKeeps == Inv /\ ShowCapabilities => Inv' /\ Supported
<1> SUFFICES ASSUME Inv, ShowCapabilities PROVE Inv' /\ Supported
  OBVIOUS
<1>1. /\ UNCHANGED <<manager, up, connected, offer, conns, signals, operable, menu, abort, stack,
                     lock, schemas, doubt, wire, held, app, sends>>
      /\ capshow' = manager /\ connected
  BY DEF ShowCapabilities, conn, tab
<1>2. TypeOK'
  BY <1>1 DEF Inv, TypeOK
<1>3. ConnectionKnown'
  BY <1>1 DEF Inv, ConnectionKnown, Busy, LossPending
<1>4. sends \in Nat
  BY OperationsAssumption DEF Inv, TypeOK
<1> QED
  BY <1>1, <1>2, <1>3, <1>4 DEF Inv, Supported

(* A wait that ends: a box of the dialog below may be set.                 *)
LEMMA ResumesKeeps ==
  ASSUME Inv, stack # <<>>, Top.kind = "rpc", NEW f, f.via = Top.via, f.dlg = Top.dlg,
         f.req = Top.req, NEW rsp, Resumes(f, rsp)
  PROVE  StackOK(stack') /\ UNCHANGED <<wire, app, sends>>
<1>1. StackOK(stack)
  BY DEF Inv, TypeOK
<1>2. Top \in Waits /\ StackOK(Below)
      /\ (OfDialog(Top) => Top.dlg \in 1..Len(Below) /\ Below[Top.dlg] \in Dialogs)
  BY <1>1, Topped DEF Frames, Dialogs
<1>3. CASE f.via = "box"
  <2>1. f.dlg \in 1..Len(Below) /\ Below[f.dlg] \in Dialogs /\ f.req.target \in Places
    BY <1>2, <1>3 DEF OfDialog, Waits, Reqs
  <2>2. StackOK(AfterBox(Below, f, rsp))
    BY <1>2, <2>1, AfterBoxKeeps
  <2> QED
    BY <1>3, <2>2, UnwoundKeeps DEF Resumes
<1>4. CASE f.via # "box"
  BY <1>2, <1>4, UnwoundKeeps DEF Resumes
<1> QED
  BY <1>3, <1>4

LEMMA KillAnsweredKeeps ==
  ASSUME Inv, stack # <<>>, Top.kind = "rpc", Top.via = "kill", KillAnswered(Top),
         operable' = TRUE, abort' = abort
  PROVE  SendOK' /\ ControlsKept /\ Supported
<1>1. StackOK(stack) /\ sends \in Nat
  BY OperationsAssumption DEF Inv, TypeOK
<1>2. Top \in Waits /\ StackOK(Below) /\ Top.dlg \in 1..Len(Below) /\ Below[Top.dlg] \in Dialogs
      /\ Top.dlg \in Nat
  BY <1>1, Topped DEF Frames, Dialogs, OfDialog, Waits
<1>3. CASE /\ sends < MaxSends /\ sends' = sends + 1
           /\ stack' = Append(Below, Wait("info", "refresh", Top.dlg, Plain("get")))
           /\ wire' = Append(wire, Wired(Plain("get")))
           /\ app' = app
  BY <1>2, <1>3, AsksKeeps DEF Inv, TypeOK
<1>4. CASE /\ stack' = Unwound([Below EXCEPT ![Top.dlg].boxes = {}])
           /\ UNCHANGED <<wire, app, sends>>
  <2>1. StackOK([Below EXCEPT ![Top.dlg].boxes = {}])
    BY <1>2, BoxSet
  <2>2. StackOK(stack')
    BY <1>4, <2>1, UnwoundKeeps
  <2> QED
    BY <1>1, <1>4, <2>2 DEF SendOK, WireOK, ControlsKept, Supported, Inv, TypeOK
<1> QED
  BY <1>3, <1>4 DEF KillAnswered

LEMMA NotesTyped ==
  ASSUME Inv, NEW f, f.req.target \in Places
  PROVE  Noted(f) \subseteq Places /\ Doubted(f) \subseteq Places
<1>1. lock \subseteq Places /\ doubt \subseteq Places
  BY DEF Inv, TypeOK
<1> QED
  BY <1>1 DEF Noted, Doubted

LEMMA ReturnsKeeps == Inv /\ Returns => Inv' /\ Supported
<1> SUFFICES ASSUME Inv, Returns PROVE Inv' /\ Supported
  OBVIOUS
<1>1. stack # <<>> /\ Top.kind = "rpc" /\ operable' = TRUE /\ menu' = Enabled(TRUE) /\ abort' = abort
      /\ sends \in Nat
  BY OperationsAssumption DEF Returns, Inv, TypeOK
<1>2. Top.req.target \in Places
  BY <1>1, Topped DEF Frames, Dialogs, Waits, Reqs, Inv, TypeOK
<1>3. SendOK' /\ ControlsKept /\ Supported
  <2>1. CASE Top.via = "kill" /\ KillAnswered(Top)
    BY <1>1, <2>1, KillAnsweredKeeps
  <2>2. CASE Resumes(Top, Top.reply)
    <3>1. StackOK(stack') /\ UNCHANGED <<wire, app, sends>>
      BY <1>1, <2>2, ResumesKeeps
    <3> QED
      BY <1>1, <3>1 DEF SendOK, WireOK, ControlsKept, Supported, Inv, TypeOK
  <2> QED
    BY <2>1, <2>2 DEF Returns
<1>4. lock' \subseteq Places /\ doubt' \subseteq Places
  BY <1>2, NotesTyped DEF Returns
<1>5. UNCHANGED <<conn, signals, schemas, capshow, held>> /\ menu' \subseteq Acts
  BY <1>1, EnabledActs DEF Returns
<1> QED
  BY <1>3, <1>4, <1>5, QuietStep DEF Inv, TypeOK

LEMMA FailsKeeps == Inv /\ Fails => Inv' /\ Supported
<1> SUFFICES ASSUME Inv, Fails PROVE Inv' /\ Supported
  OBVIOUS
<1>1. stack # <<>> /\ Top.kind = "rpc" /\ operable' = TRUE /\ menu' = Enabled(TRUE) /\ abort' = abort
      /\ sends \in Nat
  BY OperationsAssumption DEF Fails, Inv, TypeOK
<1>2. Top \in Waits
  BY <1>1, Topped DEF Frames, Dialogs, Inv, TypeOK
<1>3. [Top EXCEPT !.reply = "failed"].req.target \in Places
  BY <1>2 DEF Waits, Reqs
<1>4. SendOK' /\ ControlsKept /\ Supported
  <2>1. CASE Resumes(Top, "none")
    <3>1. StackOK(stack') /\ UNCHANGED <<wire, app, sends>>
      BY <1>1, <2>1, ResumesKeeps
    <3> QED
      BY <1>1, <3>1 DEF SendOK, WireOK, ControlsKept, Supported, Inv, TypeOK
  <2>2. CASE app' = "exited" /\ UNCHANGED <<stack, wire, sends>>
    BY <1>1, <2>2 DEF SendOK, WireOK, ControlsKept, Supported, Inv, TypeOK
  <2> QED
    BY <2>1, <2>2 DEF Fails
<1>5. doubt' \subseteq Places
  BY <1>3, NotesTyped DEF Fails
<1>6. UNCHANGED <<conn, signals, lock, schemas, capshow, held>> /\ menu' \subseteq Acts
  BY <1>1, EnabledActs DEF Fails
<1> QED
  BY <1>4, <1>5, <1>6, QuietStep DEF Inv, TypeOK

LEMMA DelayedControlKeeps == Inv /\ (\E i \in DOMAIN stack : DelayedControl(i)) => Inv' /\ Supported
<1> SUFFICES ASSUME Inv, NEW i \in DOMAIN stack, DelayedControl(i) PROVE Inv' /\ Supported
  OBVIOUS
<1>1. StackOK(stack) /\ sends \in Nat
  BY OperationsAssumption DEF Inv, TypeOK
<1>2. Len(stack) \in Nat /\ DOMAIN stack = 1..Len(stack)
      /\ \A j \in 1..Len(stack) : stack[j] \in Dialogs \/ stack[j] \in Waits
  BY <1>1, StackShape
<1>3. stack[i] \in Waits /\ stack[i].delay
  BY <1>2, DialogOrWait DEF DelayedControl
<1>4. stack[i].kind = "rpc"
  BY <1>1, <1>3 DEF StackOK, WaitOK
<1> DEFINE t == [stack EXCEPT ![i].delay = FALSE]
<1>5. [stack[i] EXCEPT !.delay = FALSE] \in Waits
  BY <1>3 DEF Waits
<1>6. \A j \in 1..Len(stack) : t[j] = IF j = i THEN [stack[i] EXCEPT !.delay = FALSE] ELSE stack[j]
  BY <1>2
<1>7. t \in [1..Len(stack) -> Frames]
  BY <1>2, <1>5 DEF Frames
<1>8. LET g == [stack[i] EXCEPT !.delay = FALSE]
      IN g.kind = stack[i].kind /\ g.via = stack[i].via /\ g.dlg = stack[i].dlg
  BY <1>3 DEF Waits
<1>a. stack' = t
  BY DEF DelayedControl
<1> HIDE DEF t
<1>9. \A j \in 1..Len(stack) : Alike(stack[j], t[j])
  BY <1>2, <1>3, <1>5, <1>6, <1>8, DialogOrWait DEF Alike
<1>10. StackOK(t) /\ (Busy(t) <=> Busy(stack))
  BY <1>1, <1>7, <1>9, AlikeKeeps
<1>11. Busy(stack)
  BY <1>4 DEF Busy
<1>12. SendOK' /\ ControlsKept /\ Supported
  <2>1. UNCHANGED <<abort, wire, app, sends>> /\ operable' = FALSE
    BY DEF DelayedControl
  <2>2. SendOK'
    BY <1>10, <1>a, <2>1 DEF SendOK, WireOK, Inv, TypeOK
  <2>3. ControlsKept
    BY <1>10, <1>11, <1>a DEF ControlsKept
  <2>4. Supported
    BY <1>1, <2>1 DEF Supported
  <2> QED
    BY <2>2, <2>3, <2>4
<1>13. UNCHANGED <<conn, signals, lock, schemas, capshow, doubt, held>> /\ menu' \subseteq Acts
  BY EnabledActs DEF DelayedControl, views
<1> QED
  BY <1>12, <1>13, QuietStep DEF Inv, TypeOK

LEMMA AbortKeeps == Inv /\ Abort => Inv' /\ Supported
<1> SUFFICES ASSUME Inv, Abort PROVE Inv' /\ Supported
  OBVIOUS
<1>1. UNCHANGED <<conn, signals, operable, menu, stack, lock, schemas, capshow, doubt, wire, held, app, sends>>
      /\ abort' = TRUE
  BY DEF Abort, views
<1>2. sends \in Nat
  BY OperationsAssumption DEF Inv, TypeOK
<1>3. SendOK' /\ ControlsKept /\ Supported
  BY <1>1, <1>2 DEF SendOK, WireOK, ControlsKept, Supported, Inv, TypeOK
<1> QED
  BY <1>1, <1>3, QuietStep DEF Inv, TypeOK

-----------------------------------------------------------------------------
(* The connection                                                           *)

LEMMA SignalsShape ==
  ASSUME Inv
  PROVE  signals \in Seq(BOOLEAN) /\ Len(signals) \in Nat /\ DOMAIN signals = 1..Len(signals)
BY LenProperties DEF Inv, TypeOK

(* A signal is queued.                                                     *)
LEMMA Queued ==
  ASSUME Inv, NEW b \in BOOLEAN, signals' = Append(signals, b)
  PROVE  /\ signals' \in Seq(BOOLEAN) /\ signals' # <<>> /\ signals'[Len(signals')] = b
         /\ LossPending' <=> LossPending \/ ~b
<1>1. signals \in Seq(BOOLEAN) /\ Len(signals) \in Nat /\ DOMAIN signals = 1..Len(signals)
  BY SignalsShape
<1>2. /\ signals' \in Seq(BOOLEAN) /\ Len(signals') = Len(signals) + 1
      /\ signals'[Len(signals) + 1] = b
      /\ \A i \in 1..Len(signals) : signals'[i] = signals[i]
  BY <1>1, AppendProperties
<1>3. DOMAIN signals' = 1..(Len(signals) + 1) /\ signals' # <<>>
  BY <1>1, <1>2, LenProperties, EmptySeq
<1>4. LossPending' <=> \E i \in DOMAIN signals' : ~signals'[i]
  BY DEF LossPending
<1> QED
  BY <1>1, <1>2, <1>3, <1>4 DEF LossPending

(* The first signal is handled.                                            *)
LEMMA Unqueued ==
  ASSUME Inv, signals # <<>>, signals' = Tail(signals)
  PROVE  /\ signals' \in Seq(BOOLEAN)
         /\ signals' # <<>> => signals'[Len(signals')] = signals[Len(signals)]
         /\ signals' = <<>> => signals[Len(signals)] = Head(signals)
         /\ Head(signals) \in BOOLEAN
         /\ Head(signals) = TRUE => (LossPending' <=> LossPending)
<1>1. signals \in Seq(BOOLEAN) /\ Len(signals) \in Nat /\ DOMAIN signals = 1..Len(signals)
  BY SignalsShape
<1>2. Len(signals) \in Nat \ {0}
  BY <1>1, EmptySeq
<1>3. /\ Head(signals) = signals[1] /\ signals' \in Seq(BOOLEAN)
      /\ Len(signals') = Len(signals) - 1
      /\ \A i \in 1..Len(signals') : signals'[i] = signals[i + 1]
  BY <1>1, HeadTailProperties
<1>4. DOMAIN signals' = 1..(Len(signals) - 1) /\ (signals' = <<>> <=> Len(signals) = 1)
  BY <1>2, <1>3, LenProperties, EmptySeq
<1>5. signals' # <<>> => signals'[Len(signals')] = signals[Len(signals)]
  BY <1>2, <1>3, <1>4
<1>7. Head(signals) \in BOOLEAN
  BY <1>1, <1>2, <1>3, ElementOfSeq
<1>6. ASSUME Head(signals) = TRUE PROVE LossPending' <=> LossPending
  <2>1. ASSUME NEW i \in DOMAIN signals, ~signals[i] PROVE i - 1 \in DOMAIN signals' /\ ~signals'[i - 1]
    <3>1. i # 1 /\ i \in 1..Len(signals)
      <4>1. i # 1
        BY <1>3, <1>6, <2>1, Zenon
      <4> QED
        BY <1>1, <4>1
    <3>2. i - 1 \in 1..Len(signals') /\ (i - 1) + 1 = i
      BY <1>2, <1>3, <3>1
    <3> QED
      <4>1. signals'[i - 1] = signals[i] /\ i - 1 \in DOMAIN signals'
        BY <1>3, <1>4, <3>2
      <4> QED
        BY <2>1, <4>1, Zenon
  <2>2. ASSUME NEW i \in DOMAIN signals', ~signals'[i] PROVE i + 1 \in DOMAIN signals /\ ~signals[i + 1]
    BY <1>1, <1>2, <1>3, <1>4, <2>2
  <2>3. LossPending' <=> \E i \in DOMAIN signals' : ~signals'[i]
    BY DEF LossPending
  <2> QED
    BY <2>1, <2>2, <2>3 DEF LossPending
<1> QED
  <2>1. signals' = <<>> => signals[Len(signals)] = Head(signals)
    BY <1>3, <1>4
  <2> QED
    BY <1>3, <1>5, <1>6, <1>7, <2>1, Zenon

(* Some waits got a reply.                                                 *)
LEMMA Replied ==
  ASSUME Inv, NEW F \in SUBSET DOMAIN stack, \A i \in F : Waiting(stack[i]),
         NEW r \in {"ok", "error", "failed"},
         stack' = [i \in DOMAIN stack |->
                     IF i \in F THEN [stack[i] EXCEPT !.reply = r] ELSE stack[i]]
  PROVE  StackOK(stack') /\ (Busy(stack') <=> Busy(stack))
<1> DEFINE t == [i \in DOMAIN stack |->
                   IF i \in F THEN [stack[i] EXCEPT !.reply = r] ELSE stack[i]]
<1>1. StackOK(stack)
  BY DEF Inv, TypeOK
<1>2. DOMAIN stack = 1..Len(stack)
      /\ \A i \in 1..Len(stack) : stack[i] \in Dialogs \/ stack[i] \in Waits
  BY <1>1, StackShape
<1>3. \A i \in F : stack[i] \in Waits /\ [stack[i] EXCEPT !.reply = r] \in Waits
  <2>1. \A i \in F : stack[i] \in Waits
    BY <1>2, DialogOrWait
  <2> QED
    BY <2>1 DEF Waits
<1>4. \A i \in F : LET g == [stack[i] EXCEPT !.reply = r]
                   IN /\ g.kind = stack[i].kind /\ g.via = stack[i].via
                      /\ g.dlg = stack[i].dlg /\ g.delay = stack[i].delay
  BY <1>3 DEF Waits
<1>5. t \in [1..Len(stack) -> Frames]
  BY <1>2, <1>3 DEF Frames
<1>6. \A i \in 1..Len(stack) : Alike(stack[i], t[i])
  <2>1. ASSUME NEW i \in F PROVE Alike(stack[i], t[i])
    BY <1>3, <1>4, DialogOrWait DEF Alike
  <2>2. ASSUME NEW i \in DOMAIN stack \ F PROVE Alike(stack[i], t[i])
    BY DEF Alike
  <2> QED
    BY <1>2, <2>1, <2>2
<1> HIDE DEF t
<1>7. StackOK(t) /\ (Busy(t) <=> Busy(stack))
  BY <1>1, <1>5, <1>6, AlikeKeeps
<1> QED
  BY <1>7 DEF t

(* The connection changes, and nothing is sent.                            *)
LEMMA EnvironmentStep ==
  ASSUME Inv, UNCHANGED <<operable, menu, abort, lock, doubt, schemas, capshow, app, sends>>,
         StackOK(stack'), Busy(stack') <=> Busy(stack), WireOK', held' \subseteq Places,
         manager' \in Nat, conns' \in 0..MaxConns, up' \in BOOLEAN, connected' \in BOOLEAN,
         offer' \subseteq Capabilities, signals' \in Seq(BOOLEAN), ConnectionKnown'
  PROVE  Inv' /\ Supported
<1>1. sends \in Nat
  BY OperationsAssumption DEF Inv, TypeOK
<1> QED
  BY <1>1 DEF Inv, TypeOK, WireOK, Supported

LEMMA ConnectsKeeps == Inv /\ Connects => Inv' /\ Supported
<1> SUFFICES ASSUME Inv, Connects PROVE Inv' /\ Supported
  OBVIOUS
<1>1. manager' = conns + 1 /\ conns' = conns + 1 /\ conns \in Nat /\ conns + 1 \in 1..MaxConns
  BY OperationsAssumption DEF Connects, Inv, TypeOK
<1>2. /\ signals' \in Seq(BOOLEAN) /\ signals' # <<>> /\ signals'[Len(signals')] = TRUE
      /\ LossPending' <=> LossPending
  BY Queued DEF Connects
<1>3. capshow = 0
  <2>1. manager = 0 /\ ~LossPending
    BY Zenon DEF Connects, LossPending
  <2>2. capshow # 0 => (connected /\ capshow = manager) \/ LossPending
    BY Zenon DEF Inv, ConnectionKnown
  <2> QED
    BY <2>1, <2>2, Zenon
<1>4. ConnectionKnown'
  <2>1. connected' = TRUE /\ capshow' = 0 /\ manager' # 0
    BY <1>1, <1>3 DEF Connects, views
  <2>2. signals' # <<>> /\ signals'[Len(signals')] = connected'
    BY <1>2, <2>1
  <2> QED
    BY <2>1, <2>2 DEF ConnectionKnown
<1>5. UNCHANGED <<operable, menu, abort, lock, doubt, schemas, capshow, app, sends, stack, wire, held>>
      /\ connected' = TRUE /\ up' = TRUE /\ offer' \subseteq Capabilities
  BY OperationsAssumption DEF Connects, views
<1>6. StackOK(stack') /\ (Busy(stack') <=> Busy(stack)) /\ WireOK' /\ held' \subseteq Places
  BY <1>5 DEF Inv, TypeOK, WireOK
<1> QED
  BY <1>1, <1>2, <1>4, <1>5, <1>6, EnvironmentStep DEF Inv, TypeOK

LEMMA LostKeeps == Inv /\ Lost => Inv' /\ Supported
<1> SUFFICES ASSUME Inv, Lost PROVE Inv' /\ Supported
  OBVIOUS
<1>1. PICK F \in SUBSET {i \in DOMAIN stack : Waiting(stack[i]) /\ stack[i].of = manager
                                               /\ stack[i].reply = "pending"} :
        stack' = [i \in DOMAIN stack |->
                    IF i \in F THEN [stack[i] EXCEPT !.reply = "failed"] ELSE stack[i]]
  BY DEF Lost
<1>2. F \in SUBSET DOMAIN stack /\ \A i \in F : Waiting(stack[i])
  OBVIOUS
<1>3. StackOK(stack') /\ (Busy(stack') <=> Busy(stack))
  BY <1>1, <1>2, Replied
<1>4. /\ UNCHANGED <<manager, connected, offer, conns, signals, operable, menu, abort, lock,
                     schemas, capshow, doubt, app, sends>>
      /\ up' = FALSE /\ wire' = <<>> /\ held' = {}
  BY DEF Lost, tab, views
<1>5. LossPending' <=> LossPending
  BY <1>4 DEF LossPending
<1>6. ConnectionKnown'
  BY <1>3, <1>4, <1>5 DEF Inv, ConnectionKnown
<1>7. WireOK'
  BY <1>4, EmptySeq DEF WireOK
<1> QED
  BY <1>3, <1>4, <1>6, <1>7, EnvironmentStep DEF Inv, TypeOK

LEMMA NoticedKeeps == Inv /\ Noticed => Inv' /\ Supported
<1> SUFFICES ASSUME Inv, Noticed PROVE Inv' /\ Supported
  OBVIOUS
<1>1. /\ signals' \in Seq(BOOLEAN) /\ signals' # <<>> /\ signals'[Len(signals')] = FALSE
      /\ LossPending'
  BY Queued DEF Noticed
<1>2. /\ UNCHANGED <<manager, up, offer, conns, operable, menu, abort, stack, lock, schemas,
                     capshow, doubt, wire, held, app, sends>>
      /\ connected' = FALSE
  BY DEF Noticed, views
<1>3. ConnectionKnown'
  BY <1>1, <1>2 DEF Inv, ConnectionKnown
<1>4. StackOK(stack') /\ (Busy(stack') <=> Busy(stack)) /\ WireOK'
  BY <1>2 DEF Inv, TypeOK, WireOK
<1> QED
  BY <1>1, <1>2, <1>3, <1>4, EnvironmentStep DEF Inv, TypeOK

LEMMA DroppedKeeps == Inv /\ Dropped => Inv' /\ Supported
<1> SUFFICES ASSUME Inv, Dropped PROVE Inv' /\ Supported
  OBVIOUS
<1>1. /\ UNCHANGED <<up, connected, offer, conns, signals, operable, menu, abort, stack, lock,
                     schemas, capshow, doubt, wire, held, app, sends>>
      /\ manager' = 0 /\ ~up /\ ~connected
  BY DEF Dropped, tab, views
<1>2. LossPending' <=> LossPending
  BY <1>1 DEF LossPending
<1>3. ConnectionKnown'
  BY <1>1, <1>2 DEF Inv, ConnectionKnown, Busy
<1>4. StackOK(stack') /\ (Busy(stack') <=> Busy(stack)) /\ WireOK'
  BY <1>1 DEF Inv, TypeOK, WireOK
<1> QED
  BY <1>1, <1>3, <1>4, EnvironmentStep DEF Inv, TypeOK

LEMMA AnswersKeeps == Inv /\ Answers => Inv' /\ Supported
<1> SUFFICES ASSUME Inv, Answers PROVE Inv' /\ Supported
  OBVIOUS
<1> DEFINE T == [id : Nat, op : {"lock", "unlock", "other"}, target : Places]
           r == Head(wire)
<1>1. wire \in Seq(T) /\ wire # <<>>
  BY DEF Answers, Inv, TypeOK
<1>2. r \in T /\ Tail(wire) \in Seq(T)
  <2> HIDE DEF T
  <2> QED BY <1>1, HeadTailProperties
<1>3. r.target \in Places
  BY <1>2
<1>4. WireOK'
  BY <1>2 DEF Answers, WireOK
<1> HIDE DEF T
<1>5. PICK ok \in BOOLEAN :
        /\ held' = IF ~ok THEN held
                   ELSE CASE r.op = "lock" -> held \cup {r.target}
                          [] r.op = "unlock" -> held \ {r.target}
                          [] OTHER -> held
        /\ stack' = [i \in DOMAIN stack |->
             IF Waiting(stack[i]) /\ stack[i].id = r.id
             THEN [stack[i] EXCEPT !.reply = IF ok THEN "ok" ELSE "error"]
             ELSE stack[i]]
  BY DEF Answers
<1>6. held' \subseteq Places
  BY <1>3, <1>5 DEF Inv, TypeOK
<1>7. StackOK(stack') /\ (Busy(stack') <=> Busy(stack))
  <2> DEFINE F == {i \in DOMAIN stack : Waiting(stack[i]) /\ stack[i].id = r.id}
             rep == IF ok THEN "ok" ELSE "error"
  <2>1. F \in SUBSET DOMAIN stack /\ rep \in {"ok", "error", "failed"}
        /\ \A i \in F : Waiting(stack[i])
    OBVIOUS
  <2>2. stack' = [i \in DOMAIN stack |->
                    IF i \in F THEN [stack[i] EXCEPT !.reply = rep] ELSE stack[i]]
    BY <1>5
  <2> HIDE DEF F, rep
  <2> QED
    BY <2>1, <2>2, Replied
<1>8. UNCHANGED <<manager, up, connected, offer, conns, signals, operable, menu, abort, lock,
                  schemas, capshow, doubt, app, sends>>
  BY DEF Answers, conn, tab, views
<1>9. LossPending' <=> LossPending
  BY <1>8 DEF LossPending
<1>10. ConnectionKnown'
  BY <1>7, <1>8, <1>9 DEF Inv, ConnectionKnown
<1> QED
  BY <1>4, <1>6, <1>7, <1>8, <1>10, EnvironmentStep DEF Inv, TypeOK

-----------------------------------------------------------------------------
(* The signals                                                              *)

LEMMA ShowConnectedKeeps == Inv /\ ShowConnected => Inv' /\ Supported
<1> SUFFICES ASSUME Inv, ShowConnected PROVE Inv' /\ Supported
  OBVIOUS
<1>1. /\ UNCHANGED <<manager, up, connected, offer, conns, abort, stack, lock, schemas, capshow,
                     doubt, wire, held, app, sends>>
      /\ operable' = TRUE /\ menu' \subseteq Acts
  BY EnabledActs DEF ShowConnected, conn, views
<1>2. /\ signals' \in Seq(BOOLEAN)
      /\ signals' # <<>> => signals'[Len(signals')] = signals[Len(signals)]
      /\ Head(signals) = TRUE => (LossPending' <=> LossPending)
      /\ signals # <<>>
  BY Unqueued DEF ShowConnected
<1>3. Head(signals) = TRUE
  <2>1. Head(signals) \in BOOLEAN /\ Head(signals)
    BY Unqueued, Zenon DEF ShowConnected
  <2> QED
    BY <2>1, Zenon
<1>4. LossPending' <=> LossPending
  BY <1>2, <1>3, Zenon
<1>5. ConnectionKnown'
  BY <1>1, <1>2, <1>4 DEF Inv, ConnectionKnown
<1>6. sends \in Nat
  BY OperationsAssumption DEF Inv, TypeOK
<1>7. TypeOK'
  BY <1>1, <1>2 DEF Inv, TypeOK
<1> QED
  BY <1>1, <1>5, <1>6, <1>7 DEF Inv, Supported

LEMMA ShowDisconnectedKeeps == Inv /\ ShowDisconnected => Inv' /\ Supported
<1> SUFFICES ASSUME Inv, ShowDisconnected PROVE Inv' /\ Supported
  OBVIOUS
<1>1. /\ UNCHANGED <<manager, up, connected, offer, conns, abort, stack, wire, held, app, sends>>
      /\ operable' = FALSE /\ menu' \subseteq Acts
      /\ lock' = {} /\ doubt' = {} /\ schemas' = 0 /\ capshow' = 0
  BY EnabledActs DEF ShowDisconnected, Forgets, conn
<1>2. /\ signals' \in Seq(BOOLEAN)
      /\ signals' # <<>> => signals'[Len(signals')] = signals[Len(signals)]
      /\ signals' = <<>> => signals[Len(signals)] = Head(signals)
      /\ Head(signals) \in BOOLEAN /\ signals # <<>>
  BY Unqueued DEF ShowDisconnected
<1>3. Head(signals) = FALSE
  <2>1. ~Head(signals)
    BY Zenon DEF ShowDisconnected
  <2> QED
    BY <1>2, <2>1, Zenon
<1>4. signals[Len(signals)] = connected
  BY <1>2 DEF Inv, ConnectionKnown
<1>5. signals' = <<>> => connected' = FALSE
  BY <1>1, <1>2, <1>3, <1>4
<1>6. signals' # <<>> => signals'[Len(signals')] = connected'
  BY <1>1, <1>2, <1>4
<1>7. ConnectionKnown'
  BY <1>1, <1>5, <1>6 DEF Inv, ConnectionKnown
<1>8. sends \in Nat
  BY OperationsAssumption DEF Inv, TypeOK
<1>9. TypeOK'
  BY <1>1, <1>2, OperationsAssumption DEF Inv, TypeOK
<1> QED
  BY <1>1, <1>7, <1>8, <1>9 DEF Inv, Supported

-----------------------------------------------------------------------------
(* The theorems                                                             *)

LEMMA NextKeeps == Inv /\ [Next]_vars => Inv' /\ (Supported \/ UNCHANGED vars)
<1> SUFFICES ASSUME Inv, [Next]_vars PROVE Inv' /\ (Supported \/ UNCHANGED vars)
  OBVIOUS
<1>1. CASE Environment
  BY <1>1, ConnectsKeeps, LostKeeps, NoticedKeeps, DroppedKeeps, AnswersKeeps DEF Environment
<1>2. CASE Signal
  BY <1>2, ShowConnectedKeeps, ShowDisconnectedKeeps DEF Signal
<1>3. CASE Abort \/ Returns \/ Fails \/ \E i \in DOMAIN stack : DelayedControl(i)
  BY <1>3, AbortKeeps, ReturnsKeeps, FailsKeeps, DelayedControlKeeps
<1>4. CASE OpenDialog \/ CloseDialog \/ ManageLocks \/ ClickBox
  BY <1>4, OpenDialogKeeps, CloseDialogKeeps, ManageLocksKeeps, ClickBoxKeeps
<1>5. CASE CopyConfig \/ DeleteConfig \/ ValidateConfig \/ ConfirmedCommit
  BY <1>5, AcceptingKeeps
<1>6. CASE CancelCommit \/ Commit \/ DiscardChanges
  BY <1>6, CommitKeeps
<1>7. CASE OpenManager \/ Refresh \/ InfoReturns \/ KillSession
  BY <1>7, ManagerKeeps, InfoReturnsKeeps, KillSessionKeeps
<1>8. CASE ShowCapabilities \/ GetSchemas \/ NextSchema \/ SchemasLoaded
  BY <1>8, ShowCapabilitiesKeeps, GetSchemasKeeps, NextSchemaKeeps, SchemasLoadedKeeps
<1>9. CASE UNCHANGED vars
  <2>1. UNCHANGED <<manager, up, connected, offer, conns, signals, operable, menu, abort, stack,
                    lock, schemas, capshow, doubt, wire, held, app, sends>>
    BY <1>9 DEF vars, conn, tab, views
  <2>2. TypeOK'
    BY <2>1 DEF Inv, TypeOK
  <2>3. ConnectionKnown'
    BY <2>1 DEF Inv, ConnectionKnown, LossPending
  <2> QED
    BY <1>9, <2>2, <2>3 DEF Inv
<1> QED
  BY <1>1, <1>2, <1>3, <1>4, <1>5, <1>6, <1>7, <1>8, <1>9, Zenon DEF Next

LEMMA InitKeeps == Init => Inv
<1> SUFFICES ASSUME Init PROVE Inv
  OBVIOUS
<1>1. stack = <<>> /\ wire = <<>> /\ signals = <<>>
  BY DEF Init
<1>2. StackOK(stack)
  BY <1>1, EmptySeq DEF StackOK
<1>3. TypeOK
  <2>1. signals \in Seq(BOOLEAN) /\ WireOK
    BY <1>1, EmptySeq DEF WireOK
  <2>2. 0 \in 0..MaxConns /\ 0 \in 0..MaxSends
    BY OperationsAssumption
  <2> QED
    BY <1>2, <2>1, <2>2 DEF Init, TypeOK, WireOK
<1>4. ConnectionKnown
  BY DEF Init, ConnectionKnown
<1> QED
  BY <1>3, <1>4 DEF Inv

(* Every state is well typed, every wait of a dialog knows its dialog; and *)
(* the tab knows what its connection is, as ConnectionKnown says.          *)
THEOREM StateKnown == Spec => [](TypeOK /\ ConnectionKnown)
BY InitKeeps, NextKeeps, PTL DEF Spec, Inv

(* No request goes to a server that did not announce what it needs,        *)
(* whatever changed since the action was enabled and the dialog opened.    *)
THEOREM OnlySupportedRequests == Spec => RequestsSupported
<1>1. Spec => []Inv
  BY InitKeeps, NextKeeps, PTL DEF Spec
<1>2. Inv /\ [Next]_vars =>
        [sends' > sends => LET f == stack'[Len(stack')]
                           IN f.kind = "rpc" => Needs(f.req) \subseteq offer]_vars
  <2> SUFFICES ASSUME Inv, [Next]_vars, vars' # vars PROVE Supported
    BY DEF Supported
  <2> QED
    BY NextKeeps
<1> QED
  BY <1>1, <1>2, PTL DEF Spec, RequestsSupported

(* The capability window never shows another server than the one the tab   *)
(* is connected to, once the loss of that one was handled.                 *)
THEOREM CapabilitiesShownAreCurrent == Spec => []CapabilitiesCurrent
<1>1. ConnectionKnown => CapabilitiesCurrent
  BY DEF ConnectionKnown, CapabilitiesCurrent
<1> QED
  BY <1>1, StateKnown, PTL

(* A connected tab at rest has its controls, however what it did ended.    *)
THEOREM IdleTabOperable == Spec => []IdleOperable
<1>1. ConnectionKnown => IdleOperable
  BY DEF ConnectionKnown, IdleOperable
<1> QED
  BY <1>1, StateKnown, PTL

-----------------------------------------------------------------------------
(* The locks: what the tab remembers (lk), what the server holds, what the  *)
(* boxes say, what is in doubt (db), and the requests in between, on the    *)
(* wire w and on the stack s.  A step is followed in stages: what returns   *)
(* is taken off the stack, boxes are set, a request or dialog comes on top; *)
(* Sent holds after each stage.                                             *)

LockOps == {"lock", "unlock"}

\* Frame f waits for the reply of a request to lock, or to unlock, t.
For(f, op, t) == f.kind = "rpc" /\ f.req.op = op /\ f.req.target = t

\* Waits and requests are numbered in the order in which they were sent, and
\* are answered in that order.
Ordered(s, w, n) ==
  /\ \A i \in DOMAIN s : Waiting(s[i]) => s[i].id \in 1..n
  /\ \A i, j \in DOMAIN s : Waiting(s[i]) /\ Waiting(s[j]) /\ i < j => s[i].id < s[j].id
  /\ \A k \in DOMAIN w : w[k].id \in 1..n
  /\ \A k, l \in DOMAIN w : k < l => w[k].id < w[l].id
  /\ \A i \in DOMAIN s, k \in DOMAIN w :
       Waiting(s[i]) /\ s[i].reply # "pending" => s[i].id < w[k].id

\* A request on the wire is the one its wait was made for; a lock or unlock
\* that nobody waits for any more is in doubt.
Matched(s, w, db) ==
  /\ \A i \in DOMAIN s, k \in DOMAIN w : Waiting(s[i]) /\ s[i].id = w[k].id =>
       /\ w[k].target = s[i].req.target
       /\ w[k].op = IF s[i].req.op \in LockOps THEN s[i].req.op ELSE "other"
  /\ \A k \in DOMAIN w : w[k].op \in LockOps =>
       w[k].target \in db \/ \E i \in DOMAIN s : s[i].kind = "rpc" /\ s[i].id = w[k].id

\* Who waits for what, and nothing is of a connection to come.
Rooted(s) ==
  /\ \A i \in DOMAIN s : s[i].of <= conns
  /\ \A i \in DOMAIN s : Waiting(s[i]) =>
       /\ s[i].req.op \in LockOps => s[i].kind = "rpc" /\ s[i].via = "box"
       /\ s[i].kind = "schemas" => s[i].req = Plain("get")
       /\ s[i].via = "box" => s[i].req.op \in LockOps /\ s[s[i].dlg].kind = "locks"
       /\ s[i].via \in {"kill", "refresh"} => s[s[i].dlg].kind = "manager"

Unlocked(s, t, i) == \E j \in DOMAIN s : j > i /\ For(s[j], "unlock", t) /\ s[j].reply = "ok"

\* A lock that was granted is held, unless it is in doubt, or was released by a
\* later request.
Granted(s, db) ==
  up => \A i \in DOMAIN s, t \in Places :
          For(s[i], "lock", t) /\ s[i].reply = "ok" /\ s[i].of = manager =>
            t \in held \cup db \/ Unlocked(s, t, i)

\* So is a lock the tab remembers, until the loss of the session.
Remembered(s, lk, db) ==
  up \/ (~connected /\ ~LossPending) =>
    \A t \in lk : t \in held \cup db \/ Unlocked(s, t, 0)

\* A checked box is a lock in progress that was asked for by it, or a lock the
\* tab remembers and is not about to give up.  One lock dialog is open at most.
Boxed(s, lk, db) ==
  /\ \A i, j \in DOMAIN s : /\ s[i].kind = "locks" /\ s[i].open
                           /\ s[j].kind = "locks" /\ s[j].open => i = j
  /\ \A i \in DOMAIN s : s[i].kind = "locks" /\ s[i].open /\ s[i].of = manager /\ connected =>
       \A t \in s[i].boxes :
         \/ t \in db
         \/ \E j \in DOMAIN s : j > i /\ For(s[j], "lock", t) /\ s[j].dlg = i
         \/ t \in lk /\ \A j \in DOMAIN s : j > i => ~For(s[j], "unlock", t)

\* What does not look at the boxes, and all of it.
Queues(s, w, n, lk, db) ==
  /\ Ordered(s, w, n) /\ Matched(s, w, db) /\ Rooted(s)
  /\ Granted(s, db) /\ Remembered(s, lk, db)

Sent(s, w, n, lk, db) == Queues(s, w, n, lk, db) /\ Boxed(s, lk, db)

\* A session that is up is connected and no loss is to come; nothing is on the
\* wire of one that is down.
Linked ==
  /\ up => connected
  /\ ~up => wire = <<>>
  /\ connected => manager # 0 /\ ~LossPending
  /\ manager <= conns

LocksKnown == Linked /\ Sent(stack, wire, sends, lock, doubt)

-----------------------------------------------------------------------------
(* Steps that neither send, nor end, a request                              *)

\* g waits for the reply f waited for.
Kin(f, g) ==
  /\ g.kind = f.kind /\ g.via = f.via /\ g.dlg = f.dlg /\ g.req = f.req
  /\ g.of = f.of /\ g.id = f.id /\ g.reply = f.reply

\* s and t wait for the same; t may have lost dialogs, or got one on top.
Calm(s, t) ==
  /\ \A i \in DOMAIN s : s[i].kind = "rpc" => i \in DOMAIN t /\ Kin(s[i], t[i])
  /\ \A i \in DOMAIN t : Waiting(t[i]) => i \in DOMAIN s /\ Kin(s[i], t[i])
  /\ \A i \in DOMAIN t :
       \/ i \in DOMAIN s /\ t[i].kind = s[i].kind /\ t[i].of = s[i].of
       \/ i = Len(t) /\ ~Waiting(t[i]) /\ t[i].of <= conns

OpenLocks(f) == f.kind = "locks" /\ f.open

\* No box is checked but in a dialog that is new and shows the locks.
CalmBoxes(s, t, lk, db) ==
  \A i \in DOMAIN t : OpenLocks(t[i]) =>
    \/ /\ i \in DOMAIN s /\ OpenLocks(s[i]) /\ s[i].of = t[i].of
       /\ t[i].boxes \subseteq s[i].boxes \cup db
    \/ /\ i = Len(t) /\ t[i].boxes \subseteq lk
       /\ \A j \in DOMAIN t : OpenLocks(t[j]) => j = i

LEMMA WaitsOfDialogs ==
  ASSUME NEW s, StackOK(s), NEW i \in DOMAIN s, Waiting(s[i]), s[i].via \in {"box", "kill", "refresh"}
  PROVE  /\ i \in 1..Len(s) /\ DOMAIN s = 1..Len(s) /\ Len(s) \in Nat
         /\ s[i].dlg \in 1..(i - 1) /\ s[s[i].dlg] \in Dialogs
<1>1. DOMAIN s = 1..Len(s) /\ Len(s) \in Nat /\ \A j \in 1..Len(s) : s[j] \in Dialogs \/ s[j] \in Waits
  BY StackShape
<1>2. s[i] \in Waits
  BY <1>1, DialogOrWait
<1> QED
  BY <1>1, <1>2 DEF StackOK, OfDialog

LEMMA CalmQueues ==
  ASSUME NEW s, StackOK(s), NEW t, StackOK(t), NEW w, NEW n, NEW lk, NEW db,
         Calm(s, t), Queues(s, w, n, lk, db)
  PROVE  Queues(t, w, n, lk, db)
<1>0. /\ \A f : f.kind = "rpc" => Waiting(f)
      /\ \A i \in DOMAIN s : s[i].kind = "rpc" => i \in DOMAIN t /\ Kin(s[i], t[i])
      /\ \A i \in DOMAIN t : Waiting(t[i]) => i \in DOMAIN s /\ Kin(s[i], t[i]) /\ Waiting(s[i])
  BY DEF Calm, Waiting, Kin
<1>1. Ordered(t, w, n)
  BY <1>0 DEF Queues, Ordered, Kin
<1>2. Matched(t, w, db)
  BY <1>0 DEF Queues, Matched, Kin
<1>3. Rooted(t)
  <2>1. \A i \in DOMAIN t : t[i].of <= conns
    BY <1>0 DEF Queues, Rooted, Calm
  <2>2. ASSUME NEW i \in DOMAIN t, Waiting(t[i]), t[i].via \in {"box", "kill", "refresh"}
        PROVE  t[t[i].dlg].kind = s[s[i].dlg].kind /\ t[i].dlg = s[i].dlg
    <3>1. t[i].dlg \in 1..(i - 1) /\ i \in 1..Len(t) /\ DOMAIN t = 1..Len(t) /\ Len(t) \in Nat
      BY <2>2, WaitsOfDialogs
    <3>2. t[i].dlg \in DOMAIN t /\ t[i].dlg # Len(t)
      BY <3>1
    <3>3. t[t[i].dlg].kind = s[t[i].dlg].kind
      BY <3>2 DEF Calm
    <3> QED
      BY <2>2, <3>3, <1>0 DEF Kin
  <2> QED
    BY <1>0, <2>1, <2>2 DEF Queues, Rooted, Kin
<1>4. \A x, i : Unlocked(s, x, i) => Unlocked(t, x, i)
  BY <1>0 DEF Unlocked, For, Kin
<1>5. Granted(t, db)
  BY <1>0, <1>4 DEF Queues, Granted, For, Kin
<1>6. Remembered(t, lk, db)
  BY <1>4 DEF Queues, Remembered
<1> QED
  BY <1>1, <1>2, <1>3, <1>5, <1>6 DEF Queues

LEMMA CalmKeeps ==
  ASSUME NEW s, StackOK(s), NEW t, StackOK(t), NEW w, NEW n, NEW lk, NEW db,
         Calm(s, t), CalmBoxes(s, t, lk, db), Sent(s, w, n, lk, db)
  PROVE  Sent(t, w, n, lk, db)
<1>1. Queues(t, w, n, lk, db)
  BY CalmQueues DEF Sent
<1>2. \A i \in DOMAIN s : s[i].kind = "rpc" => i \in DOMAIN t /\ Kin(s[i], t[i])
  BY DEF Calm
<1>3. \A i \in DOMAIN t : t[i].kind = "rpc" => i \in DOMAIN s /\ Kin(s[i], t[i])
  BY DEF Calm, Waiting
<1>4. ASSUME NEW i \in DOMAIN t, NEW j \in DOMAIN t, OpenLocks(t[i]), OpenLocks(t[j])
      PROVE  i = j
  BY <1>4 DEF CalmBoxes, Sent, Boxed, OpenLocks
<1>5. ASSUME NEW i \in DOMAIN t, OpenLocks(t[i]), t[i].of = manager, connected, NEW x \in t[i].boxes
      PROVE  \/ x \in db
             \/ \E j \in DOMAIN t : j > i /\ For(t[j], "lock", x) /\ t[j].dlg = i
             \/ x \in lk /\ \A j \in DOMAIN t : j > i => ~For(t[j], "unlock", x)
  <2>1. CASE i = Len(t) /\ t[i].boxes \subseteq lk
    <3>1. \A j \in DOMAIN t : ~(j > i)
      BY <2>1, StackShape
    <3> QED
      BY <1>5, <2>1, <3>1
  <2>2. CASE /\ i \in DOMAIN s /\ OpenLocks(s[i]) /\ s[i].of = t[i].of
             /\ t[i].boxes \subseteq s[i].boxes \cup db
    <3>1. \/ x \in db
          \/ \E j \in DOMAIN s : j > i /\ For(s[j], "lock", x) /\ s[j].dlg = i
          \/ x \in lk /\ \A j \in DOMAIN s : j > i => ~For(s[j], "unlock", x)
      BY <1>5, <2>2 DEF Sent, Boxed, OpenLocks
    <3> QED
      BY <3>1, <1>2, <1>3 DEF For, Kin
  <2> QED
    BY <1>5, <2>1, <2>2 DEF CalmBoxes
<1>6. Boxed(t, lk, db)
  BY <1>4, <1>5 DEF Boxed, OpenLocks
<1> QED
  BY <1>1, <1>6 DEF Sent

(* What is above n goes, without a request.                                *)
LEMMA PrefixCalm ==
  ASSUME NEW s, StackOK(s), NEW n \in 0..Len(s),
         \A i \in (n + 1)..Len(s) : s[i].kind # "rpc"
  PROVE  /\ StackOK(SubSeq(s, 1, n)) /\ Calm(s, SubSeq(s, 1, n))
         /\ \A lk, db : CalmBoxes(s, SubSeq(s, 1, n), lk, db)
<1> DEFINE t == SubSeq(s, 1, n)
<1>1. DOMAIN s = 1..Len(s) /\ Len(s) \in Nat
  BY StackShape
<1>2. StackOK(t) /\ Len(t) = n /\ \A i \in 1..n : t[i] = s[i]
  BY Prefix
<1> HIDE DEF t
<1>3. DOMAIN t = 1..n /\ \A i \in DOMAIN t : i \in DOMAIN s /\ t[i] = s[i]
  BY <1>1, <1>2, StackShape
<1>4. \A i \in DOMAIN s : s[i].kind = "rpc" => i \in DOMAIN t
  BY <1>1, <1>3
<1>5. Calm(s, t)
  BY <1>3, <1>4 DEF Calm, Kin
<1>6. \A lk, db : CalmBoxes(s, t, lk, db)
  BY <1>3 DEF CalmBoxes
<1> QED
  BY <1>2, <1>5, <1>6 DEF t

LEMMA UnwoundCalm ==
  ASSUME NEW s, StackOK(s)
  PROVE  Calm(s, Unwound(s)) /\ \A lk, db : CalmBoxes(s, Unwound(s), lk, db)
<1> DEFINE live == {i \in DOMAIN s : Waiting(s[i]) \/ s[i].open}
           n == CHOOSE m \in live \cup {0} : \A i \in live : i <= m
<1>1. Len(s) \in Nat /\ DOMAIN s = 1..Len(s)
  BY StackShape
<1>2. n \in live \cup {0} /\ \A i \in live : i <= n
  <2>1. live \cup {0} \subseteq 0..Len(s)
    BY <1>1
  <2>2. \E m \in live \cup {0} : \A i \in live \cup {0} : i <= m
    <3> HIDE DEF live
    <3> QED BY <1>1, <2>1, Greatest
  <2> QED
    BY <2>2
<1>3. n \in 0..Len(s)
  BY <1>1, <1>2
<1>4. Unwound(s) = SubSeq(s, 1, n)
  BY DEF Unwound
<1> HIDE DEF n
<1>5. \A i \in (n + 1)..Len(s) : s[i].kind # "rpc"
  BY <1>1, <1>2, <1>3 DEF Waiting
<1> QED
  BY <1>3, <1>4, <1>5, PrefixCalm

LEMMA UnwoundSent ==
  ASSUME NEW s, StackOK(s), NEW w, NEW n, NEW lk, NEW db, Sent(s, w, n, lk, db)
  PROVE  Sent(Unwound(s), w, n, lk, db)
BY UnwoundKeeps, UnwoundCalm, CalmKeeps

(* A dialog comes on top.                                                  *)
LEMMA DialogSent ==
  ASSUME NEW s, StackOK(s), NEW w, NEW n, NEW lk, NEW db, Sent(s, w, n, lk, db),
         NEW d \in Dialogs, d.of <= conns,
         d.kind = "locks" => /\ d.boxes \subseteq lk
                             /\ \A i \in DOMAIN s : ~OpenLocks(s[i])
  PROVE  StackOK(Append(s, d)) /\ Sent(Append(s, d), w, n, lk, db)
<1> DEFINE t == Append(s, d)
<1>1. s \in Seq(Frames) /\ DOMAIN s = 1..Len(s) /\ Len(s) \in Nat
  BY StackShape
<1>2. DOMAIN t = 1..(Len(s) + 1) /\ Len(t) = Len(s) + 1
      /\ t[Len(s) + 1] = d /\ \A i \in 1..Len(s) : t[i] = s[i]
  BY <1>1
<1>3. StackOK(t)
  BY Pushed, DialogOrWait DEF Frames
<1> HIDE DEF t
<1>4. ~Waiting(d)
  BY DialogOrWait
<1>5. \A i \in DOMAIN t : (i \in DOMAIN s /\ t[i] = s[i]) \/ (i = Len(t) /\ t[i] = d)
  BY <1>1, <1>2
<1>6. Calm(s, t)
  BY <1>1, <1>2, <1>4, <1>5 DEF Calm, Kin
<1>7. CalmBoxes(s, t, lk, db)
  <2>1. ASSUME NEW i \in DOMAIN t, OpenLocks(t[i])
        PROVE  \/ /\ i \in DOMAIN s /\ OpenLocks(s[i]) /\ s[i].of = t[i].of
                  /\ t[i].boxes \subseteq s[i].boxes \cup db
               \/ /\ i = Len(t) /\ t[i].boxes \subseteq lk
                  /\ \A j \in DOMAIN t : OpenLocks(t[j]) => j = i
    BY <2>1, <1>5 DEF OpenLocks
  <2> QED
    BY <2>1 DEF CalmBoxes
<1> QED
  BY <1>3, <1>6, <1>7, CalmKeeps DEF t

(* A box is set, or unset, in a dialog that is not of locks, or as before. *)
LEMMA BoxSent ==
  ASSUME NEW s, StackOK(s), NEW w, NEW n, NEW lk, NEW db, Sent(s, w, n, lk, db),
         NEW d \in 1..Len(s), s[d] \in Dialogs, NEW b \in SUBSET (Places \cup {"row"}),
         s[d].kind # "locks" \/ b \subseteq s[d].boxes \cup db
  PROVE  /\ StackOK([s EXCEPT ![d].boxes = b])
         /\ Sent([s EXCEPT ![d].boxes = b], w, n, lk, db)
<1> DEFINE t == [s EXCEPT ![d].boxes = b]
<1>1. DOMAIN s = 1..Len(s) /\ DOMAIN t = 1..Len(s)
  BY StackShape
<1>2. StackOK(t)
  BY BoxSet
<1>3. \A i \in DOMAIN s : t[i] = IF i = d THEN [s[d] EXCEPT !.boxes = b] ELSE s[i]
  BY <1>1
<1>4. LET g == [s[d] EXCEPT !.boxes = b]
      IN g.kind = s[d].kind /\ g.of = s[d].of /\ g.open = s[d].open /\ g.boxes = b /\ ~Waiting(g)
  BY DialogOrWait DEF Dialogs, Waiting
<1> HIDE DEF t
<1>5. \A i \in DOMAIN s : /\ t[i].kind = s[i].kind /\ t[i].of = s[i].of
                          /\ i # d => t[i] = s[i]
  BY <1>3, <1>4
<1>6. Calm(s, t)
  <2>1. \A i \in DOMAIN s : Waiting(s[i]) => i # d
    BY DialogOrWait
  <2>2. \A i \in DOMAIN t : Waiting(t[i]) => i # d
    BY <1>1, <1>3, <1>4
  <2> QED
    BY <1>1, <1>5, <2>1, <2>2 DEF Calm, Kin, Waiting
<1>7. CalmBoxes(s, t, lk, db)
  <2>1. ASSUME NEW i \in DOMAIN t, OpenLocks(t[i])
        PROVE  /\ i \in DOMAIN s /\ OpenLocks(s[i]) /\ s[i].of = t[i].of
               /\ t[i].boxes \subseteq s[i].boxes \cup db
    BY <2>1, <1>1, <1>3, <1>4 DEF OpenLocks
  <2> QED
    BY <2>1 DEF CalmBoxes
<1> QED
  BY <1>2, <1>6, <1>7, CalmKeeps DEF t

-----------------------------------------------------------------------------
(* A request is sent                                                        *)

\* f is the wait for a request that is sent now, r what goes on the wire.
Asking(s, f, n) ==
  /\ f \in Waits /\ f.id = n + 1 /\ f.reply = "pending" /\ f.of = manager
  /\ f.req.op \in LockOps => f.kind = "rpc" /\ f.via = "box"
  /\ f.kind = "schemas" => f.req = Plain("get")
  /\ f.via = "box" => f.req.op \in LockOps /\ s[f.dlg].kind = "locks"
  /\ f.via \in {"kill", "refresh"} => s[f.dlg].kind = "manager"
  /\ WaitOK(f)
  /\ OfDialog(f) => f.dlg \in 1..Len(s) /\ s[f.dlg] \in Dialogs

Carrying(f, r) ==
  /\ r.id = f.id /\ r.target = f.req.target
  /\ r.op = IF f.req.op \in LockOps THEN f.req.op ELSE "other"

LEMMA PushShape ==
  ASSUME NEW s, StackOK(s), NEW f \in Frames
  PROVE  /\ DOMAIN s = 1..Len(s) /\ Len(s) \in Nat
         /\ DOMAIN Append(s, f) = 1..(Len(s) + 1) /\ Append(s, f)[Len(s) + 1] = f
         /\ \A i \in 1..Len(s) : Append(s, f)[i] = s[i]
<1>1. s \in Seq(Frames) /\ DOMAIN s = 1..Len(s) /\ Len(s) \in Nat
  BY StackShape
<1> QED
  BY <1>1

LEMMA PushQueues ==
  ASSUME NEW s, StackOK(s), NEW w \in Seq([id : Nat, op : {"lock", "unlock", "other"}, target : Places]),
         NEW n \in Nat, NEW lk, NEW db,
         Queues(s, w, n, lk, db), manager <= conns,
         NEW f, Asking(s, f, n), NEW r, Carrying(f, r)
  PROVE  StackOK(Append(s, f)) /\ Queues(Append(s, f), Append(w, r), n + 1, lk, db)
<1> DEFINE t == Append(s, f)
           v == Append(w, r)
           m == Len(s) + 1
           l == Len(w) + 1
<1>0. f \in Waits /\ f \in Frames /\ Waiting(f)
  BY DialogOrWait DEF Asking, Frames
<1>1. /\ DOMAIN s = 1..Len(s) /\ Len(s) \in Nat
      /\ DOMAIN t = 1..m /\ t[m] = f /\ \A i \in 1..Len(s) : t[i] = s[i]
  BY <1>0, PushShape
<1>2. StackOK(t)
  BY <1>0, Pushed DEF Asking
<1>3. /\ DOMAIN w = 1..Len(w) /\ Len(w) \in Nat
      /\ DOMAIN v = 1..l /\ v[l] = r /\ \A k \in 1..Len(w) : v[k] = w[k]
  OBVIOUS
<1> HIDE DEF t, v
<1>4. \A i \in DOMAIN t : (i \in DOMAIN s /\ t[i] = s[i]) \/ (i = m /\ t[i] = f)
  BY <1>1
<1>5. \A k \in DOMAIN v : (k \in DOMAIN w /\ v[k] = w[k]) \/ (k = l /\ v[k] = r)
  BY <1>3
<1>6. \A i \in DOMAIN s : i < m /\ i \in DOMAIN t /\ t[i] = s[i]
  BY <1>1
<1>7. \A k \in DOMAIN w : k < l
  BY <1>3
<1>8. f.id = n + 1 /\ r.id = n + 1 /\ f.reply = "pending"
  BY DEF Asking, Carrying
<1>9. Ordered(t, v, n + 1)
  <2> USE <1>4, <1>5, <1>8, <1>0
  <2>numbered. \A i \in DOMAIN t : Waiting(t[i]) => t[i].id \in 1..(n + 1)
    BY DEF Queues, Ordered
  <2>rising. ASSUME NEW i \in DOMAIN t, NEW j \in DOMAIN t, Waiting(t[i]), Waiting(t[j]), i < j
             PROVE  t[i].id < t[j].id
    <3>1. i \in DOMAIN s /\ t[i] = s[i]
      BY <2>rising, <1>1
    <3>2. s[i].id \in 1..n
      BY <2>rising, <3>1 DEF Queues, Ordered
    <3> QED
      BY <2>rising, <3>1, <3>2 DEF Queues, Ordered
  <2>onWire. \A k \in DOMAIN v : v[k].id \in 1..(n + 1)
    BY DEF Queues, Ordered
  <2>wireRising. ASSUME NEW k \in DOMAIN v, NEW o \in DOMAIN v, k < o PROVE v[k].id < v[o].id
    <3>1. k \in DOMAIN w /\ v[k] = w[k]
      BY <2>wireRising, <1>3
    <3>2. w[k].id \in 1..n
      BY <3>1 DEF Queues, Ordered
    <3> QED
      BY <2>wireRising, <3>1, <3>2 DEF Queues, Ordered
  <2>ahead. ASSUME NEW i \in DOMAIN t, NEW k \in DOMAIN v, Waiting(t[i]), t[i].reply # "pending"
            PROVE  t[i].id < v[k].id
    <3>1. i \in DOMAIN s /\ t[i] = s[i]
      BY <2>ahead
    <3>2. s[i].id \in 1..n
      BY <2>ahead, <3>1 DEF Queues, Ordered
    <3> QED
      BY <2>ahead, <3>1, <3>2 DEF Queues, Ordered
  <2> QED
    BY <2>numbered, <2>rising, <2>onWire, <2>wireRising, <2>ahead DEF Ordered
<1>10. Matched(t, v, db)
  <2>1. ASSUME NEW i \in DOMAIN t, NEW k \in DOMAIN v, Waiting(t[i]), t[i].id = v[k].id
        PROVE  /\ v[k].target = t[i].req.target
               /\ v[k].op = IF t[i].req.op \in LockOps THEN t[i].req.op ELSE "other"
    <3>1. CASE i \in DOMAIN s /\ t[i] = s[i]
      <4>1. s[i].id \in 1..n
        BY <2>1, <3>1 DEF Queues, Ordered
      <4>2. k \in DOMAIN w /\ v[k] = w[k]
        BY <2>1, <3>1, <4>1, <1>5, <1>8
      <4> QED
        BY <2>1, <3>1, <4>2 DEF Queues, Matched
    <3>2. CASE i = m /\ t[i] = f
      <4>1. \A o \in DOMAIN w : w[o].id \in 1..n
        BY DEF Queues, Ordered
      <4>2. v[k] = r
        BY <2>1, <3>2, <4>1, <1>5, <1>8
      <4> QED
        BY <3>2, <4>2 DEF Carrying
    <3> QED
      BY <3>1, <3>2, <1>4
  <2>2. ASSUME NEW k \in DOMAIN v, v[k].op \in LockOps
        PROVE  v[k].target \in db \/ \E i \in DOMAIN t : t[i].kind = "rpc" /\ t[i].id = v[k].id
    <3>1. CASE k \in DOMAIN w /\ v[k] = w[k]
      BY <2>2, <3>1, <1>6 DEF Queues, Matched
    <3>2. CASE k = l /\ v[k] = r
      <4>1. f.kind = "rpc" /\ r.id = f.id
        BY <2>2, <3>2 DEF Carrying, Asking, LockOps
      <4> QED
        BY <3>2, <4>1, <1>1
    <3> QED
      BY <3>1, <3>2, <1>5
  <2> QED
    BY <2>1, <2>2 DEF Matched
<1>11. Rooted(t)
  <2>1. \A i \in DOMAIN t : t[i].of <= conns
    BY <1>4 DEF Queues, Rooted, Asking
  <2>2. ASSUME NEW i \in DOMAIN t, Waiting(t[i])
        PROVE  /\ t[i].req.op \in LockOps => t[i].kind = "rpc" /\ t[i].via = "box"
               /\ t[i].kind = "schemas" => t[i].req = Plain("get")
               /\ t[i].via = "box" => t[i].req.op \in LockOps /\ t[t[i].dlg].kind = "locks"
               /\ t[i].via \in {"kill", "refresh"} => t[t[i].dlg].kind = "manager"
    <3>1. t[i].via \in {"box", "kill", "refresh"} => t[i].dlg \in DOMAIN s /\ t[t[i].dlg] = s[t[i].dlg]
      <4>1. t[i].via \in {"box", "kill", "refresh"} => t[i].dlg \in 1..(i - 1) /\ i \in 1..m
        BY <2>2, <1>1, <1>2, WaitsOfDialogs
      <4> QED
        BY <4>1, <1>1
    <3>2. CASE i \in DOMAIN s /\ t[i] = s[i]
      BY <2>2, <3>1, <3>2 DEF Queues, Rooted
    <3>3. CASE i = m /\ t[i] = f
      BY <3>1, <3>3 DEF Asking
    <3> QED
      BY <3>2, <3>3, <1>4
  <2> QED
    BY <2>1, <2>2 DEF Rooted
<1>12. \A x, i : Unlocked(s, x, i) => Unlocked(t, x, i)
  BY <1>6 DEF Unlocked
<1>13. Granted(t, db)
  BY <1>4, <1>8, <1>12 DEF Queues, Granted
<1>14. Remembered(t, lk, db)
  BY <1>12 DEF Queues, Remembered
<1> QED
  BY <1>2, <1>9, <1>10, <1>11, <1>13, <1>14 DEF Queues, t, v

(* One that is no lock.                                                    *)
LEMMA PushSent ==
  ASSUME NEW s, StackOK(s), NEW w \in Seq([id : Nat, op : {"lock", "unlock", "other"}, target : Places]),
         NEW n \in Nat, NEW lk, NEW db,
         Sent(s, w, n, lk, db), manager <= conns,
         NEW f, Asking(s, f, n), f.req.op \notin LockOps, NEW r, Carrying(f, r)
  PROVE  Sent(Append(s, f), Append(w, r), n + 1, lk, db)
<1> DEFINE t == Append(s, f)
<1>1. f \in Frames /\ Waiting(f)
  BY DialogOrWait DEF Asking, Frames
<1>2. \A i \in DOMAIN t : (i \in DOMAIN s /\ t[i] = s[i]) \/ t[i] = f
  BY <1>1, PushShape
<1>3. \A i \in DOMAIN s : i \in DOMAIN t /\ t[i] = s[i]
  BY <1>1, PushShape
<1>4. Queues(t, Append(w, r), n + 1, lk, db)
  BY PushQueues DEF Sent
<1> HIDE DEF t
<1>5. ~OpenLocks(f) /\ \A x : ~For(f, "unlock", x)
  BY <1>1 DEF OpenLocks, Waiting, For, LockOps
<1>6. ASSUME NEW i \in DOMAIN t, OpenLocks(t[i]) PROVE i \in DOMAIN s /\ t[i] = s[i] /\ OpenLocks(s[i])
  BY <1>2, <1>5, <1>6
<1>7. \A i, j \in DOMAIN t : OpenLocks(t[i]) /\ OpenLocks(t[j]) => i = j
  BY <1>6 DEF Sent, Boxed, OpenLocks
<1>8. ASSUME NEW i \in DOMAIN t, OpenLocks(t[i]), t[i].of = manager, connected, NEW x \in t[i].boxes
      PROVE  \/ x \in db
             \/ \E j \in DOMAIN t : j > i /\ For(t[j], "lock", x) /\ t[j].dlg = i
             \/ x \in lk /\ \A j \in DOMAIN t : j > i => ~For(t[j], "unlock", x)
  <2>1. i \in DOMAIN s /\ t[i] = s[i] /\ OpenLocks(s[i])
    BY <1>6, <1>8
  <2>2. \/ x \in db
        \/ \E j \in DOMAIN s : j > i /\ For(s[j], "lock", x) /\ s[j].dlg = i
        \/ x \in lk /\ \A j \in DOMAIN s : j > i => ~For(s[j], "unlock", x)
    BY <1>8, <2>1 DEF Sent, Boxed, OpenLocks
  <2>3. (\E j \in DOMAIN s : j > i /\ For(s[j], "lock", x) /\ s[j].dlg = i)
         => \E j \in DOMAIN t : j > i /\ For(t[j], "lock", x) /\ t[j].dlg = i
    BY <1>3
  <2>4. (\A j \in DOMAIN s : j > i => ~For(s[j], "unlock", x))
         => \A j \in DOMAIN t : j > i => ~For(t[j], "unlock", x)
    BY <1>2, <1>5
  <2> QED
    BY <2>2, <2>3, <2>4
<1>9. Boxed(t, lk, db)
  BY <1>7, <1>8 DEF Boxed, OpenLocks
<1> QED
  BY <1>4, <1>9 DEF Sent, t

-----------------------------------------------------------------------------
(* The request on top ends                                                  *)

\* Its lock is in doubt; it was granted; it was released; nothing came of it.
Doubts(f, lk, lk1, db1) ==
  /\ f.req.target \in db1
  /\ lk \ {f.req.target} \subseteq lk1 /\ lk1 \subseteq lk \cup {f.req.target}
Alone(s, f) == \A i \in DOMAIN s : ~(s[i].kind = "rpc" /\ s[i].req.target = f.req.target)
Grants(t, f, lk, lk1) ==
  /\ f.req.op = "lock" /\ f.reply = "ok" /\ up /\ f.of = manager
  /\ lk1 = lk \cup {f.req.target} /\ Alone(t, f)
Releases(t, f, lk, lk1) ==
  f.req.op = "unlock" /\ f.reply = "ok" /\ lk1 = lk \ {f.req.target} /\ Alone(t, f)
Leaves(t, f, lk, lk1) ==
  /\ lk1 = lk
  /\ \/ f.req.op \notin LockOps
     \/ f.reply = "error" /\ (f.req.op = "lock" => f.req.target \notin t[f.dlg].boxes)

\* What is below, with the boxes of its dialog.
Under(s, t, db1) ==
  /\ Len(t) = Len(s) - 1
  /\ \A i \in DOMAIN t :
       /\ t[i].kind = s[i].kind /\ t[i].of = s[i].of
       /\ Waiting(t[i]) => Kin(s[i], t[i])
       /\ OpenLocks(t[i]) => OpenLocks(s[i]) /\ t[i].boxes \subseteq s[i].boxes \cup db1

LEMMA PopSent ==
  ASSUME NEW s, StackOK(s), s # <<>>, NEW t, StackOK(t), NEW w, NEW n,
         NEW lk, NEW db, NEW lk1, NEW db1,
         Sent(s, w, n, lk, db), db \subseteq db1, Under(s, t, db1),
         s[Len(s)].kind = "rpc",
         \/ Doubts(s[Len(s)], lk, lk1, db1)
         \/ Grants(t, s[Len(s)], lk, lk1)
         \/ Releases(t, s[Len(s)], lk, lk1)
         \/ Leaves(t, s[Len(s)], lk, lk1)
  PROVE  Sent(t, w, n, lk1, db1)
<1> DEFINE m == Len(s)
           f == s[m]
           x == f.req.target
<1>1. DOMAIN s = 1..m /\ m \in Nat \ {0} /\ f \in Waits /\ Waiting(f) /\ x \in Places
  <2>1. DOMAIN s = 1..m /\ m \in Nat /\ s \in Seq(Frames)
    BY StackShape
  <2>2. m # 0
    BY <2>1, EmptySeq
  <2>3. f \in Dialogs \cup Waits
    BY <2>1, <2>2, StackShape
  <2>4. f \in Waits /\ Waiting(f)
    BY <2>3, DialogOrWait
  <2> QED
    BY <2>1, <2>2, <2>4 DEF Waits, Reqs
<1>2. DOMAIN t = 1..(m - 1)
  BY StackShape DEF Under
<1> DEFINE D == Doubts(f, lk, lk1, db1)
           L == Grants(t, f, lk, lk1)
           U == Releases(t, f, lk, lk1)
           E == Leaves(t, f, lk, lk1)
<1>c. D \/ L \/ U \/ E
  OBVIOUS
<1>k. f.kind = "rpc"
  OBVIOUS
<1>f. m \in DOMAIN s /\ s[m] = f
  BY <1>1
<1> HIDE DEF m, f
<1>3. \A i \in DOMAIN t : /\ i \in DOMAIN s /\ i < m
                          /\ t[i].kind = s[i].kind /\ t[i].of = s[i].of
                          /\ Waiting(t[i]) => Kin(s[i], t[i]) /\ Waiting(s[i])
  BY <1>1, <1>2 DEF Under, Waiting
<1>4. \A i \in DOMAIN s : i = m \/ i \in DOMAIN t
  BY <1>1, <1>2
<1>5. \A i \in DOMAIN t : s[i].kind = "rpc" => t[i].kind = "rpc" /\ Kin(s[i], t[i])
  BY <1>3 DEF Waiting
<1>6. Ordered(t, w, n)
  BY <1>3 DEF Sent, Queues, Ordered, Kin
<1>7. Rooted(t)
  <2>1. \A i \in DOMAIN t : t[i].of <= conns
    BY <1>3 DEF Sent, Queues, Rooted
  <2>2. ASSUME NEW i \in DOMAIN t, Waiting(t[i]), t[i].via \in {"box", "kill", "refresh"}
        PROVE  t[t[i].dlg].kind = s[s[i].dlg].kind
    <3>1. t[i].dlg \in 1..(i - 1) /\ i \in 1..(m - 1)
      BY <2>2, <1>2, WaitsOfDialogs
    <3>2. t[i].dlg \in DOMAIN t
      BY <3>1, <1>1, <1>2
    <3> QED
      BY <2>2, <3>2, <1>3 DEF Kin
  <2> QED
    BY <2>1, <2>2, <1>3 DEF Sent, Queues, Rooted, Kin
<1>8. Matched(t, w, db1)
  <2>1. ASSUME NEW k \in DOMAIN w, w[k].op \in LockOps, w[k].target \notin db1
        PROVE  \E i \in DOMAIN t : t[i].kind = "rpc" /\ t[i].id = w[k].id
    <3>1. PICK i \in DOMAIN s : s[i].kind = "rpc" /\ s[i].id = w[k].id
      BY <2>1 DEF Sent, Queues, Matched
    <3>2. CASE i = m
      <4>1. /\ w[k].target = x
            /\ w[k].op = IF f.req.op \in LockOps THEN f.req.op ELSE "other"
        BY <1>1, <1>f, <3>1, <3>2 DEF Sent, Queues, Matched
      <4>2. f.req.op \in LockOps /\ ~D
        BY <2>1, <4>1 DEF LockOps, Doubts
      <4>3. f.reply # "pending"
        BY <1>c, <4>2 DEF Grants, Releases, Leaves
      <4>4. f.id < w[k].id /\ f.id = w[k].id /\ f.id \in 1..n
        BY <1>1, <1>f, <3>1, <3>2, <4>3 DEF Sent, Queues, Ordered
      <4> QED
        BY <4>4
    <3>3. CASE i \in DOMAIN t
      BY <3>1, <3>3, <1>5 DEF Kin
    <3> QED
      BY <3>2, <3>3, <1>4
  <2> QED
    BY <2>1, <1>3 DEF Sent, Queues, Matched, Kin
\* A lock or unlock that was answered, or the ones in doubt.
<1>9. ASSUME NEW y, NEW i, Unlocked(s, y, i) PROVE Unlocked(t, y, i) \/ (f.req.op = "unlock" /\ f.reply = "ok" /\ x = y)
  <2>1. PICK j \in DOMAIN s : j > i /\ For(s[j], "unlock", y) /\ s[j].reply = "ok"
    BY <1>9 DEF Unlocked
  <2>2. CASE j = m
    BY <2>1, <2>2, <1>f DEF For
  <2>3. CASE j \in DOMAIN t
    BY <2>1, <2>3, <1>5 DEF Unlocked, For, Kin
  <2> QED
    BY <2>2, <2>3, <1>4
<1>10. f.req.op = "unlock" /\ f.reply = "ok" => D \/ U
  BY <1>c DEF Grants, Leaves, LockOps
<1>11. Granted(t, db1)
  <2>1. ASSUME up, NEW i \in DOMAIN t, NEW y \in Places, For(t[i], "lock", y),
               t[i].reply = "ok", t[i].of = manager
        PROVE  y \in held \cup db1 \/ Unlocked(t, y, i)
    <3>1. i \in DOMAIN s /\ For(s[i], "lock", y) /\ s[i].reply = "ok" /\ s[i].of = manager
      BY <2>1, <1>3 DEF For, Kin, Waiting
    <3>2. y \in held \cup db \/ Unlocked(s, y, i)
      BY <2>1, <3>1 DEF Sent, Queues, Granted
    <3>3. ASSUME f.req.op = "unlock", f.reply = "ok", x = y PROVE y \in db1
      <4>1. ~U
        BY <2>1, <3>3 DEF Releases, Alone, For
      <4> QED
        BY <3>3, <4>1, <1>10 DEF Doubts
    <3> QED
      BY <3>2, <3>3, <1>9
  <2> QED
    BY <2>1 DEF Granted
<1>12. Remembered(t, lk1, db1)
  <2>1. ASSUME up \/ (~connected /\ ~LossPending), NEW y \in lk1
        PROVE  y \in held \cup db1 \/ Unlocked(t, y, 0)
    <3>1. CASE D /\ y = x
      BY <3>1 DEF Doubts
    <3>2. CASE L /\ y = x
      <4>1. up /\ For(f, "lock", x) /\ f.reply = "ok" /\ f.of = manager
        BY <3>2, <1>k DEF Grants, For
      <4>2. x \in held \cup db \/ Unlocked(s, x, m)
        BY <4>1, <1>1, <1>f DEF Sent, Queues, Granted
      <4>3. ~Unlocked(s, x, m)
        BY <1>1 DEF Unlocked
      <4> QED
        BY <3>2, <4>2, <4>3
    <3>3. CASE y \in lk /\ ~(D /\ y = x)
      <4>1. y \in held \cup db \/ Unlocked(s, y, 0)
        BY <2>1, <3>3 DEF Sent, Queues, Remembered
      <4>2. ~(f.req.op = "unlock" /\ f.reply = "ok" /\ x = y)
        BY <2>1, <3>3, <1>10 DEF Releases
      <4> QED
        BY <4>1, <4>2, <1>9
    <3> QED
      BY <2>1, <3>1, <3>2, <3>3, <1>c DEF Doubts, Grants, Releases, Leaves
  <2> QED
    BY <2>1 DEF Remembered
<1>13. Boxed(t, lk1, db1)
  <2>1. ASSUME NEW i \in DOMAIN t, NEW j \in DOMAIN t, OpenLocks(t[i]), OpenLocks(t[j])
        PROVE  i = j
    <3>1. OpenLocks(s[i]) /\ OpenLocks(s[j])
      BY <2>1 DEF Under
    <3> QED
      BY <3>1, <1>3 DEF Sent, Boxed, OpenLocks
  <2>2. ASSUME NEW i \in DOMAIN t, OpenLocks(t[i]), t[i].of = manager, connected,
               NEW y \in t[i].boxes, y \notin db1
        PROVE  \/ \E j \in DOMAIN t : j > i /\ For(t[j], "lock", y) /\ t[j].dlg = i
               \/ y \in lk1 /\ \A j \in DOMAIN t : j > i => ~For(t[j], "unlock", y)
    <3>1. OpenLocks(s[i]) /\ s[i].of = manager /\ y \in s[i].boxes /\ y \notin db
      BY <2>2, <1>3 DEF Under
    <3>2. \/ \E j \in DOMAIN s : j > i /\ For(s[j], "lock", y) /\ s[j].dlg = i
          \/ y \in lk /\ \A j \in DOMAIN s : j > i => ~For(s[j], "unlock", y)
      BY <2>2, <3>1, <1>3 DEF Sent, Boxed, OpenLocks
    <3>d. D => y # x
      BY <2>2 DEF Doubts
    <3>3. ASSUME NEW j \in DOMAIN s, j > i, For(s[j], "lock", y), s[j].dlg = i
          PROVE  \/ \E o \in DOMAIN t : o > i /\ For(t[o], "lock", y) /\ t[o].dlg = i
                 \/ y \in lk1 /\ \A o \in DOMAIN t : o > i => ~For(t[o], "unlock", y)
      <4>1. CASE j \in DOMAIN t
        BY <3>3, <4>1, <1>5 DEF For, Kin
      <4>2. CASE j = m
        <5>1. f.req.op = "lock" /\ x = y /\ f.dlg = i
          BY <3>3, <4>2, <1>f DEF For
        <5>2. L
          BY <5>1, <3>d, <2>2, <1>c DEF Releases, Leaves, LockOps
        <5> QED
          BY <5>1, <5>2 DEF Grants, Alone, For
      <4> QED
        BY <4>1, <4>2, <1>4
    <3>4. ASSUME y \in lk, \A j \in DOMAIN s : j > i => ~For(s[j], "unlock", y)
          PROVE  y \in lk1 /\ \A j \in DOMAIN t : j > i => ~For(t[j], "unlock", y)
      <4>1. \A j \in DOMAIN t : For(t[j], "unlock", y) => For(s[j], "unlock", y)
        BY <1>3 DEF For, Kin, Waiting
      <4>2. ~For(f, "unlock", y)
        BY <3>4, <1>f, <1>3
      <4>3. y \in lk1
        BY <3>4, <4>2, <3>d, <1>c, <1>k DEF Doubts, Grants, Releases, Leaves, For
      <4> QED
        BY <3>4, <4>1, <4>3, <1>3
    <3> QED
      BY <3>2, <3>3, <3>4
  <2> QED
    BY <2>1, <2>2 DEF Boxed, OpenLocks
<1> QED
  BY <1>6, <1>7, <1>8, <1>11, <1>12, <1>13 DEF Sent, Queues

-----------------------------------------------------------------------------
(* The steps that neither end a request nor change the connection           *)

LEMMA SentBefore ==
  ASSUME Inv, LocksKnown
  PROVE  /\ StackOK(stack) /\ wire \in Seq([id : Nat, op : {"lock", "unlock", "other"}, target : Places])
         /\ sends \in Nat /\ manager <= conns
         /\ Sent(stack, wire, sends, lock, doubt)
BY OperationsAssumption DEF Inv, TypeOK, LocksKnown, Linked

LEMMA LocksFollow ==
  ASSUME LocksKnown, UNCHANGED <<conn, signals, held>>, up \/ wire' = wire,
         Sent(stack', wire', sends', lock', doubt')
  PROVE  LocksKnown'
<1>1. UNCHANGED <<manager, up, connected, conns, signals, held>>
  BY DEF conn
<1>2. LossPending' <=> LossPending
  BY <1>1 DEF LossPending
<1>3. Linked'
  BY <1>1, <1>2 DEF LocksKnown, Linked
<1>4. Ordered(stack, wire, sends)' /\ Matched(stack, wire, doubt)'
  BY DEF Sent, Queues, Ordered, Matched
<1>5. Rooted(stack)'
  BY <1>1 DEF Sent, Queues, Rooted
<1>6. Granted(stack, doubt)' /\ Remembered(stack, lock, doubt)'
  BY <1>1, <1>2 DEF Sent, Queues, Granted, Remembered, Unlocked
<1>7. Boxed(stack, lock, doubt)'
  BY <1>1 DEF Sent, Boxed
<1> QED
  BY <1>3, <1>4, <1>5, <1>6, <1>7 DEF LocksKnown, Sent, Queues

LEMMA CalmStep ==
  ASSUME LocksKnown, UNCHANGED <<conn, signals, held, lock, doubt, wire, sends>>,
         Sent(stack', wire, sends, lock, doubt)
  PROVE  LocksKnown'
BY LocksFollow

LEMMA PostStep ==
  ASSUME Inv, LocksKnown, up, UNCHANGED <<conn, signals, held, lock, doubt>>,
         NEW below, StackOK(below), Sent(below, wire, sends, lock, doubt),
         NEW f, Asking(below, f, sends), f.req.op \notin LockOps, NEW r, Carrying(f, r),
         stack' = Append(below, f), wire' = Append(wire, r), sends' = sends + 1
  PROVE  LocksKnown'
<1>1. Sent(Append(below, f), Append(wire, r), sends + 1, lock, doubt)
  BY SentBefore, PushSent
<1>2. Sent(stack', wire', sends', lock', doubt')
  BY <1>1
<1> QED
  BY <1>2, LocksFollow

LEMMA BelowSent ==
  ASSUME Inv, LocksKnown, stack # <<>>, Top.kind # "rpc"
  PROVE  StackOK(Below) /\ Sent(Below, wire, sends, lock, doubt)
<1>1. StackOK(stack) /\ Len(stack) \in Nat \ {0}
  BY Topped DEF Inv, TypeOK
<1>2. \A i \in (Len(stack) - 1 + 1)..Len(stack) : stack[i].kind # "rpc"
  BY <1>1 DEF Top
<1> QED
  BY <1>1, <1>2, SentBefore, PrefixCalm, CalmKeeps DEF Below

LEMMA SendsLocks ==
  ASSUME Inv, LocksKnown, UNCHANGED <<conn, signals, held, lock, doubt>>,
         NEW below, StackOK(below), Sent(below, wire, sends, lock, doubt),
         NEW chosen \in Reqs, NEW req \in Reqs, req.op \notin LockOps,
         Sends(below, chosen, req)
  PROVE  LocksKnown'
<1> DEFINE f == [Wait("rpc", "menu", 0, req) EXCEPT !.chosen = chosen]
<1>1. CASE Posts(below, f)
  <2>1. f \in Waits
    BY WaitTyped
  <2>2. /\ f.kind = "rpc" /\ f.via = "menu" /\ f.req = req /\ f.of = manager
        /\ f.id = sends + 1 /\ f.reply = "pending" /\ f.dlg = 0
    BY DEF Wait
  <2> HIDE DEF f
  <2>3. Asking(below, f, sends)
    BY <2>1, <2>2 DEF Asking, OfDialog, WaitOK
  <2>4. Carrying(f, Wired(req))
    BY <2>2 DEF Carrying, Wired, LockOps
  <2> QED
    BY <1>1, <2>2, <2>3, <2>4, PostStep DEF Posts
<1>2. CASE Refuses(below)
  BY <1>2, CalmStep DEF Refuses
<1>3. CASE Raises
  BY <1>3, SentBefore, CalmStep DEF Raises
<1> QED
  BY <1>1, <1>2, <1>3 DEF Sends

LEMMA RequestLocks ==
  ASSUME Inv, LocksKnown,
         NEW below, StackOK(below), Sent(below, wire, sends, lock, doubt),
         NEW chosen \in Reqs, NEW req \in Reqs, req.op \notin LockOps, NEW caps,
         Request(below, chosen, req, caps)
  PROVE  LocksKnown'
<1>1. UNCHANGED <<conn, signals, held, lock, doubt>>
  BY DEF Request, views
<1>2. CASE Sends(below, chosen, req)
  BY <1>1, <1>2, SendsLocks
<1>3. CASE stack' = below /\ UNCHANGED <<operable, abort, wire, app, sends>>
  BY <1>1, <1>3, CalmStep
<1> QED
  BY <1>2, <1>3 DEF Request

LEMMA AcceptedSent ==
  ASSUME Inv, LocksKnown, NEW kind \in {"copy", "delete", "validate", "confirmed", "cancel"},
         Accepts(kind)
  PROVE  StackOK(Below) /\ Sent(Below, wire, sends, lock, doubt)
<1>1. StackOK(stack) /\ Modal # {}
  BY DEF Inv, TypeOK, Accepts, InFront
<1>2. stack # <<>>
  BY <1>1, Front, StackShape
<1> QED
  BY <1>1, <1>2, BelowSent DEF Accepts

LEMMA AcceptingLocks ==
  ASSUME Inv, LocksKnown, CopyConfig \/ DeleteConfig \/ ValidateConfig \/ ConfirmedCommit
  PROVE  LocksKnown'
<1>0. Where \subseteq Places /\ "none" \in Places /\ DeleteConfiguration \subseteq Where
  BY OperationsAssumption DEF Where, Places, DeleteConfiguration
<1>1. CASE CopyConfig
  <2>1. PICK a \in Where, b \in Where :
             Request(Below, Req("copy-config", a, b), BuildCopyXML(b, a), Url({a, b}))
    BY <1>1 DEF CopyConfig, CopyConfiguration
  <2>2. /\ Req("copy-config", a, b) \in Reqs /\ BuildCopyXML(b, a) \in Reqs
        /\ BuildCopyXML(b, a).op \notin LockOps
    BY <1>0, RequestsTyped DEF BuildCopyXML, Ops, LockOps, Req
  <2> QED
    BY <1>1, <2>1, <2>2, AcceptedSent, RequestLocks DEF CopyConfig
<1>2. CASE DeleteConfig
  <2>1. PICK b \in Where : LET r == Req("delete-config", "none", b)
                           IN Request(Below, r, r, Url({b}))
    BY <1>0, <1>2 DEF DeleteConfig
  <2>2. /\ Req("delete-config", "none", b) \in Reqs
        /\ Req("delete-config", "none", b).op \notin LockOps
    BY <1>0, RequestsTyped DEF Ops, LockOps, Req
  <2> QED
    BY <1>2, <2>1, <2>2, AcceptedSent, RequestLocks DEF DeleteConfig
<1>3. CASE ValidateConfig
  <2>1. PICK a \in Where : LET r == Req("validate", a, "none")
                           IN Request(Below, r, r, {"validate"} \cup Url({a}))
    BY <1>3 DEF ValidateConfig, ValidateConfiguration
  <2>2. Req("validate", a, "none") \in Reqs /\ Req("validate", a, "none").op \notin LockOps
    BY <1>0, RequestsTyped DEF Ops, LockOps, Req
  <2> QED
    BY <1>3, <2>1, <2>2, AcceptedSent, RequestLocks DEF ValidateConfig
<1>4. CASE ConfirmedCommit
  <2>1. PICK c \in BOOLEAN : LET r == BuildCommitXML(c) IN Request(Below, r, r, CommitCaps(c))
    BY <1>4 DEF ConfirmedCommit, ComfirmedCommit
  <2>2. BuildCommitXML(c) \in Reqs /\ BuildCommitXML(c).op \notin LockOps
    BY <1>0, RequestsTyped DEF Ops, BuildCommitXML, Plain, Req, LockOps
  <2> QED
    BY <1>4, <2>1, <2>2, AcceptedSent, RequestLocks DEF ConfirmedCommit
<1> QED
  BY <1>1, <1>2, <1>3, <1>4

LEMMA PlainTyped ==
  \A op \in Ops : /\ Plain(op) \in Reqs /\ Plain(op).op = op /\ Plain(op).target = "none"
                  /\ [Plain(op) EXCEPT !.confirmed = FALSE] \in Reqs
                  /\ [Plain(op) EXCEPT !.confirmed = FALSE].op = op
BY RequestsTyped DEF Plain, Req, Places, Reqs

LEMMA CommitLocks ==
  ASSUME Inv, LocksKnown, CancelCommit \/ Commit \/ DiscardChanges
  PROVE  LocksKnown'
<1>1. CASE CancelCommit
  <2>1. Plain("cancel-commit") \in Reqs /\ Plain("cancel-commit").op \notin LockOps
    BY PlainTyped DEF Ops, LockOps
  <2>2. UNCHANGED <<conn, signals, held, lock, doubt>>
    BY <1>1 DEF CancelCommit, views
  <2> QED
    BY <1>1, <2>1, <2>2, AcceptedSent, SendsLocks DEF CancelCommit
<1>2. CASE Commit
  <2>1. BuildCommitXML(FALSE) \in Reqs /\ BuildCommitXML(FALSE).op \notin LockOps
    BY PlainTyped DEF Ops, BuildCommitXML, LockOps
  <2> QED
    BY <1>2, <2>1, SentBefore, RequestLocks DEF Commit
<1>3. CASE DiscardChanges
  <2>1. Plain("discard-changes") \in Reqs /\ Plain("discard-changes").op \notin LockOps
    BY PlainTyped DEF Ops, LockOps
  <2> QED
    BY <1>3, <2>1, SentBefore, RequestLocks DEF DiscardChanges
<1> QED
  BY <1>1, <1>2, <1>3

LEMMA OpensLocks ==
  ASSUME Inv, LocksKnown, OpenDialog \/ ManageLocks
  PROVE  LocksKnown'
<1>1. CASE OpenDialog
  <2>1. PICK k \in {"copy", "delete", "validate", "confirmed", "cancel"} : Opens(Dialog(k, {}))
    BY <1>1 DEF OpenDialog
  <2>2. Dialog(k, {}) \in Dialogs /\ Dialog(k, {}).of = manager /\ Dialog(k, {}).kind # "locks"
    BY DialogTyped DEF Dialog
  <2>3. Sent(stack', wire, sends, lock, doubt)
    BY <2>1, <2>2, SentBefore, DialogSent DEF Opens
  <2> QED
    BY <2>1, <2>3, CalmStep DEF Opens, tab, views
<1>2. CASE ManageLocks
  <2> DEFINE d == Dialog("locks", lock)
  <2>1. Modal = {} /\ Opens(d)
    BY <1>2 DEF ManageLocks, Picks
  <2>2. lock \in SUBSET (Places \cup {"row"})
    BY DEF Inv, TypeOK
  <2>3. d \in Dialogs /\ d.of = manager /\ d.boxes = lock
    BY <2>2, DialogTyped DEF Dialog
  <2> HIDE DEF d
  <2>4. \A i \in DOMAIN stack : ~OpenLocks(stack[i])
    BY <2>1 DEF Modal, OpenLocks, Waiting
  <2>5. Sent(stack', wire, sends, lock, doubt)
    BY <2>1, <2>3, <2>4, SentBefore, DialogSent DEF Opens
  <2> QED
    BY <2>1, <2>5, CalmStep DEF Opens, tab, views
<1> QED
  BY <1>1, <1>2

LEMMA CloseLocks ==
  ASSUME Inv, LocksKnown, CloseDialog
  PROVE  LocksKnown'
<1> DEFINE d == FrontDialog
           t == [stack EXCEPT ![d].open = FALSE]
<1>1. StackOK(stack) /\ d \in 1..Len(stack) /\ stack[d] \in Dialogs
  BY Front DEF CloseDialog, Inv, TypeOK
<1> HIDE DEF d
<1>2. DOMAIN stack = 1..Len(stack) /\ \A i \in 1..Len(stack) : stack[i] \in Dialogs \/ stack[i] \in Waits
  BY <1>1, StackShape
<1> DEFINE g == [stack[d] EXCEPT !.open = FALSE]
<1>3. g \in Dialogs /\ g.kind = stack[d].kind /\ g.of = stack[d].of /\ g.open = FALSE
  BY <1>1 DEF Dialogs
<1> HIDE DEF g
<1>4. DOMAIN t = 1..Len(stack) /\ \A i \in 1..Len(stack) : t[i] = IF i = d THEN g ELSE stack[i]
  BY <1>1, <1>2 DEF g
<1>5. t \in [1..Len(stack) -> Frames]
  BY <1>1, <1>2, <1>3 DEF Frames, g
<1> HIDE DEF t
<1>6. \A i \in 1..Len(stack) : Alike(stack[i], t[i])
  BY <1>1, <1>2, <1>3, <1>4, DialogOrWait DEF Alike
<1>7. StackOK(t)
  BY <1>1, <1>5, <1>6, AlikeKeeps
<1>8. stack' = Unwound(t)
  BY DEF CloseDialog, d, t
<1>9. Calm(stack, t) /\ CalmBoxes(stack, t, lock, doubt)
  <2>1. \A i \in DOMAIN stack : Waiting(stack[i]) => i # d
    BY <1>1, DialogOrWait
  <2>2. ~Waiting(g) /\ ~OpenLocks(g)
    BY <1>3, DialogOrWait DEF OpenLocks
  <2>3. Calm(stack, t)
    BY <1>2, <1>3, <1>4, <2>1, <2>2 DEF Calm, Kin, Waiting
  <2>4. CalmBoxes(stack, t, lock, doubt)
    BY <1>2, <1>4, <2>2 DEF CalmBoxes
  <2> QED
    BY <2>3, <2>4
<1>10. Sent(stack', wire, sends, lock, doubt)
  <2>1. Sent(t, wire, sends, lock, doubt)
    BY <1>7, <1>9, SentBefore, CalmKeeps
  <2> QED
    BY <2>1, <1>7, <1>8, UnwoundSent
<1> QED
  BY <1>10, CalmStep DEF CloseDialog, tab, views

-----------------------------------------------------------------------------
(* A click on a box                                                         *)

LEMMA ClickLocks ==
  ASSUME Inv, LocksKnown, ClickBox
  PROVE  LocksKnown'
<1> DEFINE d == FrontDialog
<1>1. PICK t \in Datastores :
        LET on == t \notin stack[d].boxes
            f == Wait("rpc", "box", d, Req(IF on THEN "lock" ELSE "unlock", "none", t))
            clicked == [stack EXCEPT ![d].boxes = IF on THEN @ \cup {t} ELSE @ \ {t}]
        IN Posts(clicked, f) \/ Refuses(AfterBox(clicked, f, "none")) \/ Raises
  BY DEF ClickBox
<1> DEFINE on == t \notin stack[d].boxes
           req == Req(IF on THEN "lock" ELSE "unlock", "none", t)
           f == Wait("rpc", "box", d, req)
           b == IF on THEN stack[d].boxes \cup {t} ELSE stack[d].boxes \ {t}
           clicked == [stack EXCEPT ![d].boxes = b]
<1>2. StackOK(stack) /\ d \in 1..Len(stack) /\ stack[d] \in Dialogs /\ OpenLocks(stack[d])
  <2>1. StackOK(stack) /\ Modal # {}
    BY DEF ClickBox, InFront, Inv, TypeOK
  <2>2. d \in 1..Len(stack) /\ stack[d] \in Dialogs
    BY FrontOf DEF ClickBox
  <2>3. Modal \in SUBSET (0..Len(stack)) /\ Len(stack) \in Nat
    BY <2>1, StackShape DEF Modal
  <2>4. \E m \in Modal : \A i \in Modal : i <= m
    BY <2>1, <2>3, Greatest
  <2>5. d \in Modal
    BY <2>4 DEF FrontDialog
  <2>6. stack[d].kind = "locks"
    BY DEF ClickBox, InFront
  <2> QED
    BY <2>1, <2>2, <2>5, <2>6 DEF Modal, OpenLocks
<1>3. t \in Places /\ b \in SUBSET (Places \cup {"row"})
  BY <1>2 DEF Places, Dialogs
<1>4. [stack EXCEPT ![d].boxes = IF on THEN @ \cup {t} ELSE @ \ {t}] = clicked
  BY <1>2
<1>5. Posts(clicked, f) \/ Refuses(AfterBox(clicked, f, "none")) \/ Raises
  BY <1>1, <1>4
<1>o. /\ on => b = stack[d].boxes \cup {t}
      /\ ~on => b = stack[d].boxes \ {t} /\ t \in stack[d].boxes
  OBVIOUS
<1>8. d \in Nat /\ DOMAIN stack = 1..Len(stack)
  BY <1>2, StackShape
<1> HIDE DEF d, b
<1>6. StackOK(clicked) /\ Len(clicked) = Len(stack) /\ clicked[d] \in Dialogs
  BY <1>2, <1>3, BoxSet
<1>7. /\ req \in Reqs /\ req.op = (IF on THEN "lock" ELSE "unlock") /\ req.target = t
  BY <1>3, RequestsTyped DEF Ops, Places, Req
<1> HIDE DEF on, req
<1> DEFINE g == [stack[d] EXCEPT !.boxes = b]
<1>9. g.kind = stack[d].kind /\ g.of = stack[d].of /\ g.open = stack[d].open /\ g.boxes = b /\ g \in Dialogs
  BY <1>2, <1>3 DEF Dialogs
<1>10. DOMAIN clicked = 1..Len(stack)
       /\ \A i \in 1..Len(stack) : clicked[i] = IF i = d THEN g ELSE stack[i]
  BY <1>2, <1>8
<1> HIDE DEF g, clicked
<1>11. f \in Waits
  BY <1>7, <1>8, WaitTyped
<1>12. /\ f.dlg = d /\ f.req = req /\ f.kind = "rpc" /\ f.via = "box" /\ f.of = manager
       /\ f.id = sends + 1 /\ f.reply = "pending" /\ f.delay = TRUE
  BY DEF Wait
<1> HIDE DEF f
<1>13. UNCHANGED <<conn, signals, lock, doubt, held>>
  BY DEF ClickBox, views
<1>14. Calm(stack, clicked)
  <2>1. \A i \in DOMAIN stack : Waiting(stack[i]) => i # d
    BY <1>2, DialogOrWait
  <2>2. ~Waiting(g)
    BY <1>9, DialogOrWait
  <2> QED
    BY <1>8, <1>9, <1>10, <2>1, <2>2 DEF Calm, Kin, Waiting
<1>15. Queues(clicked, wire, sends, lock, doubt)
  BY <1>6, <1>14, SentBefore, CalmQueues DEF Sent
<1>16. CASE Posts(clicked, f)
  <2> DEFINE s == Append(clicked, f)
             r == Wired(req)
  <2>1. Asking(clicked, f, sends)
    <3>1. clicked[d].kind = "locks"
      BY <1>2, <1>9, <1>10 DEF OpenLocks
    <3>2. f.req.op \in LockOps
      BY <1>7, <1>12 DEF LockOps
    <3> QED
      BY <1>2, <1>6, <1>11, <1>12, <3>1, <3>2 DEF Asking, WaitOK
  <2>2. Carrying(f, r)
    BY <1>12 DEF Carrying, Wired, LockOps
  <2> HIDE DEF r
  <2>3. Queues(s, Append(wire, r), sends + 1, lock, doubt)
    BY <1>6, <1>15, <2>1, <2>2, SentBefore, PushQueues
  <2>4. /\ DOMAIN s = 1..(Len(stack) + 1) /\ s[Len(stack) + 1] = f /\ Len(stack) \in Nat
        /\ \A i \in 1..Len(stack) : s[i] = clicked[i]
    BY <1>6, <1>11, PushShape DEF Frames
  <2> HIDE DEF s
  <2>5. ASSUME NEW i \in DOMAIN s, OpenLocks(s[i]) PROVE i = d
    <3>1. s[i] # f
      BY <2>5, <1>12 DEF OpenLocks
    <3>2. i \in 1..Len(stack) /\ s[i] = clicked[i]
      BY <3>1, <2>4
    <3>3. OpenLocks(stack[i])
      BY <2>5, <3>2, <1>2, <1>10
    <3> QED
      BY <3>2, <3>3, <1>2, <1>8, SentBefore DEF Sent, Boxed, OpenLocks
  <2>6. ASSUME connected, s[d].of = manager, NEW y \in s[d].boxes
        PROVE  \/ y \in doubt
               \/ \E j \in DOMAIN s : j > d /\ For(s[j], "lock", y) /\ s[j].dlg = d
               \/ y \in lock /\ \A j \in DOMAIN s : j > d => ~For(s[j], "unlock", y)
    <3>1. s[d] = g /\ y \in b
      BY <2>6, <2>4, <1>2, <1>9, <1>10
    <3>2. CASE y = t
      <4>1. on
        BY <3>1, <3>2, <1>o DEF on
      <4>2. For(f, "lock", y)
        BY <3>2, <4>1, <1>7, <1>12 DEF For
      <4>3. Len(stack) + 1 > d /\ Len(stack) + 1 \in DOMAIN s
        BY <1>2, <1>8, <2>4
      <4> QED
        BY <4>2, <4>3, <2>4, <1>12
    <3>3. CASE y # t
      <4>1. y \in stack[d].boxes /\ stack[d].of = manager
        BY <2>6, <3>1, <3>3, <1>o, <1>9
      <4>2. \/ y \in doubt
            \/ \E j \in DOMAIN stack : j > d /\ For(stack[j], "lock", y) /\ stack[j].dlg = d
            \/ y \in lock /\ \A j \in DOMAIN stack : j > d => ~For(stack[j], "unlock", y)
        BY <2>6, <4>1, <1>2, <1>8, SentBefore DEF Sent, Boxed, OpenLocks
      <4>3. \A j \in DOMAIN stack : j > d => s[j] = stack[j] /\ j \in DOMAIN s
        BY <2>4, <1>8, <1>10
      <4>4. \A j \in DOMAIN s : j > d => (j \in DOMAIN stack /\ s[j] = stack[j]) \/ s[j] = f
        BY <2>4, <1>8, <1>10
      <4>5. ~For(f, "unlock", y)
        BY <3>3, <1>7, <1>12 DEF For
      <4> QED
        BY <4>2, <4>3, <4>4, <4>5
    <3> QED
      BY <3>2, <3>3
  <2>7. Boxed(s, lock, doubt)
    BY <2>5, <2>6 DEF Boxed, OpenLocks
  <2>8. Sent(s, Append(wire, r), sends + 1, lock, doubt)
    BY <2>3, <2>7 DEF Sent
  <2>9. stack' = s /\ wire' = Append(wire, r) /\ sends' = sends + 1 /\ up
    BY <1>16, <1>12 DEF Posts, s, r
  <2>10. Sent(stack', wire', sends', lock', doubt')
    BY <2>8, <2>9, <1>13
  <2> QED
    BY <2>9, <2>10, <1>13, LocksFollow
<1>17. CASE Refuses(AfterBox(clicked, f, "none"))
  <2> DEFINE c == IF on THEN b \ {t} ELSE b \cup {t}
  <2>1. c \subseteq stack[d].boxes /\ c \in SUBSET (Places \cup {"row"})
    BY <1>3, <1>o, <1>2
  <2>2. AfterBox(clicked, f, "none") = [clicked EXCEPT ![d].boxes = c]
    <3>1. clicked[d].boxes = b
      BY <1>2, <1>9, <1>10
    <3> QED
      BY <3>1, <1>6, <1>7, <1>12, <1>10, <1>2 DEF AfterBox
  <2> HIDE DEF c
  <2>3. [clicked EXCEPT ![d].boxes = c] = [stack EXCEPT ![d].boxes = c]
    BY <1>2, <1>8 DEF clicked
  <2>4. Sent([stack EXCEPT ![d].boxes = c], wire, sends, lock, doubt)
    BY <1>2, <2>1, SentBefore, BoxSent
  <2>5. stack' = [stack EXCEPT ![d].boxes = c] /\ UNCHANGED <<wire, sends>>
    BY <1>17, <2>2, <2>3 DEF Refuses
  <2> QED
    BY <2>4, <2>5, <1>13, CalmStep
<1>18. CASE Raises
  BY <1>18, <1>13, SentBefore, CalmStep DEF Raises
<1> QED
  BY <1>5, <1>16, <1>17, <1>18

-----------------------------------------------------------------------------
(* The session manager and the schemas                                      *)

LEMMA ListedSent ==
  ASSUME Inv, LocksKnown, NEW below, StackOK(below), Sent(below, wire, sends, lock, doubt),
         NEW via, NEW dlg,
         via # "open" => /\ dlg \in 1..Len(below) /\ below[dlg] \in Dialogs
                         /\ below[dlg].kind = "manager",
         NEW rows \in SUBSET {"row"}
  PROVE  Sent(Listed(below, via, dlg, rows), wire, sends, lock, doubt)
<1>1. rows \in SUBSET (Places \cup {"row"})
  OBVIOUS
<1>2. CASE via = "open"
  <2>1. /\ Dialog("manager", rows) \in Dialogs /\ Dialog("manager", rows).of = manager
        /\ Dialog("manager", rows).kind # "locks"
    BY <1>1, DialogTyped DEF Dialog
  <2> QED
    BY <1>2, <2>1, SentBefore, DialogSent DEF Listed
<1>3. CASE via # "open"
  <2> DEFINE t == [below EXCEPT ![dlg].boxes = rows]
  <2>1. StackOK(t) /\ Sent(t, wire, sends, lock, doubt)
    BY <1>1, <1>3, BoxSent
  <2> QED
    BY <1>3, <2>1, UnwoundSent DEF Listed
<1> QED
  BY <1>2, <1>3

LEMMA InfoAsking ==
  ASSUME Inv, NEW below, StackOK(below), NEW via \in {"open", "refresh"}, NEW dlg \in Nat,
         via = "refresh" => /\ dlg \in 1..Len(below) /\ below[dlg] \in Dialogs
                            /\ below[dlg].kind = "manager"
  PROVE  LET f == Wait("info", via, dlg, Plain("get"))
         IN Asking(below, f, sends) /\ f.req.op \notin LockOps /\ Carrying(f, Wired(Plain("get")))
<1>1. Plain("get") \in Reqs /\ Plain("get").op = "get"
  BY PlainTyped DEF Ops
<1> DEFINE f == Wait("info", via, dlg, Plain("get"))
<1>2. f \in Waits
  BY <1>1, WaitTyped
<1>3. /\ f.kind = "info" /\ f.via = via /\ f.dlg = dlg /\ f.delay = FALSE /\ f.req = Plain("get")
      /\ f.of = manager /\ f.id = sends + 1 /\ f.reply = "pending"
  BY DEF Wait
<1> HIDE DEF f
<1>4. Asking(below, f, sends)
  BY <1>1, <1>2, <1>3 DEF Asking, WaitOK, OfDialog, LockOps
<1>5. Carrying(f, Wired(Plain("get")))
  BY <1>1, <1>3 DEF Carrying, Wired, LockOps
<1> QED
  BY <1>1, <1>3, <1>4, <1>5 DEF LockOps, f

LEMMA ManagerLocks ==
  ASSUME Inv, LocksKnown, OpenManager \/ Refresh
  PROVE  LocksKnown'
<1>1. PICK via \in {"open", "refresh"}, dlg \in Nat :
        /\ via = "refresh" => /\ dlg \in 1..Len(stack) /\ stack[dlg] \in Dialogs
                              /\ stack[dlg].kind = "manager"
        /\ \/ Asks(via, dlg)
           \/ /\ stack' = Listed(stack, via, dlg, {})
              /\ UNCHANGED <<wire, abort, sends>>
        /\ UNCHANGED <<conn, signals, operable, menu, views, held, app>>
  <2>1. CASE OpenManager
    <3>1. 0 \in Nat
      OBVIOUS
    <3> QED
      BY <2>1, <3>1 DEF OpenManager
  <2>2. CASE Refresh
    <3>1. FrontDialog \in Nat /\ FrontDialog \in 1..Len(stack) /\ stack[FrontDialog] \in Dialogs
          /\ stack[FrontDialog].kind = "manager"
      BY <2>2, FrontOf, StackShape DEF Refresh, InFront, Inv, TypeOK
    <3> QED
      BY <2>2, <3>1 DEF Refresh
  <2> QED
    BY <2>1, <2>2
<1>2. UNCHANGED <<conn, signals, held, lock, doubt>>
  BY <1>1 DEF views
<1>3. CASE Asks(via, dlg)
  BY <1>1, <1>2, <1>3, SentBefore, InfoAsking, PostStep DEF Asks
<1>4. CASE stack' = Listed(stack, via, dlg, {}) /\ UNCHANGED <<wire, abort, sends>>
  <2>1. Sent(stack', wire, sends, lock, doubt)
    BY <1>1, <1>4, SentBefore, ListedSent
  <2> QED
    BY <1>2, <1>4, <2>1, CalmStep
<1> QED
  BY <1>1, <1>3, <1>4

LEMMA KillLocks ==
  ASSUME Inv, LocksKnown, KillSession
  PROVE  LocksKnown'
<1> DEFINE d == FrontDialog
           f == Wait("rpc", "kill", d, Plain("kill-session"))
<1>1. d \in 1..Len(stack) /\ stack[d] \in Dialogs /\ d \in Nat /\ stack[d].kind = "manager"
  BY FrontOf, StackShape DEF KillSession, InFront, Inv, TypeOK
<1>2. UNCHANGED <<conn, signals, held, lock, doubt>>
  BY DEF KillSession, views
<1>3. CASE Posts(stack, f)
  <2> HIDE DEF d
  <2>1. Plain("kill-session") \in Reqs /\ Plain("kill-session").op \notin LockOps
    BY PlainTyped DEF Ops, LockOps
  <2>2. f \in Waits
    BY <1>1, <2>1, WaitTyped
  <2>3. /\ f.kind = "rpc" /\ f.via = "kill" /\ f.dlg = d /\ f.req = Plain("kill-session")
        /\ f.of = manager /\ f.id = sends + 1 /\ f.reply = "pending"
    BY DEF Wait
  <2> HIDE DEF f
  <2>4. Asking(stack, f, sends)
    BY <1>1, <2>1, <2>2, <2>3 DEF Asking, WaitOK
  <2>5. Carrying(f, Wired(f.req))
    BY <2>1, <2>3 DEF Carrying, Wired, LockOps
  <2> QED
    BY <1>2, <1>3, <2>1, <2>3, <2>4, <2>5, SentBefore, PostStep DEF Posts
<1>4. CASE stack' = stack /\ UNCHANGED <<wire, sends>>
  BY <1>2, <1>4, SentBefore, CalmStep
<1> QED
  BY <1>3, <1>4 DEF KillSession, Raises

LEMMA InfoLocks ==
  ASSUME Inv, LocksKnown, InfoReturns
  PROVE  LocksKnown'
<1>1. /\ StackOK(stack) /\ stack # <<>> /\ Top.kind = "info"
  BY DEF InfoReturns, Inv, TypeOK
<1>2. Top \in Waits /\ WaitOK(Top) /\ Len(stack) \in Nat \ {0} /\ Waiting(Top)
      /\ (OfDialog(Top) => Top.dlg \in 1..Len(Below) /\ Below[Top.dlg] \in Dialogs)
  BY <1>1, Topped, DialogOrWait DEF Frames, Dialogs
<1>3. Len(stack) \in DOMAIN stack /\ stack[Len(stack)] = Top
  BY <1>1, <1>2, StackShape DEF Top
<1>4. Top.via # "open" => Top.via \in {"kill", "refresh"} /\ stack[Top.dlg].kind = "manager"
  BY <1>1, <1>2, <1>3, SentBefore DEF Sent, Queues, Rooted, WaitOK, OfDialog
<1>5. StackOK(Below) /\ Sent(Below, wire, sends, lock, doubt)
  BY <1>1, BelowSent
<1>6. Len(stack) - 1 \in 0..Len(stack)
  BY <1>2
<1>7. Len(Below) = Len(stack) - 1 /\ \A i \in 1..(Len(stack) - 1) : Below[i] = stack[i]
  BY <1>1, <1>6, Prefix DEF Below
<1>8. Top.via # "open" => /\ Top.dlg \in 1..Len(Below) /\ Below[Top.dlg] \in Dialogs
                          /\ Below[Top.dlg].kind = "manager"
  BY <1>2, <1>4, <1>7 DEF OfDialog
<1>9. Sent(stack', wire, sends, lock, doubt)
  BY <1>5, <1>8, ListedSent DEF InfoReturns
<1> QED
  BY <1>9, CalmStep DEF InfoReturns, tab, views

LEMMA GetSchemasLocks ==
  ASSUME Inv, LocksKnown, GetSchemas
  PROVE  LocksKnown'
<1>1. UNCHANGED <<conn, signals, held, lock, doubt>>
  BY DEF GetSchemas, views
<1>2. CASE /\ up /\ sends' = sends + 1
           /\ stack' = Append(stack, Wait("schemas", "menu", 0, Plain("get")))
           /\ wire' = Append(wire, Wired(Plain("get")))
  <2> DEFINE f == Wait("schemas", "menu", 0, Plain("get"))
  <2>1. Plain("get") \in Reqs /\ Plain("get").op = "get"
    BY PlainTyped DEF Ops
  <2>2. f \in Waits
    BY <2>1, WaitTyped
  <2>3. /\ f.kind = "schemas" /\ f.via = "menu" /\ f.req = Plain("get") /\ f.delay = FALSE
        /\ f.of = manager /\ f.id = sends + 1 /\ f.reply = "pending"
    BY DEF Wait
  <2> HIDE DEF f
  <2>4. Asking(stack, f, sends) /\ f.req.op \notin LockOps
    BY <2>1, <2>2, <2>3 DEF Asking, WaitOK, OfDialog, LockOps
  <2>5. Carrying(f, Wired(Plain("get")))
    BY <2>1, <2>3 DEF Carrying, Wired, LockOps
  <2> QED
    BY <1>1, <1>2, <2>4, <2>5, SentBefore, PostStep DEF f
<1>3. CASE UNCHANGED <<stack, wire, abort, sends>>
  BY <1>1, <1>3, SentBefore, CalmStep
<1> QED
  BY <1>2, <1>3 DEF GetSchemas

LEMMA NextSchemaLocks ==
  ASSUME Inv, LocksKnown, NextSchema
  PROVE  LocksKnown'
<1>1. /\ StackOK(stack) /\ stack # <<>> /\ Top.kind = "schemas" /\ up /\ manager \in Nat /\ sends \in Nat
      /\ UNCHANGED <<conn, signals, held, lock, doubt>>
  BY OperationsAssumption DEF NextSchema, Inv, TypeOK, views
<1>2. Top \in Waits /\ WaitOK(Top) /\ Len(stack) \in Nat \ {0} /\ Waiting(Top)
      /\ (OfDialog(Top) => Top.dlg \in 1..Len(Below) /\ Below[Top.dlg] \in Dialogs)
  BY <1>1, Topped, DialogOrWait DEF Frames, Dialogs
<1>3. Len(stack) \in DOMAIN stack /\ stack[Len(stack)] = Top
  BY <1>1, <1>2, StackShape DEF Top
<1>4. StackOK(Below) /\ Sent(Below, wire, sends, lock, doubt)
  BY <1>1, BelowSent
<1>5. PICK n \in Int : stack' = Append(Below, [Top EXCEPT !.id = sends + 1, !.of = manager,
                                                         !.reply = "pending", !.left = n - 1])
  <2>1. Top.left \in Int /\ 1..MaxSchemas \subseteq Int
    BY <1>2, OperationsAssumption DEF Waits
  <2> QED
    BY <2>1 DEF NextSchema
<1> DEFINE f == [Top EXCEPT !.id = sends + 1, !.of = manager, !.reply = "pending", !.left = n - 1]
<1>6. /\ f \in Waits /\ f.kind = Top.kind /\ f.via = Top.via /\ f.dlg = Top.dlg /\ f.delay = Top.delay
      /\ f.req = Top.req /\ f.id = sends + 1 /\ f.of = manager /\ f.reply = "pending"
  <2>1. sends + 1 \in Nat /\ n - 1 \in Int
    BY <1>1
  <2> QED
    BY <1>2, <1>1, <2>1 DEF Waits
<1>a. stack' = Append(Below, f)
  BY <1>5
<1> HIDE DEF f
<1>7. Plain("get").op = "get" /\ Plain("get").target = "none"
      /\ Plain("get-schema").op = "get-schema" /\ Plain("get-schema").target = "none"
  BY PlainTyped DEF Ops
<1>8. Top.req = Plain("get") /\ Top.via # "box"
      /\ (Top.via \in {"kill", "refresh"} => stack[Top.dlg].kind = "manager")
  BY <1>1, <1>2, <1>3, <1>7, SentBefore DEF Sent, Queues, Rooted, LockOps
<1>9. Top.via \in {"kill", "refresh"} => Below[Top.dlg].kind = "manager"
  <2>1. Len(stack) - 1 \in 0..Len(stack)
    BY <1>2
  <2>2. Len(Below) = Len(stack) - 1 /\ \A i \in 1..(Len(stack) - 1) : Below[i] = stack[i]
    BY <1>1, <2>1, Prefix DEF Below
  <2> QED
    BY <1>2, <1>8, <2>2 DEF OfDialog
<1>10. Asking(Below, f, sends) /\ f.req.op \notin LockOps
  BY <1>1, <1>2, <1>6, <1>7, <1>8, <1>9 DEF Asking, WaitOK, OfDialog, LockOps
<1>11. Carrying(f, Wired(Plain("get-schema")))
  BY <1>6, <1>7, <1>8 DEF Carrying, Wired, LockOps
<1> QED
  BY <1>1, <1>4, <1>a, <1>10, <1>11, PostStep DEF NextSchema

LEMMA SchemasLoadedLocks ==
  ASSUME Inv, LocksKnown, SchemasLoaded
  PROVE  LocksKnown'
<1>1. stack # <<>> /\ Top.kind = "schemas" /\ UNCHANGED <<conn, signals, held, lock, doubt, wire, sends>>
  BY DEF SchemasLoaded
<1>2. stack' = Unwound(Below)
  BY DEF SchemasLoaded, LoadEnds
<1>3. Sent(stack', wire, sends, lock, doubt)
  BY <1>1, <1>2, BelowSent, UnwoundSent
<1> QED
  BY <1>1, <1>3, CalmStep

-----------------------------------------------------------------------------
(* A reply, or none                                                         *)

LEMMA TopWaits ==
  ASSUME Inv, LocksKnown, stack # <<>>, Top.kind = "rpc"
  PROVE  /\ StackOK(stack) /\ StackOK(Below) /\ Len(stack) \in Nat \ {0}
         /\ DOMAIN Below = 1..(Len(stack) - 1) /\ Len(Below) = Len(stack) - 1
         /\ \A i \in DOMAIN Below : i \in DOMAIN stack /\ Below[i] = stack[i]
         /\ Top \in Waits /\ Waiting(Top) /\ stack[Len(stack)] = Top
         /\ Top.req \in Reqs /\ Top.req.target \in Places
         /\ Top.req.op \in LockOps <=> Top.via = "box"
         /\ Top.via \in {"box", "kill"} =>
              /\ Top.dlg \in 1..Len(Below) /\ Below[Top.dlg] \in Dialogs
              /\ Below[Top.dlg].kind = IF Top.via = "box" THEN "locks" ELSE "manager"
<1>1. StackOK(stack)
  BY DEF Inv, TypeOK
<1>2. /\ Top \in Waits /\ WaitOK(Top) /\ Len(stack) \in Nat \ {0} /\ Waiting(Top)
      /\ StackOK(Below) /\ Len(Below) = Len(stack) - 1
      /\ (OfDialog(Top) => Top.dlg \in 1..Len(Below) /\ Below[Top.dlg] \in Dialogs)
  BY <1>1, Topped, DialogOrWait DEF Frames, Dialogs
<1>3. Len(stack) - 1 \in 0..Len(stack) /\ DOMAIN stack = 1..Len(stack)
  BY <1>1, <1>2, StackShape
<1>4. DOMAIN Below = 1..(Len(stack) - 1)
  BY <1>2, StackShape
<1>5. \A i \in DOMAIN Below : i \in DOMAIN stack /\ Below[i] = stack[i]
  BY <1>1, <1>3, <1>4, Prefix DEF Below
<1>6. Len(stack) \in DOMAIN stack /\ stack[Len(stack)] = Top
  BY <1>2, <1>3 DEF Top
<1>7. Top.req \in Reqs /\ Top.req.target \in Places
  BY <1>2 DEF Waits, Reqs
<1>8. /\ Top.req.op \in LockOps <=> Top.via = "box"
      /\ Top.via = "box" => stack[Top.dlg].kind = "locks"
      /\ Top.via = "kill" => stack[Top.dlg].kind = "manager"
  BY <1>2, <1>6, SentBefore DEF Sent, Queues, Rooted
<1>9. Top.via \in {"box", "kill"} => Top.dlg \in DOMAIN Below /\ Below[Top.dlg] \in Dialogs
  BY <1>2, <1>4 DEF OfDialog
<1> QED
  BY <1>1, <1>2, <1>4, <1>5, <1>6, <1>7, <1>8, <1>9

LEMMA BelowUnder ==
  ASSUME Inv, LocksKnown, stack # <<>>, Top.kind = "rpc", NEW db
  PROVE  Under(stack, Below, db)
BY TopWaits DEF Under, Kin

(* Its box is set, the locks and the doubts are updated.                   *)
LEMMA AfterBoxSent ==
  ASSUME Inv, LocksKnown, stack # <<>>, Top.kind = "rpc", Top.via = "box",
         NEW rsp \in {"ok", "error", "none"}, NEW lk1, NEW db1, doubt \subseteq db1,
         \/ Doubts(Top, lock, lk1, db1)
         \/ /\ rsp # "none"
            /\ \/ Grants(Below, Top, lock, lk1)
               \/ Releases(Below, Top, lock, lk1)
               \/ lk1 = lock /\ rsp = "error" /\ Top.reply = "error"
  PROVE  /\ StackOK(AfterBox(Below, Top, rsp))
         /\ Sent(AfterBox(Below, Top, rsp), wire, sends, lk1, db1)
<1> DEFINE d == Top.dlg
           x == Top.req.target
           t == AfterBox(Below, Top, rsp)
           c == Below[d].boxes
           b == IF rsp = "none" \/ (rsp = "error" /\ Top.req.op = "lock")
                THEN IF Top.req.op = "lock" THEN c \ {x} ELSE c \cup {x} ELSE c
           g == [Below[d] EXCEPT !.boxes = b]
<1>1. /\ StackOK(stack) /\ StackOK(Below) /\ d \in DOMAIN Below /\ Below[d] \in Dialogs
      /\ x \in Places /\ DOMAIN Below = 1..Len(Below) /\ Len(Below) = Len(stack) - 1
      /\ Len(stack) \in Nat \ {0}
      /\ \A i \in DOMAIN Below : i \in DOMAIN stack /\ Below[i] = stack[i]
      /\ stack[Len(stack)] = Top /\ Top.req.op \in LockOps
  BY TopWaits
<1>2. StackOK(t)
  BY <1>1, AfterBoxKeeps
<1>3. b \in SUBSET (Places \cup {"row"})
  BY <1>1 DEF Dialogs
<1>4. t = [Below EXCEPT ![d].boxes = b]
  <2>1. [Below EXCEPT ![d].boxes = c] = Below
    <3>1. [Below[d] EXCEPT !.boxes = c] = Below[d]
      BY <1>1 DEF Dialogs
    <3>2. \A i \in DOMAIN Below : [Below EXCEPT ![d].boxes = c][i] = Below[i]
      BY <3>1, <1>1
    <3>3. [Below EXCEPT ![d].boxes = c] \in [1..Len(Below) -> Frames] /\ Below \in [1..Len(Below) -> Frames]
      BY <3>1, <1>1, StackShape DEF Frames
    <3> QED
      BY <3>2, <3>3, <1>1
  <2> QED
    BY <1>1, <2>1 DEF AfterBox
<1>5. /\ g \in Dialogs /\ g.kind = Below[d].kind /\ g.of = Below[d].of
      /\ g.open = Below[d].open /\ g.boxes = b
  BY <1>1, <1>3 DEF Dialogs
<1>6. /\ DOMAIN t = DOMAIN Below
      /\ \A i \in DOMAIN Below : t[i] = IF i = d THEN g ELSE Below[i]
  BY <1>1, <1>4
<1>7. b \subseteq c \cup db1
  BY DEF Doubts
<1>8. /\ rsp = "error" /\ Top.req.op = "lock" => x \notin b
  OBVIOUS
<1> HIDE DEF b, g, t
<1>9. Len(t) = Len(stack) - 1
  BY <1>1, <1>2, <1>6, StackShape
<1>10. Under(stack, t, db1)
  <2>1. ASSUME NEW i \in DOMAIN t
        PROVE  /\ t[i].kind = stack[i].kind /\ t[i].of = stack[i].of
               /\ Waiting(t[i]) => Kin(stack[i], t[i])
               /\ OpenLocks(t[i]) => OpenLocks(stack[i]) /\ t[i].boxes \subseteq stack[i].boxes \cup db1
    <3>1. CASE i = d
      <4>1. ~Waiting(t[i])
        BY <3>1, <1>5, <1>6, <1>1, DialogOrWait
      <4> QED
        BY <3>1, <4>1, <1>1, <1>5, <1>6, <1>7 DEF OpenLocks
    <3>2. CASE i # d
      BY <3>2, <1>1, <1>6 DEF Kin
    <3> QED
      BY <3>1, <3>2
  <2> QED
    BY <2>1, <1>9 DEF Under
<1>11. \/ Doubts(Top, lock, lk1, db1)
       \/ Grants(t, Top, lock, lk1)
       \/ Releases(t, Top, lock, lk1)
       \/ Leaves(t, Top, lock, lk1)
  <2>1. Alone(Below, Top) => Alone(t, Top)
    <3>1. \A i \in DOMAIN t : t[i].kind = "rpc" => t[i] = Below[i]
      BY <1>1, <1>5, <1>6, DialogOrWait
    <3> QED
      BY <3>1, <1>6 DEF Alone
  <2>2. t[Top.dlg].boxes = b
    BY <1>1, <1>5, <1>6
  <2>3. lk1 = lock /\ rsp = "error" /\ Top.reply = "error" => Leaves(t, Top, lock, lk1)
    BY <2>2, <1>8 DEF Leaves
  <2> QED
    BY <2>1, <2>3 DEF Grants, Releases
<1> HIDE DEF x, d
<1>12. Sent(t, wire, sends, lk1, db1)
  BY <1>1, <1>2, <1>10, <1>11, SentBefore, PopSent
<1> QED
  BY <1>2, <1>12 DEF t

(* The request of a menu, or of the session manager.                       *)
LEMMA OtherSent ==
  ASSUME Inv, LocksKnown, stack # <<>>, Top.kind = "rpc", Top.via # "box"
  PROVE  StackOK(Below) /\ Sent(Below, wire, sends, lock, doubt)
<1>1. /\ StackOK(stack) /\ StackOK(Below) /\ stack[Len(stack)] = Top /\ Top.req.op \notin LockOps
  BY TopWaits
<1>2. Leaves(Below, stack[Len(stack)], lock, lock)
  BY <1>1 DEF Leaves
<1>3. Under(stack, Below, doubt)
  BY BelowUnder
<1> QED
  BY <1>1, <1>2, <1>3, SentBefore, PopSent

LEMMA NothingNoted ==
  ASSUME NEW f, f.req.op \notin LockOps
  PROVE  Noted(f) = lock /\ Doubted(f) = doubt
BY DEF Noted, Doubted, LockOps

LEMMA ReturnsLocks ==
  ASSUME Inv, LocksKnown, Returns
  PROVE  LocksKnown'
<1>1. /\ stack # <<>> /\ Top.kind = "rpc" /\ Top.reply \in {"ok", "error"}
      /\ UNCHANGED <<conn, signals, held>>
      /\ lock' = Noted(Top) /\ doubt' = Doubted(Top)
  BY DEF Returns
<1>2. CASE Top.via = "box"
  <2>1. stack' = Unwound(AfterBox(Below, Top, Top.reply)) /\ UNCHANGED <<wire, app, sends>>
    BY <1>2 DEF Returns, Resumes
  <2>2. Top.req.op \in LockOps
    BY <1>1, <1>2, TopWaits
  <2>3. doubt \subseteq doubt'
    BY <1>1 DEF Doubted
  <2>4. \/ Doubts(Top, lock, lock', doubt')
        \/ Grants(Below, Top, lock, lock')
        \/ Releases(Below, Top, lock, lock')
        \/ lock' = lock /\ Top.reply = "error"
    <3>1. CASE Top.reply = "error"
      BY <3>1, <1>1 DEF Noted
    <3>2. CASE Top.reply = "ok"
      <4>1. CASE Top.req.op = "lock"
        BY <3>2, <4>1, <1>1 DEF Noted, Doubted, Doubts, Grants, Alone
      <4>2. CASE Top.req.op = "unlock"
        BY <3>2, <4>2, <1>1 DEF Noted, Doubted, Doubts, Releases, Alone
      <4> QED
        BY <4>1, <4>2, <2>2 DEF LockOps
    <3> QED
      BY <3>1, <3>2, <1>1
  <2>5. StackOK(AfterBox(Below, Top, Top.reply))
        /\ Sent(AfterBox(Below, Top, Top.reply), wire, sends, lock', doubt')
    BY <1>1, <1>2, <2>3, <2>4, AfterBoxSent
  <2>6. Sent(stack', wire', sends', lock', doubt')
    BY <2>1, <2>5, UnwoundSent
  <2> QED
    BY <1>1, <2>1, <2>6, LocksFollow
<1>3. CASE Top.via # "box"
  <2>1. StackOK(Below) /\ Sent(Below, wire, sends, lock, doubt) /\ Top.req.op \notin LockOps
    BY <1>1, <1>3, OtherSent, TopWaits
  <2>2. lock' = lock /\ doubt' = doubt
    BY <1>1, <2>1, NothingNoted
  <2>3. CASE stack' = Unwound(Below) /\ UNCHANGED <<wire, app, sends>>
    <3>1. Sent(stack', wire, sends, lock, doubt)
      BY <2>1, <2>3, UnwoundSent
    <3> QED
      BY <1>1, <2>2, <2>3, <3>1, CalmStep
  <2>4. CASE Top.via = "kill" /\ KillAnswered(Top)
    <3>1. Top.dlg \in 1..Len(Below) /\ Below[Top.dlg] \in Dialogs
          /\ Below[Top.dlg].kind = "manager" /\ Top.dlg \in Nat
      <4>1. Top.dlg \in 1..Len(Below)
        BY <1>1, <2>4, TopWaits
      <4> QED
        BY <4>1, <1>1, <2>4, TopWaits
    <3>2. CASE /\ up /\ sends' = sends + 1
               /\ stack' = Append(Below, Wait("info", "refresh", Top.dlg, Plain("get")))
               /\ wire' = Append(wire, Wired(Plain("get")))
      BY <1>1, <2>1, <2>2, <3>1, <3>2, InfoAsking, PostStep
    <3>3. CASE stack' = Unwound([Below EXCEPT ![Top.dlg].boxes = {}]) /\ UNCHANGED <<wire, app, sends>>
      <4>1. StackOK([Below EXCEPT ![Top.dlg].boxes = {}])
            /\ Sent([Below EXCEPT ![Top.dlg].boxes = {}], wire, sends, lock, doubt)
        BY <2>1, <3>1, BoxSent
      <4>2. Sent(stack', wire, sends, lock, doubt)
        BY <3>3, <4>1, UnwoundSent
      <4> QED
        BY <1>1, <2>2, <3>3, <4>2, CalmStep
    <3> QED
      BY <2>4, <3>2, <3>3 DEF KillAnswered
  <2> QED
    BY <1>3, <2>3, <2>4 DEF Returns, Resumes
<1> QED
  BY <1>2, <1>3

LEMMA FailsLocks ==
  ASSUME Inv, LocksKnown, Fails
  PROVE  LocksKnown'
<1> DEFINE f == [Top EXCEPT !.reply = "failed"]
<1>1. /\ stack # <<>> /\ Top.kind = "rpc" /\ UNCHANGED <<conn, signals, held, lock>>
      /\ doubt' = Doubted(f)
  BY DEF Fails
<1>2. f.req = Top.req /\ f.reply = "failed" /\ f.via = Top.via
  <2>1. Top \in Waits
    BY <1>1, TopWaits
  <2> QED
    BY <2>1 DEF Waits
<1> HIDE DEF f
<1>3. CASE Top.via = "box"
  <2>1. stack' = Unwound(AfterBox(Below, Top, "none")) /\ UNCHANGED <<wire, app, sends>>
    BY <1>3 DEF Fails, Resumes
  <2>2. Top.req.op \in LockOps
    BY <1>1, <1>3, TopWaits
  <2>3. doubt' = doubt \cup {Top.req.target}
    BY <1>1, <1>2, <2>2 DEF Doubted, LockOps
  <2>4. doubt \subseteq doubt' /\ Doubts(Top, lock, lock, doubt')
    BY <2>3 DEF Doubts
  <2>5. StackOK(AfterBox(Below, Top, "none"))
        /\ Sent(AfterBox(Below, Top, "none"), wire, sends, lock, doubt')
    BY <1>1, <1>3, <2>4, AfterBoxSent
  <2>6. Sent(stack', wire', sends', lock', doubt')
    BY <1>1, <2>1, <2>5, UnwoundSent
  <2> QED
    BY <1>1, <2>1, <2>6, LocksFollow
<1>4. CASE Top.via # "box"
  <2>1. StackOK(Below) /\ Sent(Below, wire, sends, lock, doubt) /\ Top.req.op \notin LockOps
    BY <1>1, <1>4, OtherSent, TopWaits
  <2>2. doubt' = doubt
    BY <1>1, <1>2, <2>1, NothingNoted
  <2>3. CASE stack' = Unwound(Below) /\ UNCHANGED <<wire, app, sends>>
    <3>1. Sent(stack', wire, sends, lock, doubt)
      BY <2>1, <2>3, UnwoundSent
    <3> QED
      BY <1>1, <2>2, <2>3, <3>1, CalmStep
  <2>4. CASE UNCHANGED <<stack, wire, sends>>
    BY <1>1, <2>2, <2>4, SentBefore, CalmStep
  <2> QED
    BY <1>4, <2>3, <2>4 DEF Fails, Resumes
<1> QED
  BY <1>3, <1>4

-----------------------------------------------------------------------------
(* What touches neither requests nor locks                                  *)

LEMMA QuietLocks ==
  ASSUME LocksKnown, UNCHANGED <<conn, signals, held, lock, doubt, wire, sends, stack>>
  PROVE  LocksKnown'
<1>1. Sent(stack', wire, sends, lock, doubt)
  BY DEF LocksKnown
<1> QED
  BY <1>1, CalmStep

LEMMA DelayedLocks ==
  ASSUME Inv, LocksKnown, NEW i \in DOMAIN stack, DelayedControl(i)
  PROVE  LocksKnown'
<1> DEFINE t == [stack EXCEPT ![i].delay = FALSE]
           g == [stack[i] EXCEPT !.delay = FALSE]
<1>1. StackOK(stack) /\ DOMAIN stack = 1..Len(stack)
      /\ \A j \in 1..Len(stack) : stack[j] \in Dialogs \/ stack[j] \in Waits
  BY StackShape DEF Inv, TypeOK
<1>2. stack[i] \in Waits /\ Waiting(stack[i])
  BY <1>1, DialogOrWait DEF DelayedControl
<1>3. g \in Waits /\ Waiting(g) /\ Kin(stack[i], g)
  BY <1>2 DEF Waits, Waiting, Kin
<1>4. DOMAIN t = DOMAIN stack /\ \A j \in DOMAIN stack : t[j] = IF j = i THEN g ELSE stack[j]
  BY <1>1
<1>5. t \in [1..Len(stack) -> Frames]
  BY <1>1, <1>3 DEF Frames
<1>6. stack' = t /\ UNCHANGED <<conn, signals, held, lock, doubt, wire, sends>>
  BY DEF DelayedControl, views
<1> HIDE DEF g, t
<1>7. \A j \in 1..Len(stack) : Alike(stack[j], t[j])
  <2>1. Alike(stack[i], g)
    <3>1. g.delay = FALSE
      BY <1>2 DEF g, Waits
    <3> QED
      BY <1>2, <1>3, <3>1, DialogOrWait DEF Alike, Kin
  <2>2. \A j \in 1..Len(stack) : Alike(stack[j], stack[j])
    BY DEF Alike
  <2> QED
    BY <2>1, <2>2, <1>1, <1>4
<1>8. StackOK(t)
  BY <1>1, <1>5, <1>7, AlikeKeeps
<1>9. Calm(stack, t)
  BY <1>2, <1>3, <1>4 DEF Calm, Kin, Waiting
<1>10. CalmBoxes(stack, t, lock, doubt)
  <2>1. ~OpenLocks(g)
    BY <1>3 DEF OpenLocks, Waiting
  <2> QED
    BY <2>1, <1>4 DEF CalmBoxes
<1>11. Sent(stack', wire, sends, lock, doubt)
  BY <1>1, <1>6, <1>8, <1>9, <1>10, SentBefore, CalmKeeps
<1> QED
  BY <1>6, <1>11, CalmStep

-----------------------------------------------------------------------------
(* The connection                                                           *)

LEMMA ConnectsLocks ==
  ASSUME Inv, LocksKnown, Connects
  PROVE  LocksKnown'
<1>1. /\ conns' = conns + 1 /\ manager' = conns + 1 /\ up' = TRUE /\ connected' = TRUE
      /\ UNCHANGED <<stack, wire, sends, held, lock, doubt>>
      /\ manager = 0 /\ conns \in Nat
  BY DEF Connects, views, Inv, TypeOK
<1>2. ~LossPending /\ ~LossPending'
  <2>1. ~LossPending
    BY Zenon DEF Connects, LossPending
  <2> QED
    BY <2>1, Queued DEF Connects
<1>3. ~up /\ ~connected
  BY <1>1 DEF LocksKnown, Linked, Inv, ConnectionKnown
<1>4. wire' = <<>> /\ Linked'
  BY <1>1, <1>2, <1>3 DEF LocksKnown, Linked
<1>5. \A i \in DOMAIN stack : stack[i].of \in Nat /\ stack[i].of <= conns
  <2>1. \A i \in DOMAIN stack : stack[i] \in Dialogs \/ stack[i] \in Waits
    BY SentBefore, StackShape
  <2>2. \A i \in DOMAIN stack : stack[i].of \in Nat
    BY <2>1 DEF Dialogs, Waits
  <2> QED
    BY <2>2 DEF LocksKnown, Sent, Queues, Rooted
<1>6. \A i \in DOMAIN stack : stack[i].of <= conns' /\ stack[i].of # manager'
  BY <1>1, <1>5
<1>7. Ordered(stack, wire, sends)' /\ Matched(stack, wire, doubt)'
  BY <1>1 DEF LocksKnown, Sent, Queues, Ordered, Matched
<1>8. Rooted(stack)'
  BY <1>1, <1>6 DEF LocksKnown, Sent, Queues, Rooted
<1>9. Granted(stack, doubt)'
  BY <1>1, <1>6 DEF Granted
<1>10. Remembered(stack, lock, doubt)'
  BY <1>1, <1>2, <1>3 DEF LocksKnown, Sent, Queues, Remembered, Unlocked
<1>11. Boxed(stack, lock, doubt)'
  BY <1>1, <1>6 DEF LocksKnown, Sent, Boxed
<1> QED
  BY <1>4, <1>7, <1>8, <1>9, <1>10, <1>11 DEF LocksKnown, Sent, Queues

LEMMA LostLocks ==
  ASSUME Inv, LocksKnown, Lost
  PROVE  LocksKnown'
<1>1. /\ up /\ up' = FALSE /\ wire' = <<>>
      /\ UNCHANGED <<manager, connected, conns, signals, sends, lock, doubt>>
  BY DEF Lost, tab, views
<1>2. /\ DOMAIN stack' = DOMAIN stack
      /\ \A i \in DOMAIN stack :
           \/ stack'[i] = stack[i]
           \/ Waiting(stack[i]) /\ stack'[i] = [stack[i] EXCEPT !.reply = "failed"]
  BY DEF Lost
<1>3. \A i \in DOMAIN stack :
        /\ stack'[i].kind = stack[i].kind /\ stack'[i].of = stack[i].of
        /\ Waiting(stack[i]) => /\ stack'[i].via = stack[i].via /\ stack'[i].dlg = stack[i].dlg
                                /\ stack'[i].req = stack[i].req /\ stack'[i].id = stack[i].id
        /\ ~Waiting(stack[i]) => stack'[i] = stack[i]
  <2>1. \A i \in DOMAIN stack : Waiting(stack[i]) => stack[i] \in Waits
    BY SentBefore, StackShape, DialogOrWait
  <2>2. \A f \in Waits : LET g == [f EXCEPT !.reply = "failed"]
                         IN /\ g.kind = f.kind /\ g.of = f.of /\ g.via = f.via /\ g.dlg = f.dlg
                            /\ g.req = f.req /\ g.id = f.id
    BY DEF Waits
  <2> QED
    BY <1>2, <2>1, <2>2
<1>4. connected /\ ~LossPending /\ ~LossPending' /\ Linked'
  BY <1>1 DEF LocksKnown, Linked, LossPending
<1>5. \A i \in DOMAIN stack : /\ Waiting(stack'[i]) <=> Waiting(stack[i])
                              /\ \A op, t : For(stack'[i], op, t) <=> For(stack[i], op, t)
                              /\ OpenLocks(stack'[i]) <=> OpenLocks(stack[i])
  BY <1>3 DEF Waiting, For, OpenLocks
<1>6. Ordered(stack, wire, sends)' /\ Matched(stack, wire, doubt)'
  BY <1>1, <1>2, <1>3, <1>5 DEF LocksKnown, Sent, Queues, Ordered, Matched
<1>7. Rooted(stack)'
  <2>1. \A i \in DOMAIN stack : stack'[i].of <= conns'
    BY <1>1, <1>3 DEF LocksKnown, Sent, Queues, Rooted
  <2>2. \A i \in DOMAIN stack : Waiting(stack[i]) /\ stack[i].via \in {"box", "kill", "refresh"} =>
          stack[i].dlg \in DOMAIN stack
    <3>1. ASSUME NEW i \in DOMAIN stack, Waiting(stack[i]), stack[i].via \in {"box", "kill", "refresh"}
          PROVE  stack[i].dlg \in DOMAIN stack
      BY <3>1, SentBefore, WaitsOfDialogs
    <3> QED
      BY <3>1
  <2> QED
    BY <1>2, <1>3, <1>5, <2>1, <2>2 DEF LocksKnown, Sent, Queues, Rooted
<1>8. Granted(stack, doubt)' /\ Remembered(stack, lock, doubt)'
  BY <1>1, <1>4 DEF Granted, Remembered
<1>9. Boxed(stack, lock, doubt)'
  <2>1. \A i \in DOMAIN stack : OpenLocks(stack[i]) => stack'[i] = stack[i]
    BY <1>3 DEF OpenLocks, Waiting
  <2>2. \A i \in DOMAIN stack : stack[i].kind = "rpc" => stack'[i].dlg = stack[i].dlg
    BY <1>3 DEF Waiting
  <2>3. ASSUME NEW i \in DOMAIN stack', NEW j \in DOMAIN stack', OpenLocks(stack'[i]), OpenLocks(stack'[j])
        PROVE  i = j
    BY <2>3, <1>2, <1>5 DEF LocksKnown, Sent, Boxed, OpenLocks
  <2>4. ASSUME NEW i \in DOMAIN stack', OpenLocks(stack'[i]), stack'[i].of = manager', connected',
               NEW x \in stack'[i].boxes
        PROVE  \/ x \in doubt'
               \/ \E j \in DOMAIN stack' : j > i /\ For(stack'[j], "lock", x) /\ stack'[j].dlg = i
               \/ x \in lock' /\ \A j \in DOMAIN stack' : j > i => ~For(stack'[j], "unlock", x)
    <3>1. /\ i \in DOMAIN stack /\ OpenLocks(stack[i]) /\ stack[i].of = manager /\ connected
          /\ x \in stack[i].boxes
      BY <2>1, <2>4, <1>1, <1>2, <1>5
    <3>2. \/ x \in doubt
          \/ \E j \in DOMAIN stack : j > i /\ For(stack[j], "lock", x) /\ stack[j].dlg = i
          \/ x \in lock /\ \A j \in DOMAIN stack : j > i => ~For(stack[j], "unlock", x)
      BY <3>1 DEF LocksKnown, Sent, Boxed, OpenLocks
    <3>3. \A j \in DOMAIN stack : For(stack[j], "lock", x) => stack[j].kind = "rpc"
      BY DEF For
    <3> QED
      BY <3>2, <3>3, <2>2, <1>1, <1>2, <1>5
  <2> QED
    BY <2>3, <2>4 DEF Boxed, OpenLocks
<1> QED
  BY <1>4, <1>6, <1>7, <1>8, <1>9 DEF LocksKnown, Sent, Queues

LEMMA NoticedLocks ==
  ASSUME Inv, LocksKnown, Noticed \/ Dropped
  PROVE  LocksKnown'
<1>1. /\ ~up /\ up' = up /\ connected' = FALSE /\ manager' \in {0, manager}
      /\ UNCHANGED <<conns, stack, wire, sends, held, lock, doubt>>
      /\ conns \in Nat
  <2>1. conns \in Nat
    BY DEF Inv, TypeOK
  <2>2. CASE Noticed
    BY <2>1, <2>2 DEF Noticed, views
  <2>3. CASE Dropped
    BY <2>1, <2>3 DEF Dropped, views, Inv, TypeOK
  <2> QED
    BY <2>2, <2>3
<1>2. ~LossPending' => ~connected /\ ~LossPending
  <2>1. CASE Noticed
    <3>1. LossPending'
      BY <2>1, Queued DEF Noticed
    <3> QED
      BY <3>1
  <2>2. CASE Dropped
    BY <2>2 DEF Dropped, tab, LossPending
  <2> QED
    BY <2>1, <2>2
<1>3. Linked'
  BY <1>1 DEF LocksKnown, Linked
<1>4. Ordered(stack, wire, sends)' /\ Matched(stack, wire, doubt)' /\ Rooted(stack)'
  BY <1>1 DEF LocksKnown, Sent, Queues, Ordered, Matched, Rooted
<1>5. Granted(stack, doubt)'
  BY <1>1 DEF Granted
<1>6. Remembered(stack, lock, doubt)'
  BY <1>1, <1>2 DEF LocksKnown, Sent, Queues, Remembered, Unlocked
<1>7. Boxed(stack, lock, doubt)'
  BY <1>1 DEF LocksKnown, Sent, Boxed
<1> QED
  BY <1>3, <1>4, <1>5, <1>6, <1>7 DEF LocksKnown, Sent, Queues

LEMMA ShownLocks ==
  ASSUME Inv, LocksKnown, Signal
  PROVE  LocksKnown'
<1>1. /\ UNCHANGED <<manager, up, connected, conns, stack, wire, sends, held>>
      /\ signals # <<>> /\ signals' = Tail(signals)
  BY DEF Signal, ShowConnected, ShowDisconnected, conn
<1>2. CASE ShowConnected
  <2>1. Head(signals) = TRUE
    <3>1. Head(signals) \in BOOLEAN /\ Head(signals)
      BY <1>2, Unqueued, Zenon DEF ShowConnected
    <3> QED
      BY <3>1, Zenon
  <2>2. LossPending' <=> LossPending
    <3>1. Head(signals) = TRUE => (LossPending' <=> LossPending)
      BY <1>1, Unqueued
    <3> QED
      BY <2>1, <3>1, Zenon
  <2>3. lock' = lock /\ doubt' = doubt
    BY <1>2 DEF ShowConnected, views
  <2>4. Linked'
    BY <1>1, <2>2 DEF LocksKnown, Linked
  <2>5. Ordered(stack, wire, sends)' /\ Matched(stack, wire, doubt)' /\ Rooted(stack)'
    BY <1>1, <2>3 DEF LocksKnown, Sent, Queues, Ordered, Matched, Rooted
  <2>6. Granted(stack, doubt)' /\ Remembered(stack, lock, doubt)'
    BY <1>1, <2>2, <2>3 DEF LocksKnown, Sent, Queues, Granted, Remembered, Unlocked
  <2>7. Boxed(stack, lock, doubt)'
    BY <1>1, <2>3 DEF LocksKnown, Sent, Boxed
  <2> QED
    BY <2>4, <2>5, <2>6, <2>7 DEF LocksKnown, Sent, Queues
<1>3. CASE ShowDisconnected
  <2>1. LossPending
    <3>1. 1 \in DOMAIN signals /\ Head(signals) = signals[1]
      <4>1. signals \in Seq(BOOLEAN)
        BY DEF Inv, TypeOK
      <4> QED
        BY <1>1, <4>1
    <3>2. ~Head(signals)
      BY <1>3, Zenon DEF ShowDisconnected
    <3> QED
      BY <3>1, <3>2, Zenon DEF LossPending
  <2>2. ~connected /\ ~up /\ wire = <<>>
    BY <2>1 DEF LocksKnown, Linked
  <2>3. lock' = {} /\ doubt' = {}
    BY <1>3 DEF ShowDisconnected, Forgets
  <2>4. Linked'
    BY <1>1, <2>2 DEF LocksKnown, Linked
  <2>5. Ordered(stack, wire, sends)' /\ Matched(stack, wire, doubt)' /\ Rooted(stack)'
    BY <1>1, <2>2 DEF LocksKnown, Sent, Queues, Ordered, Matched, Rooted
  <2>6. Granted(stack, doubt)' /\ Remembered(stack, lock, doubt)'
    BY <1>1, <2>2, <2>3 DEF Granted, Remembered
  <2>7. Boxed(stack, lock, doubt)'
    BY <1>1, <2>2 DEF LocksKnown, Sent, Boxed
  <2> QED
    BY <2>4, <2>5, <2>6, <2>7 DEF LocksKnown, Sent, Queues
<1> QED
  BY <1>2, <1>3 DEF Signal

(* The server answers the first request on its wire.                       *)
LEMMA AnswersLocks ==
  ASSUME Inv, LocksKnown, Answers
  PROVE  LocksKnown'
<1> DEFINE T == [id : Nat, op : {"lock", "unlock", "other"}, target : Places]
           r == Head(wire)
<1>1. /\ up /\ UNCHANGED <<manager, up, connected, conns, signals, sends, lock, doubt>>
      /\ wire # <<>> /\ wire' = Tail(wire)
  BY DEF Answers, conn, tab, views
<1>2. /\ wire \in Seq(T) /\ Len(wire) \in Nat \ {0} /\ r = wire[1]
      /\ DOMAIN wire = 1..Len(wire) /\ DOMAIN wire' = 1..(Len(wire) - 1)
      /\ \A k \in DOMAIN wire' : wire'[k] = wire[k + 1]
  BY <1>1, SentBefore
<1>3. /\ 1 \in DOMAIN wire
      /\ \A k \in DOMAIN wire' : k + 1 \in DOMAIN wire /\ 1 < k + 1 /\ wire'[k] = wire[k + 1]
  BY <1>2
<1>t. \A k, l \in DOMAIN wire' : k < l => k + 1 < l + 1
  BY <1>2
<1>4. PICK ok \in BOOLEAN :
        /\ held' = IF ~ok THEN held
                   ELSE CASE r.op = "lock" -> held \cup {r.target}
                          [] r.op = "unlock" -> held \ {r.target}
                          [] OTHER -> held
        /\ stack' = [i \in DOMAIN stack |->
             IF Waiting(stack[i]) /\ stack[i].id = r.id
             THEN [stack[i] EXCEPT !.reply = IF ok THEN "ok" ELSE "error"]
             ELSE stack[i]]
  BY DEF Answers
<1>r. r = wire[1]
  BY <1>2
<1> HIDE DEF r
<1> DEFINE Told(i) == Waiting(stack[i]) /\ stack[i].id = r.id
           rep == IF ok THEN "ok" ELSE "error"
<1>5. /\ DOMAIN stack' = DOMAIN stack
      /\ \A i \in DOMAIN stack :
           stack'[i] = IF Told(i) THEN [stack[i] EXCEPT !.reply = rep] ELSE stack[i]
  BY <1>4
<1>6. \A i \in DOMAIN stack :
        /\ stack'[i].kind = stack[i].kind /\ stack'[i].of = stack[i].of
        /\ Waiting(stack[i]) =>
             /\ stack'[i].via = stack[i].via /\ stack'[i].dlg = stack[i].dlg
             /\ stack'[i].req = stack[i].req /\ stack'[i].id = stack[i].id
        /\ Told(i) => stack'[i].reply = rep
        /\ ~Told(i) => stack'[i] = stack[i]
  <2>1. \A i \in DOMAIN stack : Waiting(stack[i]) => stack[i] \in Waits
    BY SentBefore, StackShape, DialogOrWait
  <2>2. \A f \in Waits : LET g == [f EXCEPT !.reply = rep]
                         IN /\ g.kind = f.kind /\ g.of = f.of /\ g.via = f.via /\ g.dlg = f.dlg
                            /\ g.req = f.req /\ g.id = f.id /\ g.reply = rep
    BY DEF Waits
  <2>3. ASSUME NEW i \in DOMAIN stack
        PROVE  /\ stack'[i].kind = stack[i].kind /\ stack'[i].of = stack[i].of
               /\ Waiting(stack[i]) =>
                    /\ stack'[i].via = stack[i].via /\ stack'[i].dlg = stack[i].dlg
                    /\ stack'[i].req = stack[i].req /\ stack'[i].id = stack[i].id
               /\ Told(i) => stack'[i].reply = rep
               /\ ~Told(i) => stack'[i] = stack[i]
    <3>1. CASE ~Told(i)
      BY <3>1, <1>5
    <3>2. CASE Told(i)
      <4>1. stack[i] \in Waits /\ stack'[i] = [stack[i] EXCEPT !.reply = rep]
        BY <3>2, <1>5, <2>1
      <4> QED
        BY <3>2, <4>1, <2>2
    <3> HIDE DEF Told
    <3> QED
      BY <3>1, <3>2
  <2> QED
    BY <2>3
<1>7. \A i \in DOMAIN stack : /\ Waiting(stack'[i]) <=> Waiting(stack[i])
                              /\ \A op, t : For(stack'[i], op, t) <=> For(stack[i], op, t)
                              /\ OpenLocks(stack'[i]) <=> OpenLocks(stack[i])
  BY <1>6 DEF Waiting, For, OpenLocks
<1>8. LossPending' <=> LossPending
  BY <1>1 DEF LossPending
<1>9. Linked'
  BY <1>1, <1>8 DEF LocksKnown, Linked
\* Who is told had no reply; who had one waits for an older request.
<1>10. \A i \in DOMAIN stack : Told(i) => stack[i].reply = "pending"
  BY <1>3, <1>r DEF LocksKnown, Sent, Queues, Ordered
<1>11. \A i \in DOMAIN stack, k \in DOMAIN wire' :
         Waiting(stack[i]) /\ stack'[i].reply # "pending" => stack[i].id < wire'[k].id
  BY <1>3, <1>6, <1>r DEF LocksKnown, Sent, Queues, Ordered
<1> HIDE DEF Told, rep
<1>12. Ordered(stack, wire, sends)'
  <2>numbered. \A i \in DOMAIN stack' : Waiting(stack'[i]) => stack'[i].id \in 1..sends'
    BY <1>1, <1>5, <1>6, <1>7 DEF LocksKnown, Sent, Queues, Ordered
  <2>rising. \A i, j \in DOMAIN stack' : Waiting(stack'[i]) /\ Waiting(stack'[j]) /\ i < j =>
                                            stack'[i].id < stack'[j].id
    BY <1>5, <1>6, <1>7 DEF LocksKnown, Sent, Queues, Ordered
  <2>onWire. \A k \in DOMAIN wire' : wire'[k].id \in 1..sends'
    BY <1>1, <1>3 DEF LocksKnown, Sent, Queues, Ordered
  <2>wireRising. \A k, l \in DOMAIN wire' : k < l => wire'[k].id < wire'[l].id
    BY <1>3, <1>t DEF LocksKnown, Sent, Queues, Ordered
  <2>ahead. \A i \in DOMAIN stack', k \in DOMAIN wire' :
              Waiting(stack'[i]) /\ stack'[i].reply # "pending" => stack'[i].id < wire'[k].id
    BY <1>5, <1>6, <1>7, <1>11
  <2> QED
    BY <2>numbered, <2>rising, <2>onWire, <2>wireRising, <2>ahead DEF Ordered
<1>13. Matched(stack, wire, doubt)'
  <2>1. ASSUME NEW i \in DOMAIN stack', NEW k \in DOMAIN wire', Waiting(stack'[i]),
               stack'[i].id = wire'[k].id
        PROVE  /\ wire'[k].target = stack'[i].req.target
               /\ wire'[k].op = IF stack'[i].req.op \in LockOps THEN stack'[i].req.op ELSE "other"
    BY <2>1, <1>3, <1>5, <1>6, <1>7 DEF LocksKnown, Sent, Queues, Matched
  <2>2. ASSUME NEW k \in DOMAIN wire', wire'[k].op \in LockOps
        PROVE  wire'[k].target \in doubt' \/ \E i \in DOMAIN stack' : stack'[i].kind = "rpc" /\ stack'[i].id = wire'[k].id
    BY <2>2, <1>1, <1>3, <1>5, <1>6 DEF LocksKnown, Sent, Queues, Matched, Waiting
  <2> QED
    BY <2>1, <2>2 DEF Matched
<1>14. Rooted(stack)'
  <2>1. \A i \in DOMAIN stack : stack'[i].of <= conns'
    BY <1>1, <1>6 DEF LocksKnown, Sent, Queues, Rooted
  <2>2. \A i \in DOMAIN stack : Waiting(stack[i]) /\ stack[i].via \in {"box", "kill", "refresh"} =>
          stack[i].dlg \in DOMAIN stack
    <3>1. ASSUME NEW i \in DOMAIN stack, Waiting(stack[i]), stack[i].via \in {"box", "kill", "refresh"}
          PROVE  stack[i].dlg \in DOMAIN stack
      BY <3>1, SentBefore, WaitsOfDialogs
    <3> QED
      BY <3>1
  <2> QED
    BY <1>5, <1>6, <1>7, <2>1, <2>2 DEF LocksKnown, Sent, Queues, Rooted
\* A lock that was held is held, in doubt, or was released by a request that
\* was sent after all that had a reply.
<1>15. ASSUME NEW y \in held \cup doubt
       PROVE  \/ y \in held' \cup doubt'
              \/ \E j \in DOMAIN stack' : /\ For(stack'[j], "unlock", y) /\ stack'[j].reply = "ok"
                                          /\ stack[j].id = r.id /\ Waiting(stack[j])
  <2>1. CASE y \in held' \cup doubt
    BY <2>1, <1>1
  <2>2. CASE y \notin held' /\ y \notin doubt
    <3>1. ok /\ r.op = "unlock" /\ r.target = y
      BY <2>2, <1>4
    <3>2. PICK j \in DOMAIN stack : stack[j].kind = "rpc" /\ stack[j].id = r.id
      BY <2>2, <3>1, <1>3, <1>r DEF LocksKnown, Sent, Queues, Matched, LockOps
    <3>3. Waiting(stack[j])
      BY <3>2 DEF Waiting
    <3>4. stack[j].req.target = y /\ stack[j].req.op = "unlock"
      BY <3>1, <3>2, <3>3, <1>3, <1>r DEF LocksKnown, Sent, Queues, Matched
    <3>5. stack'[j].reply = "ok"
      BY <3>1, <3>2, <3>3, <1>6 DEF Told, rep
    <3>6. For(stack'[j], "unlock", y)
      BY <3>2, <3>4, <1>7 DEF For
    <3> QED
      BY <3>2, <3>3, <3>5, <3>6, <1>5
  <2> QED
    BY <2>1, <2>2
<1>16. \A y, i : Unlocked(stack, y, i) => Unlocked(stack', y, i)
  <2>1. ASSUME NEW j \in DOMAIN stack, NEW y, For(stack[j], "unlock", y), stack[j].reply = "ok"
        PROVE  For(stack'[j], "unlock", y) /\ stack'[j].reply = "ok"
    BY <2>1, <1>6, <1>7, <1>10
  <2> QED
    BY <2>1, <1>5 DEF Unlocked
<1>17. Granted(stack, doubt)'
  <2>1. ASSUME NEW i \in DOMAIN stack', NEW y \in Places, For(stack'[i], "lock", y),
               stack'[i].reply = "ok", stack'[i].of = manager'
        PROVE  y \in held' \cup doubt' \/ Unlocked(stack', y, i)
    <3>0. i \in DOMAIN stack /\ For(stack[i], "lock", y) /\ stack[i].of = manager /\ Waiting(stack[i])
      BY <2>1, <1>1, <1>5, <1>6, <1>7 DEF For, Waiting
    <3>1. CASE Told(i)
      <4>1. ok
        BY <2>1, <3>0, <3>1, <1>6 DEF rep
      <4>2. r.op = "lock" /\ r.target = y
        BY <3>0, <3>1, <1>3, <1>r DEF Told, LocksKnown, Sent, Queues, Matched, For, LockOps
      <4> QED
        BY <4>1, <4>2, <1>4
    <3>2. CASE ~Told(i)
      <4>1. stack[i].reply = "ok"
        BY <2>1, <3>0, <3>2, <1>6
      <4>2. y \in held \cup doubt \/ Unlocked(stack, y, i)
        BY <3>0, <4>1, <1>1 DEF LocksKnown, Sent, Queues, Granted
      <4>3. ASSUME NEW j \in DOMAIN stack', For(stack'[j], "unlock", y), stack'[j].reply = "ok",
                   stack[j].id = r.id, Waiting(stack[j])
            PROVE  Unlocked(stack', y, i)
        <5>1. stack[i].id < stack[j].id
          BY <3>0, <4>1, <4>3, <1>3, <1>r DEF LocksKnown, Sent, Queues, Ordered
        <5>2. i \in Nat /\ j \in Nat /\ stack[i].id \in 1..sends /\ stack[j].id \in 1..sends /\ sends \in Nat
          BY <3>0, <4>3, <1>5, SentBefore, StackShape DEF Sent, Queues, Ordered
        <5>3. j < i => stack[j].id < stack[i].id
          BY <3>0, <4>3, <1>5 DEF LocksKnown, Sent, Queues, Ordered
        <5>4. j > i
          BY <5>1, <5>2, <5>3
        <5> QED
          BY <4>3, <5>4 DEF Unlocked
      <4> QED
        BY <4>2, <4>3, <1>15, <1>16
    <3> QED
      BY <3>1, <3>2
  <2> QED
    BY <2>1 DEF Granted, Unlocked
<1>18. Remembered(stack, lock, doubt)'
  <2>1. ASSUME NEW y \in lock PROVE y \in held' \cup doubt' \/ Unlocked(stack', y, 0)
    <3>1. y \in held \cup doubt \/ Unlocked(stack, y, 0)
      BY <1>1 DEF LocksKnown, Sent, Queues, Remembered
    <3>2. \A j \in DOMAIN stack' : j > 0
      BY <1>5, SentBefore, StackShape
    <3>3. y \in held \cup doubt => y \in held' \cup doubt' \/ Unlocked(stack', y, 0)
      BY <3>2, <1>15 DEF Unlocked
    <3> QED
      BY <3>1, <3>3, <1>16
  <2> QED
    BY <2>1, <1>1 DEF Remembered, Unlocked
<1>19. Boxed(stack, lock, doubt)'
  <2>1. \A i \in DOMAIN stack : OpenLocks(stack[i]) => stack'[i] = stack[i]
    BY <1>6 DEF OpenLocks, Waiting, Told
  <2>2. \A i \in DOMAIN stack : stack[i].kind = "rpc" => stack'[i].dlg = stack[i].dlg
    BY <1>6 DEF Waiting
  <2>3. ASSUME NEW i \in DOMAIN stack', NEW j \in DOMAIN stack', OpenLocks(stack'[i]), OpenLocks(stack'[j])
        PROVE  i = j
    BY <2>3, <1>5, <1>7 DEF LocksKnown, Sent, Boxed, OpenLocks
  <2>4. ASSUME NEW i \in DOMAIN stack', OpenLocks(stack'[i]), stack'[i].of = manager', connected',
               NEW x \in stack'[i].boxes
        PROVE  \/ x \in doubt'
               \/ \E j \in DOMAIN stack' : j > i /\ For(stack'[j], "lock", x) /\ stack'[j].dlg = i
               \/ x \in lock' /\ \A j \in DOMAIN stack' : j > i => ~For(stack'[j], "unlock", x)
    <3>1. /\ i \in DOMAIN stack /\ OpenLocks(stack[i]) /\ stack[i].of = manager /\ connected
          /\ x \in stack[i].boxes
      BY <2>1, <2>4, <1>1, <1>5, <1>7
    <3>2. \/ x \in doubt
          \/ \E j \in DOMAIN stack : j > i /\ For(stack[j], "lock", x) /\ stack[j].dlg = i
          \/ x \in lock /\ \A j \in DOMAIN stack : j > i => ~For(stack[j], "unlock", x)
      BY <3>1 DEF LocksKnown, Sent, Boxed, OpenLocks
    <3>3. \A j \in DOMAIN stack : For(stack[j], "lock", x) => stack[j].kind = "rpc"
      BY DEF For
    <3> QED
      BY <3>2, <3>3, <2>2, <1>1, <1>5, <1>7
  <2> QED
    BY <2>3, <2>4 DEF Boxed, OpenLocks
<1> QED
  BY <1>9, <1>12, <1>13, <1>14, <1>17, <1>18, <1>19 DEF LocksKnown, Sent, Queues

-----------------------------------------------------------------------------
(* The theorems about the locks                                             *)

LEMMA NextLocks == Inv /\ LocksKnown /\ [Next]_vars => LocksKnown'
<1> SUFFICES ASSUME Inv, LocksKnown, [Next]_vars PROVE LocksKnown'
  OBVIOUS
<1>1. CASE Environment \/ Signal
  BY <1>1, ConnectsLocks, LostLocks, NoticedLocks, AnswersLocks, ShownLocks DEF Environment
<1>2. CASE Abort \/ ShowCapabilities \/ UNCHANGED vars
  <2>1. UNCHANGED <<conn, signals, held, lock, doubt, wire, sends, stack>>
    BY <1>2 DEF Abort, ShowCapabilities, vars, tab, views
  <2> QED
    BY <2>1, QuietLocks
<1>3. CASE Returns \/ Fails \/ \E i \in DOMAIN stack : DelayedControl(i)
  BY <1>3, ReturnsLocks, FailsLocks, DelayedLocks
<1>4. CASE OpenDialog \/ CloseDialog \/ ManageLocks \/ ClickBox
  BY <1>4, OpensLocks, CloseLocks, ClickLocks
<1>5. CASE CopyConfig \/ DeleteConfig \/ ValidateConfig \/ ConfirmedCommit
  BY <1>5, AcceptingLocks
<1>6. CASE CancelCommit \/ Commit \/ DiscardChanges
  BY <1>6, CommitLocks
<1>7. CASE OpenManager \/ Refresh \/ InfoReturns \/ KillSession
  BY <1>7, ManagerLocks, InfoLocks, KillLocks
<1>8. CASE GetSchemas \/ NextSchema \/ SchemasLoaded
  BY <1>8, GetSchemasLocks, NextSchemaLocks, SchemasLoadedLocks
<1> QED
  BY <1>1, <1>2, <1>3, <1>4, <1>5, <1>6, <1>7, <1>8, Zenon DEF Next

LEMMA InitLocks == Init => LocksKnown
<1> SUFFICES ASSUME Init PROVE LocksKnown
  OBVIOUS
<1>1. /\ DOMAIN stack = {} /\ DOMAIN wire = {} /\ DOMAIN signals = {}
      /\ lock = {} /\ ~up /\ ~connected /\ manager = 0 /\ conns = 0 /\ wire = <<>>
  BY EmptySeq DEF Init
<1>2. Linked
  BY <1>1 DEF Linked
<1>3. Sent(stack, wire, sends, lock, doubt)
  BY <1>1 DEF Sent, Queues, Ordered, Matched, Rooted, Granted, Remembered, Boxed
<1> QED
  BY <1>2, <1>3 DEF LocksKnown

(* A lock that the tab remembers is held by the server, is being unlocked, *)
(* or is one of which the tab could not learn what became, in any order of *)
(* clicks, replies, aborts, losses and reconnections.                      *)
THEOREM RememberedLocksHeld == Spec => []LocksRemembered
<1>1. Inv /\ LocksKnown => LocksRemembered
  BY DEF LocksKnown, Sent, Queues, Remembered, Unlocked, For, LocksRemembered, InProgress
<1> QED
  BY <1>1, InitKeeps, NextKeeps, InitLocks, NextLocks, PTL DEF Spec

(* A box of the lock dialog is checked only for a lock that is remembered, *)
(* in progress or in doubt, as long as the dialog is of this connection.   *)
THEOREM CheckedBoxesTellLocks == Spec => []BoxesTellLocks
<1>1. Inv /\ LocksKnown => BoxesTellLocks
  BY DEF LocksKnown, Sent, Boxed, For, BoxesTellLocks, InProgress
<1> QED
  BY <1>1, InitKeeps, NextKeeps, InitLocks, NextLocks, PTL DEF Spec
=============================================================================
