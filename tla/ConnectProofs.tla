---------------------------- MODULE ConnectProofs ---------------------------
(***************************************************************************)
(* Proofs about the two ways to a connection.  SshConnect: what a connect  *)
(* that failed leaves open, which hosts it takes for unknown, and what a   *)
(* login that failed has tried.  CallHome: its types, and the invariant    *)
(* that carries its two safety properties.  They hold for any calls,       *)
(* addresses, keys and subsystem names, any address families and any       *)
(* number of devices that call.                                            *)
(***************************************************************************)
EXTENDS SshConnect, CallHome, FiniteSetTheorems, NaturalsInduction, SequenceTheorems,
        WellFoundedInduction, TLAPS

-----------------------------------------------------------------------------
(* Sockets                                                                  *)

LEMMA SocketsInit == Init => SocketsOwned
BY DEF Init, SocketsOwned

LEMMA SocketsNext == SocketsOwned /\ [Next]_vars => SocketsOwned'
<1> SUFFICES ASSUME SocketsOwned, [Next]_vars PROVE SocketsOwned'
  OBVIOUS
<1> USE DEF SocketsOwned, Raise
<1>1. CASE UNCHANGED vars
  BY <1>1 DEF vars
<1>2. CASE MissingHost \/ LoadKnownHosts
  BY <1>2 DEF MissingHost, LoadKnownHosts
<1>3. CASE SocketFails \/ AddressRefuses \/ AddressAnswers \/ NoAddressLeft
  BY <1>3 DEF SocketFails, AddressRefuses, AfterRefused, AddressAnswers, NoAddressLeft
<1>4. CASE MakeTransport
  BY <1>4 DEF MakeTransport
<1>5. CASE Negotiated \/ NegotiationFails \/ Verify
  BY <1>5 DEF Negotiated, NegotiationFails, Verify
<1>6. CASE AuthKeyFiles \/ AuthAgent \/ AuthDiscovered \/ AuthPassword
  BY <1>6 DEF AuthKeyFiles, AuthAgent, AuthDiscovered, AuthPassword
<1>7. CASE Refused \/ Accepted \/ AuthFails
  BY <1>7 DEF Refused, Accepted, AuthFails
<1>8. CASE SubsystemRefused \/ OpenFails \/ SubsystemOpened \/ NoSubsystem
  BY <1>8 DEF SubsystemRefused, OpenFails, SubsystemOpened, NoSubsystem
<1>9. CASE HelloDone \/ HelloFails \/ CloseFailed \/ Drop
  BY <1>9 DEF HelloDone, HelloFails, CloseFailed, Drop
<1> QED
  BY <1>1, <1>2, <1>3, <1>4, <1>5, <1>6, <1>7, <1>8, <1>9 DEF Next, Connecting

(* A connect that raised has closed every socket of its own, unless it     *)
(* made a transport and never started it.                                  *)
THEOREM FailedConnectCloses == Spec => []NothingLeftOpen
<1>1. Spec => []SocketsOwned
  BY SocketsInit, SocketsNext, PTL DEF Spec
<1>2. SocketsOwned => NothingLeftOpen
  BY DEF SocketsOwned, NothingLeftOpen
<1> QED
  BY <1>1, <1>2, PTL

-----------------------------------------------------------------------------
(* Host keys                                                                *)

(* Looking both names up does not change what is on file.                  *)
LEMMA MergedOnce ==
  ASSUME NEW kn, NEW km, km.ported = kn.ported, km.plain = Merged(kn)
  PROVE  Merged(km) = Merged(kn)
BY DEF Merged

LEMMA KeysInit == Init => KeysNegotiated /\ KnownHostAccepted
<1> SUFFICES ASSUME Init PROVE KeysNegotiated /\ KnownHostAccepted
  OBVIOUS
<1>1. fault # "SSHUnknownHostError"
  BY SshAssumption DEF Init, Faults
<1> QED
  BY <1>1 DEF Init, KeysNegotiated, KnownHostAccepted

(* The only step that raises the error finds the key of an acceptable host *)
(* known: it is of a type on file, and the server and the file have one    *)
(* key of that type.                                                       *)
LEMMA VerifyAccepts ==
  ASSUME KeysNegotiated, KnownHostAccepted, Verify
  PROVE  KnownHostAccepted'
<1> SUFFICES ASSUME fault' = "SSHUnknownHostError", Acceptable PROVE FALSE
  <2>1. Acceptable' <=> Acceptable
    BY DEF Verify, hostVars, Acceptable, Merged, OnePerType
  <2> QED
    BY <2>1 DEF KnownHostAccepted
<1>1. ~IsKnownHost /\ pc = "verify"
  BY DEF KeysNegotiated, Verify
<1>2. CASE req.b64 \in HostKeys
  BY <1>1, <1>2 DEF KeysNegotiated, Acceptable, IsKnownHost, OnePerType
<1>3. CASE req.b64 \notin HostKeys
  <2>1. PICK k \in server : k \in Merged(known)
    BY <1>3 DEF Acceptable
  <2>2. key \in server /\ key.type \in TypesOnFile
    BY <1>1, <1>3, <2>1 DEF KeysNegotiated, TypesOnFile
  <2>3. PICK l \in Merged(known) : l.type = key.type
    BY <2>2 DEF TypesOnFile
  <2>4. key \in Merged(known)
    BY <1>3, <2>2, <2>3 DEF Acceptable, OnePerType
  <2> QED
    BY <1>1, <1>3, <2>4 DEF IsKnownHost, Merged
<1> QED
  BY <1>2, <1>3

(* While nobody raised it, the error is not there.                         *)
LEMMA KeysNext ==
  KeysNegotiated /\ KnownHostAccepted /\ [Next]_vars => (KeysNegotiated /\ KnownHostAccepted)'
<1> SUFFICES ASSUME KeysNegotiated, KnownHostAccepted, [Next]_vars
             PROVE  KeysNegotiated' /\ KnownHostAccepted'
  OBVIOUS
<1>1. CASE UNCHANGED <<server, known, req>> /\ pc' \notin {"negotiate", "verify"}
           /\ (fault' = "SSHUnknownHostError" => fault = fault' /\ pc' \in {"failing", "raised"})
  <2>1. Acceptable' <=> Acceptable
    BY <1>1 DEF Acceptable, Merged, OnePerType
  <2> QED
    BY <1>1, <2>1 DEF KeysNegotiated, KnownHostAccepted, OnePerType
<1>2. CASE UNCHANGED vars
  <2>1. UNCHANGED <<server, known, req, pc, fault, wanted, key>>
    BY <1>2 DEF vars, hostVars
  <2> QED
    BY <2>1 DEF KeysNegotiated, KnownHostAccepted, OnePerType, TypesOnFile, Merged, Acceptable
<1>3. CASE LoadKnownHosts
  <2>1. fault # "SSHUnknownHostError" /\ fault' = fault /\ server' = server
        /\ pc' \in {"open", "transport"}
    BY <1>3 DEF LoadKnownHosts, KeysNegotiated
  <2> QED
    BY <2>1 DEF KeysNegotiated, KnownHostAccepted, OnePerType
<1>4. CASE MakeTransport
  <2>same. fault' # "SSHUnknownHostError" /\ server' = server /\ req' = req
    BY <1>4 DEF MakeTransport, Raise, KeysNegotiated
  <2>wanted. pc' = "negotiate" => \/ req.b64 \in HostKeys /\ wanted' = {req.b64.type}
                                  \/ req.b64 = None /\ wanted' = TypesOnFile
    BY <1>4 DEF MakeTransport, Raise, PreferredTypes, TypesOnFile
  <2>merged. ASSUME pc' = "negotiate", req.b64 = None PROVE Merged(known)' = Merged(known)
    <3>1. CASE known' = known
      BY <3>1 DEF Merged
    <3>2. CASE known' = [known EXCEPT !.plain = Merged(known)] /\ known' # known
      BY <3>2 DEF Merged
    <3> QED
      BY <1>4, <2>merged, <3>1, <3>2, SshAssumption DEF MakeTransport
  <2>next. pc' \in {"negotiate", "failing"}
    BY <1>4 DEF MakeTransport, Raise
  <2> QED
    BY <2>same, <2>wanted, <2>merged, <2>next, SshAssumption
       DEF KeysNegotiated, KnownHostAccepted, OnePerType, TypesOnFile
<1>5. CASE Negotiated
  <2>1. pc = "negotiate" /\ fault' # "SSHUnknownHostError" /\ pc' = "verify"
    BY <1>5 DEF Negotiated, KeysNegotiated
  <2>2. UNCHANGED <<server, known, req, wanted>> /\ TypesOnFile' = TypesOnFile
    BY <1>5 DEF Negotiated, TypesOnFile, Merged
  <2>3. key' \in server /\ (wanted # {} => key'.type \in wanted)
    BY <1>5 DEF Negotiated
  <2> QED
    BY <2>1, <2>2, <2>3 DEF KeysNegotiated, KnownHostAccepted, OnePerType
<1>6. CASE Verify
  <2>1. KnownHostAccepted'
    BY <1>6, VerifyAccepts
  <2>2. server' = server /\ pc' # "negotiate" /\ pc' # "verify"
        /\ (fault' = "SSHUnknownHostError" => pc' = "failing")
    BY <1>6 DEF Verify, Raise, hostVars, KeysNegotiated
  <2> QED
    BY <2>1, <2>2 DEF KeysNegotiated, OnePerType
<1>7. CASE MissingHost \/ SocketFails \/ AddressRefuses \/ AddressAnswers \/ NoAddressLeft
           \/ NegotiationFails
  <2>1. UNCHANGED <<server, known, req>> /\ pc' \notin {"negotiate", "verify"}
        /\ (fault' = "SSHUnknownHostError" => fault = fault' /\ pc' \in {"failing", "raised"})
    BY <1>7 DEF MissingHost, SocketFails, AddressRefuses, AddressAnswers, NoAddressLeft,
                NegotiationFails, Raise, hostVars, KeysNegotiated
  <2> QED
    BY <2>1, <1>1
<1>8. CASE AuthKeyFiles \/ AuthAgent \/ AuthDiscovered \/ AuthPassword \/ Refused \/ Accepted
           \/ AuthFails
  <2>1. UNCHANGED <<server, known, req>> /\ pc' \notin {"negotiate", "verify"}
        /\ (fault' = "SSHUnknownHostError" => fault = fault' /\ pc' \in {"failing", "raised"})
    BY <1>8 DEF AuthKeyFiles, AuthAgent, AuthDiscovered, AuthPassword, Refused, Accepted,
                AuthFails, Raise, hostVars, KeysNegotiated
  <2> QED
    BY <2>1, <1>1
<1>9. CASE SubsystemRefused \/ OpenFails \/ SubsystemOpened \/ NoSubsystem \/ HelloDone
           \/ HelloFails \/ CloseFailed
  <2>1. UNCHANGED <<server, known, req>> /\ pc' \notin {"negotiate", "verify"}
        /\ (fault' = "SSHUnknownHostError" => fault = fault' /\ pc' \in {"failing", "raised"})
    BY <1>9 DEF SubsystemRefused, OpenFails, SubsystemOpened, NoSubsystem, HelloDone,
                HelloFails, CloseFailed, Raise, hostVars, KeysNegotiated
  <2> QED
    BY <2>1, <1>1
<1>10. CASE Drop
  <2>1. UNCHANGED <<server, known, req, pc, fault, wanted, key>>
    BY <1>10 DEF Drop, hostVars
  <2> QED
    BY <2>1 DEF KeysNegotiated, KnownHostAccepted, OnePerType, TypesOnFile, Merged, Acceptable
<1> QED
  BY <1>2, <1>3, <1>4, <1>5, <1>6, <1>7, <1>8, <1>9, <1>10 DEF Next, Connecting

(* No acceptable host is taken for unknown, whatever keys are on file      *)
(* under either of its names.                                              *)
THEOREM KnownHostsAreAccepted == Spec => []KnownHostAccepted
<1>1. Spec => [](KeysNegotiated /\ KnownHostAccepted)
  BY KeysInit, KeysNext, PTL DEF Spec
<1> QED
  BY <1>1, PTL
-----------------------------------------------------------------------------
(* Lists that are worked off entry by entry                                 *)

LEMMA LessOnNat ==
  \E R : IsWellFoundedOn(R, Nat) /\ \A x, y \in Nat : y < x => <<y, x>> \in R
<1> DEFINE R == OpToRel(<, Nat)
<1>1. IsWellFoundedOn(R, Nat)
  BY NatLessThanWellFounded, Zenon
<1>2. \A x, y \in Nat : y < x => <<y, x>> \in R
  BY Zenon DEF OpToRel
<1> QED
  <2> HIDE DEF R
  <2> QED BY <1>1, <1>2

(* Induction, over the set of the numbers for which a fact holds.          *)
LEMMA AllAlong ==
  ASSUME NEW N \in Nat, NEW U, 0 \in U, \A n \in 1..N : n - 1 \in U => n \in U
  PROVE  \A n \in 0..N : n \in U
<1> DEFINE Bad == (0..N) \ U
<1>1. SUFFICES ASSUME Bad # {} PROVE FALSE
  OBVIOUS
<1>2. PICK R : IsWellFoundedOn(R, Nat) /\ \A x, y \in Nat : y < x => <<y, x>> \in R
  BY LessOnNat
<1>3. Bad \in SUBSET Nat
  OBVIOUS
<1>4. PICK m \in Bad : \A i \in Bad : ~(<<i, m>> \in R)
  <2> HIDE DEF Bad
  <2> QED
    BY <1>1, <1>2, <1>3, WFMin, Zenon
<1>5. m \in 1..N /\ m - 1 \in Nat /\ m \in Nat /\ m - 1 < m
  BY <1>4
<1>6. m - 1 \notin Bad
  BY <1>2, <1>4, <1>5
<1> QED
  BY <1>4, <1>5, <1>6

(* G[n] is what entry n does to what was made of the entries before it.    *)
Runs(N, T, A, G) == \E f \in [0..N -> T] : f[0] = A /\ \A n \in 1..N : f[n] = G[n][f[n - 1]]

LEMMA RunsIs ==
  ASSUME NEW N \in Nat, NEW T, NEW A \in T, NEW G \in [Nat -> [T -> T]]
  PROVE  Runs(N, T, A, G)
<1> DEFINE U == {n \in 0..N : Runs(n, T, A, G)}
<1>1. 0 \in U
  <2> DEFINE f == [n \in 0..0 |-> A]
  <2>1. f \in [0..0 -> T] /\ f[0] = A /\ \A n \in 1..0 : f[n] = G[n][f[n - 1]]
    OBVIOUS
  <2>2. Runs(0, T, A, G)
    BY <2>1 DEF Runs
  <2> QED
    BY <2>2
<1>2. ASSUME NEW k \in 1..N, k - 1 \in U
      PROVE  k \in U
  <2>1. PICK f \in [0..(k - 1) -> T] : f[0] = A /\ \A n \in 1..(k - 1) : f[n] = G[n][f[n - 1]]
    BY <1>2 DEF Runs
  <2> DEFINE e == G[k][f[k - 1]]
             g == [n \in 0..k |-> IF n = k THEN e ELSE f[n]]
  <2>2. e \in T /\ k - 1 \in 0..(k - 1)
    BY <2>1
  <2>3. \A n \in 0..k : n # k => n \in 0..(k - 1)
    OBVIOUS
  <2>4. g \in [0..k -> T] /\ g[k] = e /\ \A n \in 0..(k - 1) : g[n] = f[n]
    <3> HIDE DEF e
    <3> QED
      BY <2>1, <2>2, <2>3
  <2>5. g[0] = A /\ g[k - 1] = f[k - 1]
    BY <2>1, <2>2, <2>4
  <2> HIDE DEF g
  <2>6. ASSUME NEW n \in 1..k PROVE g[n] = G[n][g[n - 1]]
    <3>1. CASE n = k
      BY <2>4, <2>5, <3>1
    <3>2. CASE n # k
      <4>1. n \in 1..(k - 1) /\ n \in 0..(k - 1) /\ n - 1 \in 0..(k - 1)
        BY <3>2
      <4> QED
        BY <2>1, <2>4, <4>1
    <3> QED
      BY <3>1, <3>2
  <2>7. Runs(k, T, A, G)
    BY <2>4, <2>5, <2>6 DEF Runs
  <2> QED
    BY <2>7
<1>3. N \in 0..N
  OBVIOUS
<1>4. N \in U
  <2> HIDE DEF U
  <2> QED
    BY <1>1, <1>2, <1>3, AllAlong
<1> QED
  BY <1>4

(* e is among the first n entries of s, or among all of them.              *)
Among(s, n, e) == \E j \in 1..n : s[j] = e
Has(s, e) == Among(s, Len(s), e)
Distinct(s) == \A i, j \in 1..Len(s) : s[i] = s[j] => i = j

LEMMA HasIs ==
  ASSUME NEW T, NEW s \in Seq(T)
  PROVE  /\ Len(s) \in Nat /\ DOMAIN s = 1..Len(s)
         /\ \A e : Has(s, e) <=> e \in Range(s)
         /\ \A e : Has(s, e) => e \in T
         /\ Distinct(s) <=> IsInjective(s)
BY DEF Has, Among, Range, Distinct, IsInjective

LEMMA AmongNext ==
  ASSUME NEW T, NEW s \in Seq(T), NEW n \in 1..Len(s)
  PROVE  /\ \A e : Among(s, n, e) <=> Among(s, n - 1, e) \/ e = s[n]
         /\ Distinct(s) => ~Among(s, n - 1, s[n])
         /\ s[n] \in T
<1>1. n \in Nat /\ Len(s) \in Nat /\ n <= Len(s) /\ s[n] \in T
  OBVIOUS
<1>2. \A j : j \in 1..n <=> j \in 1..(n - 1) \/ j = n
  BY <1>1
<1>3. \A j \in 1..(n - 1) : j \in 1..Len(s) /\ j # n
  BY <1>1
<1> QED
  BY <1>1, <1>2, <1>3 DEF Among, Distinct

LEMMA AppendHas ==
  ASSUME NEW T, NEW x \in Seq(T), NEW v \in T
  PROVE  /\ Append(x, v) \in Seq(T)
         /\ \A e : Has(Append(x, v), e) <=> Has(x, e) \/ e = v
         /\ Distinct(x) /\ ~Has(x, v) => Distinct(Append(x, v))
<1> DEFINE y == Append(x, v)
           N == Len(x)
<1>1. /\ y \in Seq(T) /\ Len(y) = N + 1 /\ y[N + 1] = v /\ N \in Nat
      /\ \A k \in 1..N : y[k] = x[k]
  OBVIOUS
<1>2. \A k : k \in 1..Len(y) <=> k \in 1..N \/ k = N + 1
  BY <1>1
<1>3. N + 1 \notin 1..N
  BY <1>1
<1> HIDE DEF y, N
<1>4. \A e : Has(y, e) <=> Has(x, e) \/ e = v
  BY <1>1, <1>2 DEF Has, Among, N
<1>5. Distinct(x) /\ ~Has(x, v) => Distinct(y)
  BY <1>1, <1>2, <1>3 DEF Has, Among, Distinct, N
<1> QED
  BY <1>1, <1>4, <1>5 DEF y

(* x is what the first n entries of s leave without S.                     *)
Kept(T, s, S, n, x) ==
  /\ x \in Seq(T) /\ Distinct(x)
  /\ \A e : Has(x, e) <=> Among(s, n, e) /\ e \notin S

LEMMA KeptNext ==
  ASSUME NEW T, NEW s \in Seq(T), NEW S, Distinct(s), NEW n \in 1..Len(s), NEW x,
         Kept(T, s, S, n - 1, x)
  PROVE  /\ s[n] \in S => Kept(T, s, S, n, x)
         /\ s[n] \notin S => Kept(T, s, S, n, Append(x, s[n]))
<1>1. /\ \A e : Among(s, n, e) <=> Among(s, n - 1, e) \/ e = s[n]
      /\ ~Among(s, n - 1, s[n]) /\ s[n] \in T
  BY AmongNext
<1>2. /\ x \in Seq(T) /\ Distinct(x)
      /\ \A e : Has(x, e) <=> Among(s, n - 1, e) /\ e \notin S
  BY DEF Kept
<1>3. /\ Append(x, s[n]) \in Seq(T)
      /\ \A e : Has(Append(x, s[n]), e) <=> Has(x, e) \/ e = s[n]
      /\ Distinct(Append(x, s[n]))
  BY <1>1, <1>2, AppendHas
<1>4. s[n] \in S => Kept(T, s, S, n, x)
  BY <1>1, <1>2 DEF Kept
<1>5. s[n] \notin S => Kept(T, s, S, n, Append(x, s[n]))
  BY <1>1, <1>2, <1>3 DEF Kept
<1> QED
  BY <1>4, <1>5

LEMMA WithoutIs ==
  ASSUME NEW T, NEW s \in Seq(T), NEW S, Distinct(s)
  PROVE  Kept(T, s, S, Len(s), Without(s, S))
<1> DEFINE N == Len(s)
           P(g) == g = [n \in 0..N |-> IF n = 0 THEN << >>
                        ELSE IF s[n] \in S THEN g[n - 1] ELSE Append(g[n - 1], s[n])]
           L == CHOOSE g : P(g)
           X == Seq(T)
           G == [k \in Nat |-> [x \in X |-> IF k \in 1..N /\ s[k] \notin S
                                            THEN Append(x, s[k]) ELSE x]]
<1>1. N \in Nat /\ << >> \in X /\ \A n \in 1..N : s[n] \in T
  OBVIOUS
<1>2. Without(s, S) = L[N]
  BY Zenon DEF Without
<1>3. G \in [Nat -> [X -> X]]
  BY <1>1
<1>4. \A k \in 1..N, x \in X : G[k][x] = IF s[k] \in S THEN x ELSE Append(x, s[k])
  BY <1>1
<1> HIDE DEF N, X, G
<1>5. PICK f \in [0..N -> X] : f[0] = << >> /\ \A n \in 1..N : f[n] = G[n][f[n - 1]]
  <2>1. Runs(N, X, << >>, G)
    BY <1>1, <1>3, RunsIs
  <2> QED
    BY <2>1 DEF Runs
<1>6. P(f)
  <2> HIDE DEF P
  <2>1. \A n \in 0..N : f[n] = IF n = 0 THEN << >>
                        ELSE IF s[n] \in S THEN f[n - 1] ELSE Append(f[n - 1], s[n])
    <3> SUFFICES ASSUME NEW n \in 0..N, n # 0
                 PROVE  f[n] = IF s[n] \in S THEN f[n - 1] ELSE Append(f[n - 1], s[n])
      BY <1>5
    <3>1. n \in 1..N /\ n - 1 \in 0..N
      BY <1>1
    <3>2. f[n - 1] \in X /\ f[n] = G[n][f[n - 1]]
      BY <1>5, <3>1
    <3> QED
      BY <1>4, <3>1, <3>2
  <2> QED
    BY <1>5, <2>1 DEF P
<1>7. P(L)
  <2> HIDE DEF P
  <2> QED
    BY <1>6
<1> HIDE DEF L
<1>8. /\ L[0] = << >>
      /\ \A n \in 1..N : L[n] = IF s[n] \in S THEN L[n - 1] ELSE Append(L[n - 1], s[n])
  <2>1. 0 \in 0..N /\ \A n \in 1..N : n \in 0..N /\ n # 0
    BY <1>1
  <2>2. \A n \in 0..N : L[n] = IF n = 0 THEN << >>
                        ELSE IF s[n] \in S THEN L[n - 1] ELSE Append(L[n - 1], s[n])
    BY <1>7, Zenon
  <2> QED
    BY <2>1, <2>2
<1> HIDE DEF P
<1> DEFINE U == {n \in 0..N : Kept(T, s, S, n, L[n])}
<1>9. 0 \in U
  <2>1. Kept(T, s, S, 0, << >>)
    BY DEF Kept, Distinct, Has, Among
  <2> QED
    BY <1>1, <1>8, <2>1
<1>10. \A n \in 1..N : n - 1 \in U => n \in U
  <2> SUFFICES ASSUME NEW n \in 1..N, Kept(T, s, S, n - 1, L[n - 1])
               PROVE  n \in 0..N /\ Kept(T, s, S, n, L[n])
    OBVIOUS
  <2>1. n \in 1..Len(s) /\ n \in 0..N
    BY <1>1 DEF N
  <2>2. Kept(T, s, S, n, L[n])
    <3> DEFINE x == L[n - 1]
    <3>1. /\ s[n] \in S => Kept(T, s, S, n, x)
          /\ s[n] \notin S => Kept(T, s, S, n, Append(x, s[n]))
      <4> HIDE DEF x
      <4> QED
        BY <2>1, KeptNext DEF x
    <3> QED
      BY <1>8, <3>1
  <2> QED
    BY <2>1, <2>2
<1>11. N \in U
  <2>1. N \in 0..N
    BY <1>1
  <2> HIDE DEF U
  <2> QED
    BY <1>1, <1>9, <1>10, <2>1, AllAlong
<1> QED
  BY <1>2, <1>11 DEF N

-----------------------------------------------------------------------------
(* The order of the agent's keys                                            *)

Moves == {m \in [first : Seq(AgentKeys), rest : Seq(AgentKeys)] : Distinct(m.rest)}
MoveOne(m, k) ==
  IF k \in Range(m.rest)
    THEN [first |-> Append(m.first, k), rest |-> Without(m.rest, {k})] ELSE m

(* m is what the first n key files make of the agent's answer.             *)
Moved(list, keys, n, m) ==
  /\ m \in Moves /\ Distinct(m.first)
  /\ \A e : ~(Has(m.first, e) /\ Has(m.rest, e))
  /\ \A e : Has(list, e) <=> Has(m.first, e) \/ Has(m.rest, e)
  /\ \A e : Has(m.first, e) => \E j \in 1..n : PubOf[keys[j]] = e
  /\ \A j \in 1..n : ~Has(m.rest, PubOf[keys[j]])

LEMMA MoveOneIs ==
  ASSUME NEW m \in Moves, NEW k
  PROVE  /\ MoveOne(m, k) \in Moves
         /\ ~Has(m.rest, k) => MoveOne(m, k) = m
         /\ Has(m.rest, k) =>
              /\ \A e : Has(MoveOne(m, k).first, e) <=> Has(m.first, e) \/ e = k
              /\ \A e : Has(MoveOne(m, k).rest, e) <=> Has(m.rest, e) /\ e # k
              /\ Distinct(m.first) /\ ~Has(m.first, k) => Distinct(MoveOne(m, k).first)
<1>1. m.first \in Seq(AgentKeys) /\ m.rest \in Seq(AgentKeys) /\ Distinct(m.rest)
  BY DEF Moves
<1>2. (k \in Range(m.rest) <=> Has(m.rest, k)) /\ (Has(m.rest, k) => k \in AgentKeys)
  BY <1>1, HasIs
<1>3. CASE ~Has(m.rest, k)
  BY <1>2, <1>3 DEF MoveOne
<1>4. CASE Has(m.rest, k)
  <2> DEFINE f == Append(m.first, k)
             r == Without(m.rest, {k})
  <2>1. /\ f \in Seq(AgentKeys)
        /\ \A e : Has(f, e) <=> Has(m.first, e) \/ e = k
        /\ Distinct(m.first) /\ ~Has(m.first, k) => Distinct(f)
    BY <1>1, <1>2, <1>4, AppendHas
  <2>2. Kept(AgentKeys, m.rest, {k}, Len(m.rest), r)
    BY <1>1, WithoutIs
  <2>3. r \in Seq(AgentKeys) /\ Distinct(r) /\ \A e : Has(r, e) <=> Has(m.rest, e) /\ e # k
    BY <2>2 DEF Kept, Has
  <2> HIDE DEF f, r
  <2>4. MoveOne(m, k) = [first |-> f, rest |-> r]
    BY <1>2, <1>4 DEF MoveOne, f, r
  <2> QED
    BY <1>4, <2>1, <2>3, <2>4 DEF Moves
<1> QED
  BY <1>3, <1>4

LEMMA MoveNext ==
  ASSUME NEW list, NEW keys, NEW n \in Nat \ {0}, NEW m, Moved(list, keys, n - 1, m)
  PROVE  Moved(list, keys, n, MoveOne(m, PubOf[keys[n]]))
<1> DEFINE k == PubOf[keys[n]]
           o == MoveOne(m, k)
<1>1. /\ m \in Moves /\ Distinct(m.first)
      /\ \A e : ~(Has(m.first, e) /\ Has(m.rest, e))
      /\ \A e : Has(list, e) <=> Has(m.first, e) \/ Has(m.rest, e)
      /\ \A e : Has(m.first, e) => \E j \in 1..(n - 1) : PubOf[keys[j]] = e
      /\ \A j \in 1..(n - 1) : ~Has(m.rest, PubOf[keys[j]])
  BY DEF Moved
<1>2. \A j : j \in 1..n <=> j \in 1..(n - 1) \/ j = n
  OBVIOUS
<1>3. PubOf[keys[n]] = k
  OBVIOUS
<1>4. /\ o \in Moves
      /\ ~Has(m.rest, k) => o = m
      /\ Has(m.rest, k) => /\ \A e : Has(o.first, e) <=> Has(m.first, e) \/ e = k
                           /\ \A e : Has(o.rest, e) <=> Has(m.rest, e) /\ e # k
                           /\ Distinct(m.first) /\ ~Has(m.first, k) => Distinct(o.first)
  <2> HIDE DEF k
  <2> QED
    BY <1>1, MoveOneIs
<1> HIDE DEF k, o
<1>5. CASE ~Has(m.rest, k)
  <2>1. \A j \in 1..n : ~Has(m.rest, PubOf[keys[j]])
    BY <1>1, <1>2, <1>3, <1>5
  <2>2. \A e : Has(m.first, e) => \E j \in 1..n : PubOf[keys[j]] = e
    BY <1>1, <1>2
  <2>3. Moved(list, keys, n, m)
    BY <1>1, <2>1, <2>2 DEF Moved
  <2> QED
    BY <1>4, <1>5, <2>3 DEF o, k
<1>6. CASE Has(m.rest, k)
  <2>split. /\ \A e : Has(o.first, e) <=> Has(m.first, e) \/ e = k
            /\ \A e : Has(o.rest, e) <=> Has(m.rest, e) /\ e # k
            /\ Distinct(o.first)
    BY <1>1, <1>4, <1>6
  <2>absent. \A j \in 1..n : ~Has(o.rest, PubOf[keys[j]])
    BY <1>1, <1>2, <1>3, <2>split
  <2>among. \A e : Has(o.first, e) => \E j \in 1..n : PubOf[keys[j]] = e
    <3> SUFFICES ASSUME NEW e, Has(o.first, e) PROVE \E j \in 1..n : PubOf[keys[j]] = e
      OBVIOUS
    <3>1. CASE Has(m.first, e)
      BY <1>1, <1>2, <3>1
    <3>2. CASE e = k
      <4>1. n \in 1..n
        BY <1>2
      <4> QED
        BY <1>3, <3>2, <4>1
    <3> QED
      BY <2>split, <3>1, <3>2
  <2>apart. \A e : ~(Has(o.first, e) /\ Has(o.rest, e))
    BY <1>1, <2>split
  <2>same. \A e : Has(list, e) <=> Has(o.first, e) \/ Has(o.rest, e)
    BY <1>1, <1>6, <2>split
  <2>moved. Moved(list, keys, n, o)
    BY <1>4, <2>split, <2>absent, <2>among, <2>apart, <2>same DEF Moved
  <2> QED
    BY <2>moved DEF o, k
<1> QED
  BY <1>5, <1>6

LEMMA ResequencedIs ==
  ASSUME NEW list \in Seq(AgentKeys), Distinct(list), NEW keys \in Seq(KeyFiles)
  PROVE  Moved(list, keys, Len(keys), Resequenced(list, keys))
<1> DEFINE N == Len(keys)
           A == [first |-> << >>, rest |-> list]
           P(g) == g = [n \in 0..N |-> IF n = 0 THEN A ELSE
                          LET m == g[n - 1]
                              k == PubOf[keys[n]]
                          IN  IF k \in Range(m.rest)
                                THEN [first |-> Append(m.first, k), rest |-> Without(m.rest, {k})]
                                ELSE m]
           Q(g) == g = [n \in 0..N |-> IF n = 0 THEN A ELSE MoveOne(g[n - 1], PubOf[keys[n]])]
           L == CHOOSE g : P(g)
           X == Moves
           G == [n \in Nat |-> [m \in X |-> MoveOne(m, PubOf[keys[n]])]]
<1>1. N \in Nat /\ A \in X
  BY DEF Moves
<1>2. Resequenced(list, keys) = L[N]
  BY Zenon DEF Resequenced
<1>3. G \in [Nat -> [X -> X]]
  BY MoveOneIs
<1>4. \A n \in 1..N, m \in X : G[n][m] = MoveOne(m, PubOf[keys[n]])
  BY <1>1
<1>5. \A g : P(g) <=> Q(g)
  BY Zenon DEF MoveOne
<1> HIDE DEF X, G, P
<1>6. PICK f \in [0..N -> X] : f[0] = A /\ \A n \in 1..N : f[n] = G[n][f[n - 1]]
  <2> HIDE DEF N, A
  <2>1. Runs(N, X, A, G)
    BY <1>1, <1>3, RunsIs
  <2> QED
    BY <2>1 DEF Runs
<1> HIDE DEF A, N
<1>7. Q(f)
  <2> HIDE DEF Q
  <2>1. \A n \in 0..N : f[n] = IF n = 0 THEN A ELSE MoveOne(f[n - 1], PubOf[keys[n]])
    <3> SUFFICES ASSUME NEW n \in 0..N, n # 0
                 PROVE  f[n] = MoveOne(f[n - 1], PubOf[keys[n]])
      BY <1>6
    <3>1. n \in 1..N /\ n - 1 \in 0..N
      BY <1>1
    <3>2. f[n - 1] \in X /\ f[n] = G[n][f[n - 1]]
      BY <1>6, <3>1
    <3> QED
      BY <1>4, <3>1, <3>2
  <2> QED
    BY <1>6, <2>1 DEF Q
<1>8. Q(L)
  <2> HIDE DEF Q
  <2>1. P(f)
    BY <1>5, <1>7
  <2>2. P(L)
    BY <2>1
  <2> HIDE DEF L
  <2> QED
    BY <1>5, <2>2
<1> HIDE DEF L
<1>9. L[0] = A /\ \A n \in 1..N : L[n] = MoveOne(L[n - 1], PubOf[keys[n]])
  <2>1. 0 \in 0..N /\ \A n \in 1..N : n \in 0..N /\ n # 0
    BY <1>1
  <2>2. \A n \in 0..N : L[n] = IF n = 0 THEN A ELSE MoveOne(L[n - 1], PubOf[keys[n]])
    BY <1>8, Zenon
  <2> QED
    BY <2>1, <2>2
<1> HIDE DEF Q
<1> DEFINE U == {n \in 0..N : Moved(list, keys, n, L[n])}
<1>10. 0 \in U
  <2>1. /\ A \in Moves /\ A.first = << >> /\ A.rest = list
    BY <1>1 DEF A, X
  <2>2. Distinct(<< >>) /\ \A e : ~Has(<< >>, e)
    BY DEF Distinct, Has, Among
  <2>3. Moved(list, keys, 0, A)
    BY <2>1, <2>2 DEF Moved
  <2> QED
    BY <1>1, <1>9, <2>3
<1>11. \A n \in 1..N : n - 1 \in U => n \in U
  <2> SUFFICES ASSUME NEW n \in 1..N, Moved(list, keys, n - 1, L[n - 1])
               PROVE  n \in 0..N /\ Moved(list, keys, n, L[n])
    OBVIOUS
  <2>1. n \in Nat \ {0} /\ n \in 0..N
    BY <1>1
  <2>2. Moved(list, keys, n, MoveOne(L[n - 1], PubOf[keys[n]]))
    BY <2>1, MoveNext
  <2> QED
    BY <1>9, <2>1, <2>2
<1>12. N \in U
  <2>1. N \in 0..N
    BY <1>1
  <2> HIDE DEF U
  <2> QED
    BY <1>1, <1>10, <1>11, <2>1, AllAlong
<1> QED
  BY <1>2, <1>12 DEF N

(* a and then b.                                                           *)
Joined(a, b) == a \o b

LEMMA JoinedIs ==
  ASSUME NEW T, NEW a \in Seq(T), NEW b \in Seq(T)
  PROVE  /\ Joined(a, b) \in Seq(T) /\ Len(Joined(a, b)) = Len(a) + Len(b)
         /\ \A i \in 1..Len(a) : Joined(a, b)[i] = a[i] /\ i \in 1..Len(Joined(a, b))
         /\ \A j \in 1..Len(b) : /\ Joined(a, b)[Len(a) + j] = b[j]
                                 /\ Len(a) + j \in 1..Len(Joined(a, b))
         /\ \A i \in 1..Len(Joined(a, b)) :
              i \in 1..Len(a) \/ \E j \in 1..Len(b) : i = Len(a) + j
<1>1. /\ Joined(a, b) \in Seq(T) /\ Len(Joined(a, b)) = Len(a) + Len(b)
      /\ Len(a) \in Nat /\ Len(b) \in Nat
      /\ \A i \in 1..Len(a) : Joined(a, b)[i] = a[i]
      /\ \A j \in 1..Len(b) : Joined(a, b)[Len(a) + j] = b[j]
  BY DEF Joined
<1>2. ASSUME NEW i \in 1..Len(Joined(a, b)), i \notin 1..Len(a)
      PROVE  \E j \in 1..Len(b) : i = Len(a) + j
  <2>1. i - Len(a) \in 1..Len(b) /\ i = Len(a) + (i - Len(a))
    BY <1>1, <1>2
  <2> QED
    BY <2>1
<1>3. \A i \in 1..Len(a) : i \in 1..Len(Joined(a, b))
  BY <1>1
<1>4. \A j \in 1..Len(b) : Len(a) + j \in 1..Len(Joined(a, b))
  BY <1>1
<1> QED
  BY <1>1, <1>2, <1>3, <1>4

LEMMA JoinedHas ==
  ASSUME NEW T, NEW a \in Seq(T), NEW b \in Seq(T)
  PROVE  /\ \A e : Has(Joined(a, b), e) <=> Has(a, e) \/ Has(b, e)
         /\ Distinct(a) /\ Distinct(b) /\ (\A e : ~(Has(a, e) /\ Has(b, e)))
              => Distinct(Joined(a, b))
<1> DEFINE c == Joined(a, b)
           M == Len(a)
           N == Len(b)
           K == Len(c)
<1>1. /\ c \in Seq(T) /\ K = M + N
      /\ \A i \in 1..M : c[i] = a[i] /\ i \in 1..K
      /\ \A j \in 1..N : c[M + j] = b[j] /\ M + j \in 1..K
      /\ \A i \in 1..K : i \in 1..M \/ \E j \in 1..N : i = M + j
  BY JoinedIs
<1>2. /\ \A e : Has(a, e) <=> \E i \in 1..M : a[i] = e
      /\ \A e : Has(b, e) <=> \E j \in 1..N : b[j] = e
      /\ \A e : Has(c, e) <=> \E i \in 1..K : c[i] = e
  BY DEF Has, Among
<1> HIDE DEF c, M, N, K
<1>3. \A e : Has(c, e) <=> Has(a, e) \/ Has(b, e)
  <2>1. ASSUME NEW e, Has(c, e) PROVE Has(a, e) \/ Has(b, e)
    <3>1. PICK i \in 1..K : c[i] = e
      BY <1>2, <2>1
    <3>2. CASE i \in 1..M
      BY <1>1, <1>2, <3>1, <3>2
    <3>3. ASSUME NEW j \in 1..N, i = M + j PROVE Has(b, e)
      <4>1. b[j] = e
        BY <1>1, <3>1, <3>3
      <4> QED
        BY <1>2, <4>1
    <3> QED
      BY <1>1, <3>2, <3>3
  <2>2. ASSUME NEW e, Has(a, e) \/ Has(b, e) PROVE Has(c, e)
    <3>1. CASE Has(a, e)
      BY <1>1, <1>2, <3>1
    <3>2. CASE Has(b, e)
      <4>1. PICK j \in 1..N : b[j] = e
        BY <1>2, <3>2
      <4> QED
        BY <1>1, <1>2, <4>1
    <3> QED
      BY <2>2, <3>1, <3>2
  <2> QED
    BY <2>1, <2>2
<1>4. ASSUME Distinct(a), Distinct(b), \A e : ~(Has(a, e) /\ Has(b, e)),
             NEW i \in 1..K, NEW k \in 1..K, c[i] = c[k]
      PROVE  i = k
  <2>1. CASE i \in 1..M /\ k \in 1..M
    BY <1>1, <1>4, <2>1 DEF Distinct, M
  <2>2. ASSUME NEW j \in 1..N, NEW l \in 1..M, c[M + j] = c[l] PROVE FALSE
    <3>1. b[j] = a[l]
      BY <1>1, <2>2
    <3>2. Has(a, a[l]) /\ Has(b, b[j])
      BY <1>2, <2>2
    <3> QED
      BY <1>4, <3>1, <3>2
  <2>3. ASSUME NEW j \in 1..N, NEW l \in 1..N, i = M + j, k = M + l PROVE i = k
    BY <1>1, <1>4, <2>3 DEF Distinct, N
  <2> QED
    BY <1>1, <1>4, <2>1, <2>2, <2>3
<1> QED
  BY <1>3, <1>4 DEF Distinct, c, K

(* The agent's keys are tried in an order of their own, all and each once, *)
(* and none before those that a .pub file names.                           *)
LEMMA AgentOrderIs ==
  ASSUME NEW list \in Seq(AgentKeys), Distinct(list), NEW keys \in Seq(KeyFiles), NEW s,
         s = AgentOrder(list, keys)
  PROVE  /\ s \in Seq(AgentKeys) /\ Distinct(s)
         /\ \A e : Has(s, e) <=> Has(list, e)
         /\ \A i, j \in 1..Len(s) :
              i < j /\ (\E k \in 1..Len(keys) : s[j] = PubOf[keys[k]])
                => \E k \in 1..Len(keys) : s[i] = PubOf[keys[k]]
<1> DEFINE r == Resequenced(list, keys)
<1>1. Moved(list, keys, Len(keys), r)
  BY ResequencedIs
<1>2. s = Joined(r.first, r.rest)
  BY DEF AgentOrder, Joined
<1> HIDE DEF r
<1>3. /\ r.first \in Seq(AgentKeys) /\ r.rest \in Seq(AgentKeys)
      /\ Distinct(r.first) /\ Distinct(r.rest)
      /\ \A e : ~(Has(r.first, e) /\ Has(r.rest, e))
      /\ \A e : Has(list, e) <=> Has(r.first, e) \/ Has(r.rest, e)
      /\ \A e : Has(r.first, e) => \E j \in 1..Len(keys) : PubOf[keys[j]] = e
      /\ \A j \in 1..Len(keys) : ~Has(r.rest, PubOf[keys[j]])
  BY <1>1 DEF Moved, Moves
<1> DEFINE a == r.first
           b == r.rest
           M == Len(a)
           N == Len(b)
           K == Len(s)
<1>4. /\ s \in Seq(AgentKeys) /\ K = M + N
      /\ \A i \in 1..M : s[i] = a[i] /\ i \in 1..K
      /\ \A j \in 1..N : s[M + j] = b[j] /\ M + j \in 1..K
      /\ \A i \in 1..K : i \in 1..M \/ \E j \in 1..N : i = M + j
  <2>1. s = Joined(a, b) /\ a \in Seq(AgentKeys) /\ b \in Seq(AgentKeys)
    BY <1>2, <1>3
  <2> HIDE DEF a, b
  <2> QED
    BY <2>1, JoinedIs
<1>5. /\ \A e : Has(s, e) <=> Has(a, e) \/ Has(b, e)
      /\ Distinct(s)
  BY <1>2, <1>3, JoinedHas
<1>6. ASSUME NEW i \in 1..K, NEW j \in 1..K, i < j,
             NEW k \in 1..Len(keys), s[j] = PubOf[keys[k]]
      PROVE  \E l \in 1..Len(keys) : s[i] = PubOf[keys[l]]
  <2>1. M \in Nat /\ N \in Nat
    BY <1>3
  <2>2. j \in 1..M
    <3> SUFFICES ASSUME j \notin 1..M PROVE FALSE
      OBVIOUS
    <3>1. PICK n \in 1..N : j = M + n
      BY <1>4
    <3>2. b[n] = PubOf[keys[k]]
      BY <1>4, <1>6, <3>1
    <3>3. Has(b, b[n])
      BY DEF Has, Among
    <3> QED
      BY <1>3, <3>2, <3>3
  <2>3. i \in 1..M
    BY <1>6, <2>1, <2>2
  <2>4. Has(a, a[i]) /\ s[i] = a[i]
    BY <1>4, <2>3 DEF Has, Among
  <2> QED
    BY <1>3, <2>4
<1> QED
  BY <1>3, <1>4, <1>5, <1>6

-----------------------------------------------------------------------------
(* The attempts of _auth                                                    *)

Parts == {"file", "agent", "found", "password"}

LEMMA Ranks ==
  /\ Rank("keys") = 0 /\ Rank("file") = 1 /\ Rank("agent") = 2
  /\ Rank("found") = 3 /\ Rank("password") = 4
  /\ \A m \in Parts : Rank(m) \in 1..4
  /\ \A m, o \in Parts : Rank(m) = Rank(o) => m = o
<1>1. Rank("keys") = 0
  BY DEF Rank
<1>2. Rank("file") = 1
  BY DEF Rank
<1>3. Rank("agent") = 2
  BY DEF Rank
<1>4. Rank("found") = 3
  BY DEF Rank
<1>5. Rank("password") = 4
  BY DEF Rank
<1>6. \A m \in Parts : Rank(m) \in 1..4
  BY <1>2, <1>3, <1>4, <1>5 DEF Parts
<1>7. \A m, o \in Parts : Rank(m) = Rank(o) => m = o
  BY <1>2, <1>3, <1>4, <1>5 DEF Parts
<1> QED
  BY <1>1, <1>2, <1>3, <1>4, <1>5, <1>6, <1>7

LEMMA AttemptIs ==
  ASSUME NEW a \in Seq(AttemptType)
  PROVE  /\ Len(a) \in Nat /\ DOMAIN a = 1..Len(a)
         /\ \A n \in 1..Len(a) : a[n].by \in Parts
         /\ \A m, v : v \in Ids(a, m) <=> \E n \in 1..Len(a) : a[n].by = m /\ a[n].id = v
<1>1. \A n \in 1..Len(a) : a[n] \in AttemptType
  OBVIOUS
<1>2. \A t \in AttemptType : t.by \in Parts
  BY DEF AttemptType, Parts
<1>3. DOMAIN a = 1..Len(a) /\ Len(a) \in Nat
  OBVIOUS
<1>4. \A m, v : v \in Ids(a, m) <=> \E n \in 1..Len(a) : a[n].by = m /\ a[n].id = v
  BY <1>3 DEF Ids
<1> QED
  BY <1>1, <1>2, <1>3, <1>4

(* All of b is one part of _auth.                                          *)
All(b, part) == \A n \in 1..Len(b) : b[n].by = part
(* Nothing of a belongs to that part or a later one.                       *)
Before(a, part) == \A n \in 1..Len(a) : Rank(a[n].by) < Rank(part)

LEMMA BeforeIs ==
  ASSUME NEW a \in Seq(AttemptType), NEW part \in Parts,
         \A m \in Parts : Rank(part) <= Rank(m) => Ids(a, m) = {}
  PROVE  Before(a, part)
<1> SUFFICES ASSUME NEW n \in 1..Len(a), ~(Rank(a[n].by) < Rank(part)) PROVE FALSE
  BY DEF Before
<1>1. a[n].by \in Parts
  BY AttemptIs
<1>2. Rank(a[n].by) \in 1..4 /\ Rank(part) \in 1..4
  BY <1>1, Ranks
<1>3. Ids(a, a[n].by) = {}
  BY <1>1, <1>2
<1>4. a[n].id \in Ids(a, a[n].by)
  BY AttemptIs
<1> QED
  BY <1>3, <1>4

LEMMA PartIds ==
  ASSUME NEW a \in Seq(AttemptType), NEW b \in Seq(AttemptType), NEW part \in Parts,
         All(b, part), Before(a, part), NEW c, c = Joined(a, b)
  PROVE  /\ Ids(c, part) = Ids(b, part)
         /\ \A m : m # part => Ids(c, m) = Ids(a, m)
<1>1. /\ c \in Seq(AttemptType) /\ Len(c) = Len(a) + Len(b)
      /\ \A i \in 1..Len(a) : c[i] = a[i] /\ i \in 1..Len(c)
      /\ \A j \in 1..Len(b) : c[Len(a) + j] = b[j] /\ Len(a) + j \in 1..Len(c)
      /\ \A i \in 1..Len(c) : i \in 1..Len(a) \/ \E j \in 1..Len(b) : i = Len(a) + j
  BY JoinedIs
<1>2. /\ \A m, v : v \in Ids(a, m) <=> \E n \in 1..Len(a) : a[n].by = m /\ a[n].id = v
      /\ \A m, v : v \in Ids(b, m) <=> \E n \in 1..Len(b) : b[n].by = m /\ b[n].id = v
      /\ \A m, v : v \in Ids(c, m) <=> \E n \in 1..Len(c) : c[n].by = m /\ c[n].id = v
  BY <1>1, AttemptIs
<1>3. \A m, v : v \in Ids(c, m) <=> v \in Ids(a, m) \/ v \in Ids(b, m)
  <2>1. ASSUME NEW m, NEW v, v \in Ids(c, m) PROVE v \in Ids(a, m) \/ v \in Ids(b, m)
    <3>1. PICK n \in 1..Len(c) : c[n].by = m /\ c[n].id = v
      BY <1>2, <2>1
    <3>2. CASE n \in 1..Len(a)
      <4>1. a[n].by = m /\ a[n].id = v
        BY <1>1, <3>1, <3>2
      <4> QED
        BY <1>2, <3>2, <4>1
    <3>3. ASSUME NEW j \in 1..Len(b), n = Len(a) + j PROVE v \in Ids(b, m)
      <4>1. b[j].by = m /\ b[j].id = v
        BY <1>1, <3>1, <3>3
      <4> QED
        BY <1>2, <3>3, <4>1
    <3> QED
      BY <1>1, <3>2, <3>3
  <2>2. ASSUME NEW m, NEW v, v \in Ids(a, m) PROVE v \in Ids(c, m)
    <3>1. PICK n \in 1..Len(a) : a[n].by = m /\ a[n].id = v
      BY <1>2, <2>2
    <3>2. n \in 1..Len(c) /\ c[n].by = m /\ c[n].id = v
      BY <1>1, <3>1
    <3> QED
      BY <1>2, <3>2
  <2>3. ASSUME NEW m, NEW v, v \in Ids(b, m) PROVE v \in Ids(c, m)
    <3>1. PICK n \in 1..Len(b) : b[n].by = m /\ b[n].id = v
      BY <1>2, <2>3
    <3>2. Len(a) + n \in 1..Len(c) /\ c[Len(a) + n].by = m /\ c[Len(a) + n].id = v
      BY <1>1, <3>1
    <3> QED
      BY <1>2, <3>2
  <2> QED
    BY <2>1, <2>2, <2>3
<1>4. ASSUME NEW v, v \in Ids(a, part) PROVE FALSE
  <2>1. PICK n \in 1..Len(a) : a[n].by = part
    BY <1>2, <1>4
  <2>2. Rank(part) < Rank(part)
    BY <2>1 DEF Before
  <2> QED
    BY <2>2, Ranks
<1>5. ASSUME NEW m, m # part, NEW v, v \in Ids(b, m) PROVE FALSE
  BY <1>2, <1>5 DEF All
<1>6. Ids(c, part) = Ids(b, part)
  BY <1>3, <1>4
<1>7. ASSUME NEW m, m # part PROVE Ids(c, m) = Ids(a, m)
  BY <1>3, <1>5, <1>7
<1> QED
  BY <1>6, <1>7

(* One part of _auth more.                                                 *)
LEMMA PartAdded ==
  ASSUME NEW a \in Seq(AttemptType), NEW b \in Seq(AttemptType), NEW part \in Parts,
         All(b, part), Before(a, part), NEW c, c = Joined(a, b)
  PROVE  /\ Once(a) /\ Once(b) => Once(c)
         /\ InOrder(a) => InOrder(c)
         /\ NamedFirst(a) /\ (part = "agent" => NamedFirst(b)) => NamedFirst(c)
         /\ \A t : t \in Range(a) \/ t \in Range(b) => t \in Range(c)
<1> DEFINE M == Len(a)
           N == Len(b)
           K == Len(c)
<1>1. /\ c \in Seq(AttemptType) /\ K = M + N
      /\ \A i \in 1..M : c[i] = a[i] /\ i \in 1..K
      /\ \A j \in 1..N : c[M + j] = b[j] /\ M + j \in 1..K
      /\ \A i \in 1..K : i \in 1..M \/ \E j \in 1..N : i = M + j
  BY JoinedIs
<1>2. /\ M \in Nat /\ N \in Nat /\ K \in Nat
      /\ DOMAIN a = 1..M /\ DOMAIN b = 1..N /\ DOMAIN c = 1..K
      /\ \A n \in 1..M : a[n].by \in Parts /\ Rank(a[n].by) < Rank(part)
      /\ \A n \in 1..N : b[n].by = part
  BY <1>1, AttemptIs DEF All, Before
<1>3. Rank(part) \in 1..4 /\ \A n \in 1..M : Rank(a[n].by) \in 1..4
  BY <1>2, Ranks
<1> HIDE DEF M, N, K
<1>4. \A i \in 1..M, j \in 1..N : a[i].by # b[j].by /\ Rank(a[i].by) < Rank(b[j].by)
  BY <1>2, <1>3
<1>5. \A i \in 1..M, j \in 1..N : ~(M + j < i)
  BY <1>2
<1>6. ASSUME Once(a), Once(b) PROVE Once(c)
  <2> SUFFICES ASSUME NEW i \in 1..K, NEW k \in 1..K, c[i] = c[k], i # k
               PROVE  c[i].by = "file" /\ ~IsInjective(req.keys)
    BY <1>2 DEF Once
  <2>1. CASE i \in 1..M /\ k \in 1..M
    BY <1>1, <1>2, <1>6, <2>1 DEF Once
  <2>2. ASSUME NEW j \in 1..N, NEW l \in 1..M, c[M + j] = c[l] PROVE FALSE
    BY <1>1, <1>4, <2>2
  <2>3. ASSUME NEW j \in 1..N, NEW l \in 1..N, i = M + j, k = M + l
        PROVE  c[i].by = "file" /\ ~IsInjective(req.keys)
    <3>1. b[j] = b[l] /\ j # l /\ c[i] = b[j]
      BY <1>1, <2>3
    <3> QED
      BY <1>2, <1>6, <3>1 DEF Once
  <2> QED
    BY <1>1, <2>1, <2>2, <2>3
<1>7. ASSUME InOrder(a) PROVE InOrder(c)
  <2> SUFFICES ASSUME NEW i \in 1..K, NEW k \in 1..K, i < k
               PROVE  Rank(c[i].by) <= Rank(c[k].by)
    BY <1>2 DEF InOrder
  <2>1. CASE i \in 1..M /\ k \in 1..M
    BY <1>1, <1>2, <1>7, <2>1 DEF InOrder
  <2>2. ASSUME NEW j \in 1..N, NEW l \in 1..M, i = l, k = M + j
        PROVE  Rank(c[i].by) <= Rank(c[k].by)
    <3>1. c[i] = a[l] /\ c[k] = b[j] /\ Rank(a[l].by) < Rank(b[j].by)
      BY <1>1, <1>4, <2>2
    <3>2. Rank(a[l].by) \in 1..4 /\ Rank(b[j].by) \in 1..4
      BY <1>2, <1>3
    <3> QED
      BY <3>1, <3>2
  <2>3. ASSUME NEW j \in 1..N, NEW l \in 1..N, i = M + j, k = M + l
        PROVE  Rank(c[i].by) <= Rank(c[k].by)
    <3>1. c[i] = b[j] /\ c[k] = b[l] /\ b[j].by = part /\ b[l].by = part
      BY <1>1, <1>2, <2>3
    <3> QED
      BY <1>3, <3>1
  <2> QED
    BY <1>1, <1>5, <2>1, <2>2, <2>3
<1>8. ASSUME NamedFirst(a), part = "agent" => NamedFirst(b) PROVE NamedFirst(c)
  <2> SUFFICES ASSUME NEW i \in 1..K, NEW k \in 1..K, i < k, c[i].by = "agent",
                      c[k].by = "agent", c[k].id \in NamedKeys
               PROVE  c[i].id \in NamedKeys
    BY <1>2 DEF NamedFirst
  <2>1. CASE i \in 1..M /\ k \in 1..M
    BY <1>1, <1>2, <1>8, <2>1 DEF NamedFirst
  <2>2. ASSUME NEW j \in 1..N, NEW l \in 1..M, i = l, k = M + j PROVE FALSE
    BY <1>1, <1>4, <2>2
  <2>3. ASSUME NEW j \in 1..N, NEW l \in 1..N, i = M + j, k = M + l
        PROVE  c[i].id \in NamedKeys
    <3>1. c[i] = b[j] /\ c[k] = b[l] /\ b[j].by = part /\ j < l
      BY <1>1, <1>2, <2>3
    <3>2. part = "agent" /\ NamedFirst(b)
      BY <1>8, <3>1
    <3> QED
      BY <1>2, <3>1, <3>2 DEF NamedFirst
  <2> QED
    BY <1>1, <1>5, <2>1, <2>2, <2>3
<1>9. ASSUME NEW t, t \in Range(a) \/ t \in Range(b) PROVE t \in Range(c)
  <2>1. CASE t \in Range(a)
    BY <1>1, <1>2, <2>1 DEF Range
  <2>2. CASE t \in Range(b)
    <3>1. PICK j \in 1..N : b[j] = t
      BY <1>2, <2>2 DEF Range
    <3>2. M + j \in 1..K /\ c[M + j] = t
      BY <1>1, <3>1
    <3> QED
      BY <1>2, <3>2 DEF Range
  <2> QED
    BY <1>9, <2>1, <2>2
<1> QED
  BY <1>6, <1>7, <1>8, <1>9

(* What the parts try.                                                     *)
LEMMA AttemptsIs ==
  ASSUME NEW by \in {"agent", "found", "password"}, NEW T,
         T \subseteq KeyFiles \cup AgentKeys \cup Range(Found) \cup {None},
         NEW ids \in Seq(T), Distinct(ids), NEW b, b = Attempts(by, ids)
  PROVE  /\ b \in Seq(AttemptType) /\ All(b, by) /\ Once(b)
         /\ Len(b) = Len(ids) /\ \A n \in 1..Len(b) : b[n].id = ids[n]
         /\ \A v : v \in Ids(b, by) <=> Has(ids, v)
<1> DEFINE N == Len(ids)
<1>1. N \in Nat /\ DOMAIN ids = 1..N /\ \A n \in 1..N : ids[n] \in T
  OBVIOUS
<1>2. \A v \in T : [by |-> by, id |-> v, cls |-> None] \in AttemptType
  BY DEF AttemptType
<1>3. b = [n \in 1..N |-> [by |-> by, id |-> ids[n], cls |-> None]]
  BY <1>1 DEF Attempts
<1> HIDE DEF N
<1>4. b \in [1..N -> AttemptType]
  BY <1>1, <1>2, <1>3
<1>5. b \in Seq(AttemptType) /\ Len(b) = N /\ DOMAIN b = 1..N
  BY <1>1, <1>4
<1>6. \A n \in 1..N : b[n].by = by /\ b[n].id = ids[n]
  BY <1>3
<1>7. All(b, by)
  BY <1>5, <1>6 DEF All
<1>8. Once(b)
  <2>1. ASSUME NEW i \in 1..N, NEW j \in 1..N, b[i] = b[j] PROVE i = j
    BY <1>6, <2>1 DEF Distinct, N
  <2> QED
    BY <1>5, <2>1 DEF Once
<1>9. \A v : v \in Ids(b, by) <=> Has(ids, v)
  BY <1>5, <1>6, AttemptIs DEF Has, Among, N
<1> QED
  BY <1>5, <1>6, <1>7, <1>8, <1>9 DEF N

(* The quotient and the remainder of n - 1 by four tell n.                 *)
LEMMA Fours ==
  ASSUME NEW L \in Nat
  PROVE  /\ \A n \in 1..(4 * L) : /\ ((n - 1) \div 4) + 1 \in 1..L
                                  /\ ((n - 1) % 4) + 1 \in 1..4
         /\ \A n, m \in 1..(4 * L) :
              ((n - 1) \div 4) + 1 = ((m - 1) \div 4) + 1 /\ ((n - 1) % 4) + 1 = ((m - 1) % 4) + 1
                => n = m
         /\ \A k \in 1..L, c \in 1..4 :
              \E n \in 1..(4 * L) : ((n - 1) \div 4) + 1 = k /\ ((n - 1) % 4) + 1 = c
<1>1. ASSUME NEW n \in 1..(4 * L)
      PROVE  /\ ((n - 1) \div 4) + 1 \in 1..L
             /\ ((n - 1) % 4) + 1 \in 1..4
             /\ n - 1 = 4 * ((n - 1) \div 4) + ((n - 1) % 4)
  OBVIOUS
<1>2. ASSUME NEW n \in 1..(4 * L), NEW m \in 1..(4 * L),
             ((n - 1) \div 4) + 1 = ((m - 1) \div 4) + 1, ((n - 1) % 4) + 1 = ((m - 1) % 4) + 1
      PROVE  n = m
  BY <1>1, <1>2
<1>3. ASSUME NEW k \in 1..L, NEW c \in 1..4
      PROVE  \E n \in 1..(4 * L) : ((n - 1) \div 4) + 1 = k /\ ((n - 1) % 4) + 1 = c
  <2> DEFINE n == 4 * (k - 1) + c
  <2>1. n \in 1..(4 * L)
    OBVIOUS
  <2>2. (n - 1) \div 4 = k - 1 /\ (n - 1) % 4 = c - 1
    OBVIOUS
  <2>3. ((n - 1) \div 4) + 1 = k /\ ((n - 1) % 4) + 1 = c
    BY <2>2
  <2> HIDE DEF n
  <2> QED
    BY <2>1, <2>3
<1> QED
  BY <1>1, <1>2, <1>3

LEMMA FileAttemptsIs ==
  ASSUME NEW keys \in Seq(KeyFiles), NEW b, b = FileAttempts(keys)
  PROVE  /\ b \in Seq(AttemptType) /\ All(b, "file")
         /\ \A f \in Range(keys) : [by |-> "file", id |-> f, cls |-> ClassOf[f]] \in Range(b)
         /\ Ids(b, "file") \subseteq Range(keys)
         /\ IsInjective(keys) => IsInjective(b)
<1> DEFINE L == Len(keys)
           K(n) == ((n - 1) \div 4) + 1
           C(n) == ((n - 1) % 4) + 1
<1>1. L \in Nat /\ DOMAIN keys = 1..L /\ \A n \in 1..L : keys[n] \in KeyFiles
  OBVIOUS
<1>2. /\ Len(Classes) = 4 /\ \A n \in 1..4 : Classes[n] \in Range(Classes)
      /\ \A c \in Range(Classes) : \E n \in 1..4 : Classes[n] = c
      /\ \A n, m \in 1..4 : Classes[n] = Classes[m] => n = m
  <2>0. Classes[1] = "RSA" /\ Classes[2] = "DSS" /\ Classes[3] = "ECDSA" /\ Classes[4] = "Ed25519"
    BY DEF Classes
  <2>1. Len(Classes) = 4 /\ DOMAIN Classes = 1..4
    BY DEF Classes
  <2>2. \A n \in 1..4 : n = 1 \/ n = 2 \/ n = 3 \/ n = 4
    OBVIOUS
  <2>3. \A n, m \in 1..4 : Classes[n] = Classes[m] => n = m
    BY <2>0, <2>2
  <2> QED
    BY <2>1, <2>3 DEF Range
<1>3. /\ \A n \in 1..(4 * L) : K(n) \in 1..L /\ C(n) \in 1..4
      /\ \A n, m \in 1..(4 * L) : K(n) = K(m) /\ C(n) = C(m) => n = m
      /\ \A k \in 1..L, c \in 1..4 : \E n \in 1..(4 * L) : K(n) = k /\ C(n) = c
  BY <1>1, Fours
<1>4. b = [n \in 1..(4 * L) |-> [by |-> "file", id |-> keys[K(n)], cls |-> Classes[C(n)]]]
  BY <1>2 DEF FileAttempts
<1> HIDE DEF K, C, L
<1>5. \A k \in 1..L, c \in 1..4 :
        [by |-> "file", id |-> keys[k], cls |-> Classes[c]] \in AttemptType
  BY <1>1, <1>2 DEF AttemptType
<1>6. 4 * L \in Nat
  BY <1>1
<1>7. b \in [1..(4 * L) -> AttemptType]
  <2>1. \A n \in 1..(4 * L) :
          [by |-> "file", id |-> keys[K(n)], cls |-> Classes[C(n)]] \in AttemptType
    BY <1>3, <1>5
  <2> QED
    BY <1>4, <2>1
<1>8. b \in Seq(AttemptType) /\ Len(b) = 4 * L /\ DOMAIN b = 1..(4 * L)
  BY <1>6, <1>7
<1>9. \A n \in 1..(4 * L) : /\ b[n] = [by |-> "file", id |-> keys[K(n)], cls |-> Classes[C(n)]]
                            /\ b[n].by = "file" /\ b[n].id = keys[K(n)] /\ b[n].cls = Classes[C(n)]
  BY <1>4
<1>10. All(b, "file")
  BY <1>8, <1>9 DEF All
<1>11. ASSUME NEW f \in Range(keys)
       PROVE  [by |-> "file", id |-> f, cls |-> ClassOf[f]] \in Range(b)
  <2>1. PICK k \in 1..L : keys[k] = f
    BY <1>1 DEF Range
  <2>2. ClassOf[f] \in Range(Classes)
    BY <1>1, <2>1, SshAssumption
  <2>3. PICK c \in 1..4 : Classes[c] = ClassOf[f]
    BY <1>2, <2>2
  <2>4. PICK n \in 1..(4 * L) : K(n) = k /\ C(n) = c
    BY <1>3
  <2>5. b[n] = [by |-> "file", id |-> f, cls |-> ClassOf[f]]
    BY <1>9, <2>1, <2>3, <2>4
  <2> QED
    BY <1>8, <2>5 DEF Range
<1>12. ASSUME NEW v \in Ids(b, "file") PROVE v \in Range(keys)
  <2>1. PICK n \in 1..(4 * L) : b[n].id = v
    BY <1>8, <1>12, AttemptIs
  <2>2. v = keys[K(n)] /\ K(n) \in 1..L
    BY <1>3, <1>9, <2>1
  <2> QED
    BY <1>1, <2>2 DEF Range
<1>13. ASSUME IsInjective(keys) PROVE IsInjective(b)
  <2> SUFFICES ASSUME NEW n \in 1..(4 * L), NEW m \in 1..(4 * L), b[n] = b[m] PROVE n = m
    BY <1>8 DEF IsInjective
  <2>1. keys[K(n)] = keys[K(m)] /\ Classes[C(n)] = Classes[C(m)]
    BY <1>9
  <2>2. K(n) = K(m)
    BY <1>1, <1>3, <1>13, <2>1 DEF IsInjective
  <2>3. C(n) = C(m)
    BY <1>2, <1>3, <2>1
  <2> QED
    BY <1>3, <2>2, <2>3
<1> QED
  BY <1>8, <1>10, <1>11, <1>12, <1>13

LEMMA AnswersAre ==
  ASSUME NEW s \in Answers
  PROVE  s \in Seq(AgentKeys) /\ Distinct(s)
<1>1. Cardinality(AgentKeys) \in Nat
  BY FS_CardinalityType, SshAssumption
<1>2. PICK n \in 0..Cardinality(AgentKeys) : s \in [1..n -> AgentKeys]
  BY DEF Answers
<1>3. n \in Nat /\ s \in Seq(AgentKeys)
  BY <1>1, <1>2
<1>4. IsInjective(s)
  BY DEF Answers
<1> QED
  BY <1>3, <1>4, HasIs

-----------------------------------------------------------------------------
(* The order of the attempts                                                *)

LEMMA NobodyFirst ==
  ASSUME NEW a \in Seq(AttemptType), Ids(a, "agent") = {}
  PROVE  NamedFirst(a)
BY AttemptIs DEF NamedFirst

(* The same call and the same attempts: nothing else is looked at.         *)
LEMMA Carried ==
  ASSUME req' = req, NEW c, c = tried' \o todo'
  PROVE  /\ FilesIn(tried \o todo)' <=> FilesIn(c)
         /\ NamedFirst(tried \o todo)' <=> NamedFirst(c)
         /\ Once(tried \o todo)' <=> Once(c)
         /\ InOrder(tried \o todo)' <=> InOrder(c)
         /\ \A m : Ids(tried \o todo, m)' = Ids(c, m)
<1>1. FilesIn(tried \o todo)' <=> FilesIn(c)
  BY DEF FilesIn, Ids
<1>2. NamedFirst(tried \o todo)' <=> NamedFirst(c)
  BY DEF NamedFirst, NamedKeys
<1>3. Once(tried \o todo)' <=> Once(c)
  BY DEF Once
<1>4. InOrder(tried \o todo)' <=> InOrder(c)
  BY DEF InOrder
<1>5. \A m : Ids(tried \o todo, m)' = Ids(c, m)
  BY DEF Ids
<1> QED
  BY <1>1, <1>2, <1>3, <1>4, <1>5

LEMMA EmptyLast ==
  ASSUME NEW a \in Seq(AttemptType)
  PROVE  a \o << >> = a
OBVIOUS

LEMMA AttemptsInit == Init => AttemptsInOrder
<1> SUFFICES ASSUME Init PROVE AttemptsInOrder
  OBVIOUS
<1>1. tried \o todo = << >> /\ << >> \in Seq(AttemptType) /\ << >> \in Seq(AgentKeys)
  <2>1. << >> \in Seq(AttemptType) /\ << >> \in Seq(AgentKeys)
    OBVIOUS
  <2> QED
    BY <2>1, EmptyLast DEF Init
<1>2. \A m : Ids(<< >>, m) = {}
  BY DEF Ids
<1>3. Once(<< >>) /\ InOrder(<< >>)
  BY DEF Once, InOrder
<1>4. stage = "keys" /\ held = <<>>
  BY DEF Init
<1>5. AttemptsOf(tried \o todo)
  BY <1>1, <1>2, <1>3, <1>4, Ranks DEF AttemptsOf, Reached
<1>6. fault # "AuthenticationError"
  BY SshAssumption DEF Init, Faults
<1>7. req \in RequestType
  BY SshAssumption DEF Init
<1>8. pc = "start" /\ tried = <<>> /\ todo = <<>> /\ held = <<>> /\ stage = "keys"
  BY DEF Init
<1> QED
  BY <1>1, <1>5, <1>6, <1>7, <1>8 DEF AttemptsInOrder, EveryMethodTried, Unopened

(* A step of connect outside _auth.                                        *)
LEMMA AttemptsOutside ==
  ASSUME AttemptsInOrder, UNCHANGED <<req, stage, todo, tried, held, present>>,
         pc' \in Unopened => pc \in Unopened,
         pc' = "auth" => pc \in Unopened \cup {"auth"},
         fault' = "AuthenticationError" => fault' = fault /\ pc' \in {"failing", "raised"}
  PROVE  AttemptsInOrder'
<1>1. AttemptsOf(tried \o todo)' <=> AttemptsOf(tried \o todo)
  BY DEF AttemptsOf, FilesIn, AgentIn, FoundIn, PasswordIn, NamedFirst, NamedKeys, Once,
         InOrder, Ids, Reached
<1>2. EveryMethodTried'
  <2> SUFFICES ASSUME fault' = "AuthenticationError" PROVE EveryMethodTried'
    BY DEF EveryMethodTried
  <2>1. /\ FilesIn(tried) /\ AgentIn(tried) /\ FoundIn(tried) /\ PasswordIn(tried)
        /\ Once(tried) /\ InOrder(tried)
    BY DEF AttemptsInOrder, EveryMethodTried
  <2>2. FilesIn(tried)' /\ FoundIn(tried)' /\ PasswordIn(tried)'
    BY <2>1 DEF FilesIn, FoundIn, PasswordIn, Ids
  <2>3. AgentIn(tried)'
    BY <2>1 DEF AgentIn, NamedFirst, NamedKeys, Ids
  <2>4. Once(tried)' /\ InOrder(tried)'
    BY <2>1 DEF Once, InOrder
  <2> QED
    BY <2>2, <2>3, <2>4 DEF EveryMethodTried
<1>3. pc' \in Unopened \cup {"auth"} => AttemptsOf(tried \o todo)'
  BY <1>1 DEF AttemptsInOrder, Unopened
<1> QED
  BY <1>2, <1>3 DEF AttemptsInOrder, Unopened

(* A step inside _auth that ends no login.                                 *)
LEMMA AttemptsInside ==
  ASSUME AttemptsInOrder, pc = "auth", req' = req, held' \in Seq(AgentKeys),
         tried' \in Seq(AttemptType), todo' \in Seq(AttemptType), stage' \in Parts,
         pc' \in {"auth", "failing", "channels"},
         pc' = "auth" => AttemptsOf(tried \o todo)',
         fault' = fault \/ fault' = "SSHException"
  PROVE  AttemptsInOrder'
<1>1. fault' # "AuthenticationError" /\ stage' # "keys" /\ pc' \notin Unopened
  BY DEF AttemptsInOrder, Unopened, Parts
<1>2. EveryMethodTried'
  BY <1>1 DEF EveryMethodTried
<1> QED
  BY <1>1, <1>2 DEF AttemptsInOrder, Unopened, Parts

LEMMA AuthKeyFilesOK ==
  ASSUME AttemptsInOrder, AuthKeyFiles
  PROVE  AttemptsInOrder'
<1> DEFINE a == tried
           b == FileAttempts(req.keys)
           c == Joined(a, b)
<1>1. /\ pc = "auth" /\ pc' = "auth" /\ stage = "keys" /\ stage' = "file" /\ todo' = b
      /\ tried' = a /\ req' = req /\ fault' = fault /\ held' = held /\ present' = present
  BY DEF AuthKeyFiles, keyVars
<1>2. a \in Seq(AttemptType) /\ todo = <<>> /\ req \in RequestType /\ held \in Seq(AgentKeys)
  BY <1>1 DEF AttemptsInOrder
<1>3. req.keys \in Seq(KeyFiles)
  BY <1>2 DEF RequestType
<1>4. /\ b \in Seq(AttemptType) /\ All(b, "file")
      /\ \A f \in Range(req.keys) : [by |-> "file", id |-> f, cls |-> ClassOf[f]] \in Range(b)
      /\ Ids(b, "file") \subseteq Range(req.keys)
      /\ IsInjective(req.keys) => IsInjective(b)
  BY <1>3, FileAttemptsIs
<1>5. c = tried' \o todo'
  BY <1>1 DEF Joined
<1>6. /\ \A m \in Parts : Ids(a, m) = {}
      /\ held = <<>> /\ Once(a) /\ InOrder(a)
  <2>1. AttemptsOf(a)
    BY <1>1, <1>2, EmptyLast DEF AttemptsInOrder
  <2> QED
    BY <1>1, <2>1, Ranks DEF AttemptsOf, Reached, Parts
<1>7. Before(a, "file")
  BY <1>2, <1>6, BeforeIs DEF Parts
<1>8. Once(b)
  <2>1. \A i \in DOMAIN b : b[i].by = "file"
    BY <1>4, AttemptIs DEF All
  <2> QED
    BY <1>4, <2>1 DEF Once, IsInjective
<1> HIDE DEF a, b, c
<1>9. Ids(c, "file") = Ids(b, "file") /\ \A m : m # "file" => Ids(c, m) = Ids(a, m)
  BY <1>2, <1>4, <1>7, PartIds DEF Parts, a, c
<1>10. /\ Once(c) /\ InOrder(c)
       /\ \A t : t \in Range(a) \/ t \in Range(b) => t \in Range(c)
  BY <1>2, <1>4, <1>6, <1>7, <1>8, PartAdded DEF Parts, a, c
<1>11. FilesIn(c)
  BY <1>4, <1>9, <1>10 DEF FilesIn
<1>12. Ids(c, "agent") = {} /\ Ids(c, "found") = {} /\ Ids(c, "password") = {}
  BY <1>6, <1>9 DEF Parts
<1>13. AttemptsOf(tried \o todo)'
  <2>1. /\ FilesIn(tried \o todo)' /\ Once(tried \o todo)' /\ InOrder(tried \o todo)'
        /\ Ids(tried \o todo, "agent")' = {} /\ Ids(tried \o todo, "found")' = {}
        /\ Ids(tried \o todo, "password")' = {}
    BY <1>1, <1>5, <1>10, <1>11, <1>12, Carried
  <2> QED
    BY <1>1, <1>6, <2>1, Ranks DEF AttemptsOf, Reached
<1> QED
  BY <1>1, <1>2, <1>4, <1>13, AttemptsInside DEF Parts, a

LEMMA AuthAgentOK ==
  ASSUME AttemptsInOrder, AuthAgent
  PROVE  AttemptsInOrder'
<1> DEFINE a == tried
           b == todo'
           c == Joined(a, b)
<1>1. /\ pc = "auth" /\ stage = "file" /\ stage' = "agent" /\ todo = <<>>
      /\ tried' = a /\ req' = req
  BY DEF AuthAgent
<1>2. a \in Seq(AttemptType) /\ req \in RequestType /\ held \in Seq(AgentKeys)
  BY DEF AttemptsInOrder
<1>3. req.keys \in Seq(KeyFiles)
  BY <1>2 DEF RequestType
<1>4. c = tried' \o todo'
  BY <1>1 DEF Joined
<1>5. /\ FilesIn(a) /\ Ids(a, "agent") = {} /\ Ids(a, "found") = {} /\ Ids(a, "password") = {}
      /\ held = <<>> /\ Once(a) /\ InOrder(a)
  <2>1. AttemptsOf(a)
    BY <1>1, <1>2, EmptyLast DEF AttemptsInOrder
  <2> QED
    BY <1>1, <2>1, Ranks DEF AttemptsOf, Reached
<1>6. Before(a, "agent") /\ NamedFirst(a)
  <2>1. \A m \in Parts : Rank("agent") <= Rank(m) => Ids(a, m) = {}
    BY <1>5, Ranks DEF Parts
  <2> QED
    BY <1>2, <1>5, <2>1, BeforeIs, NobodyFirst DEF Parts
<1>7. ASSUME b \in Seq(AttemptType), All(b, "agent"), Once(b), NamedFirst(b),
             Ids(b, "agent") = IF req.agent THEN Range(held') ELSE {},
             held' \in Seq(AgentKeys), pc' = "auth", fault' = fault
      PROVE  AttemptsInOrder'
  <2> HIDE DEF a, b, c
  <2>1. Ids(c, "agent") = Ids(b, "agent") /\ \A m : m # "agent" => Ids(c, m) = Ids(a, m)
    BY <1>2, <1>6, <1>7, PartIds DEF Parts, a, c
  <2>2. /\ Once(c) /\ InOrder(c) /\ NamedFirst(c)
        /\ \A t : t \in Range(a) \/ t \in Range(b) => t \in Range(c)
    BY <1>2, <1>5, <1>6, <1>7, PartAdded DEF Parts, a, c
  <2>3. FilesIn(c)
    BY <1>5, <2>1, <2>2 DEF FilesIn
  <2>4. /\ FilesIn(tried \o todo)' /\ Once(tried \o todo)' /\ InOrder(tried \o todo)'
        /\ NamedFirst(tried \o todo)' /\ Ids(tried \o todo, "agent")' = Ids(b, "agent")
        /\ Ids(tried \o todo, "found")' = {} /\ Ids(tried \o todo, "password")' = {}
    BY <1>1, <1>4, <1>5, <2>1, <2>2, <2>3, Carried
  <2>5. AgentIn(tried \o todo)'
    BY <1>1, <1>7, <2>4 DEF AgentIn
  <2>6. AttemptsOf(tried \o todo)'
    BY <1>1, <2>4, <2>5, Ranks DEF AttemptsOf, Reached
  <2> QED
    BY <1>1, <1>2, <1>7, <2>6, AttemptsInside DEF Parts, a, b
<1>8. CASE req.agent /\ held' \in Answers /\ UNCHANGED <<pc, fault>>
           /\ todo' = Attempts("agent", AgentOrder(held', req.keys))
  <2> DEFINE s == AgentOrder(held', req.keys)
             R == Range(held')
             h == held'
             k == req.keys
  <2>1. held' \in Seq(AgentKeys) /\ Distinct(held')
    BY <1>8, AnswersAre
  <2>2. /\ s \in Seq(AgentKeys) /\ Distinct(s)
        /\ \A e : Has(s, e) <=> Has(held', e)
        /\ \A i, j \in 1..Len(s) :
             i < j /\ (\E n \in 1..Len(req.keys) : s[j] = PubOf[req.keys[n]])
               => \E n \in 1..Len(req.keys) : s[i] = PubOf[req.keys[n]]
    <3>1. s = AgentOrder(h, k) /\ h \in Seq(AgentKeys) /\ Distinct(h) /\ k \in Seq(KeyFiles)
      BY <1>3, <2>1
    <3>2. k = req.keys /\ h = held'
      OBVIOUS
    <3> HIDE DEF s, h, k
    <3>3. /\ s \in Seq(AgentKeys) /\ Distinct(s)
          /\ \A e : Has(s, e) <=> Has(h, e)
          /\ \A i, j \in 1..Len(s) :
               i < j /\ (\E n \in 1..Len(k) : s[j] = PubOf[k[n]])
                 => \E n \in 1..Len(k) : s[i] = PubOf[k[n]]
      BY <3>1, AgentOrderIs
    <3> QED
      BY <3>2, <3>3
  <2>3. \A e : e \in NamedKeys <=> \E n \in 1..Len(req.keys) : e = PubOf[req.keys[n]]
    BY <1>3 DEF NamedKeys, Range
  <2>4. b = Attempts("agent", s)
    BY <1>8
  <2> HIDE DEF s, b
  <2>5. /\ b \in Seq(AttemptType) /\ All(b, "agent") /\ Once(b)
        /\ Len(b) = Len(s) /\ \A n \in 1..Len(b) : b[n].id = s[n]
        /\ \A v : v \in Ids(b, "agent") <=> Has(s, v)
    BY <2>2, <2>4, AttemptsIs
  <2>6. \A v : v \in R <=> Has(held', v)
    BY <2>1, HasIs
  <2>7. Ids(b, "agent") = R
    BY <2>2, <2>5, <2>6
  <2>8. NamedFirst(b)
    <3> SUFFICES ASSUME NEW i \in 1..Len(b), NEW j \in 1..Len(b), i < j, b[j].id \in NamedKeys
                 PROVE  b[i].id \in NamedKeys
      BY <2>5, AttemptIs DEF NamedFirst
    <3>1. i \in 1..Len(s) /\ j \in 1..Len(s) /\ b[i].id = s[i] /\ b[j].id = s[j]
      BY <2>5
    <3>2. \E n \in 1..Len(req.keys) : s[j] = PubOf[req.keys[n]]
      BY <2>3, <3>1
    <3>3. \E n \in 1..Len(req.keys) : s[i] = PubOf[req.keys[n]]
      BY <2>2, <3>1, <3>2
    <3> QED
      BY <2>3, <3>1, <3>3
  <2>9. Ids(b, "agent") = IF req.agent THEN Range(held') ELSE {}
    BY <1>8, <2>7
  <2>10. pc' = "auth" /\ fault' = fault
    BY <1>1, <1>8
  <2> QED
    BY <1>7, <2>1, <2>5, <2>8, <2>9, <2>10
<1>9. CASE ~req.agent /\ UNCHANGED <<pc, todo, held, fault>>
  <2>1. b = <<>> /\ pc' = "auth" /\ fault' = fault /\ held' \in Seq(AgentKeys)
    BY <1>1, <1>2, <1>9
  <2>2. <<>> \in Seq(AttemptType)
    OBVIOUS
  <2>3. All(<<>>, "agent") /\ Once(<<>>) /\ NamedFirst(<<>>) /\ Ids(<<>>, "agent") = {}
    BY DEF All, Once, NamedFirst, Ids
  <2> QED
    BY <1>7, <1>9, <2>1, <2>2, <2>3
<1>10. CASE req.agent /\ Raise("SSHException") /\ UNCHANGED <<todo, held>>
  <2>1. pc' = "failing" /\ fault' = "SSHException" /\ todo' = <<>> /\ held' = held
    BY <1>1, <1>10 DEF Raise
  <2>2. <<>> \in Seq(AttemptType)
    OBVIOUS
  <2> QED
    BY <1>1, <1>2, <2>1, <2>2, AttemptsInside DEF Parts
<1> QED
  BY <1>8, <1>9, <1>10 DEF AuthAgent

LEMMA AuthDiscoveredOK ==
  ASSUME AttemptsInOrder, AuthDiscovered
  PROVE  AttemptsInOrder'
<1> DEFINE a == tried
           b == todo'
           c == Joined(a, b)
<1>1. /\ pc = "auth" /\ pc' = "auth" /\ stage = "agent" /\ stage' = "found" /\ todo = <<>>
      /\ tried' = a /\ req' = req /\ held' = held /\ fault' = fault
      /\ present' \subseteq Range(Found)
      /\ todo' = IF req.look THEN FoundAttempts(present') ELSE <<>>
  BY DEF AuthDiscovered
<1>2. a \in Seq(AttemptType) /\ held \in Seq(AgentKeys)
  BY DEF AttemptsInOrder
<1>3. c = tried' \o todo'
  BY <1>1 DEF Joined
<1>4. /\ FilesIn(a) /\ AgentIn(a) /\ Ids(a, "found") = {} /\ Ids(a, "password") = {}
      /\ Once(a) /\ InOrder(a)
  <2>1. AttemptsOf(a)
    BY <1>1, <1>2, EmptyLast DEF AttemptsInOrder
  <2> QED
    BY <1>1, <2>1, Ranks DEF AttemptsOf, Reached
<1>5. Before(a, "found")
  <2>1. \A m \in Parts : Rank("found") <= Rank(m) => Ids(a, m) = {}
    BY <1>4, Ranks DEF Parts
  <2> QED
    BY <1>2, <2>1, BeforeIs DEF Parts
<1>6. /\ b \in Seq(AttemptType) /\ All(b, "found") /\ Once(b)
      /\ Ids(b, "found") = IF req.look THEN present' ELSE {}
  <2>1. CASE req.look
    <3> DEFINE S == Range(Found) \ present'
               s == Without(Found, S)
    <3>1. Found \in Seq(Range(Found)) /\ Distinct(Found)
      BY SshAssumption, HasIs
    <3>2. Kept(Range(Found), Found, S, Len(Found), s)
      BY <3>1, WithoutIs
    <3>3. /\ s \in Seq(Range(Found)) /\ Distinct(s)
          /\ \A e : Has(s, e) <=> Has(Found, e) /\ e \notin S
      BY <3>2 DEF Kept, Has
    <3>4. \A e : Has(Found, e) <=> e \in Range(Found)
      BY <3>1, HasIs
    <3>5. \A e : Has(s, e) <=> e \in present'
      BY <1>1, <3>3, <3>4
    <3>6. b = Attempts("found", s)
      BY <1>1, <2>1 DEF FoundAttempts
    <3> HIDE DEF s, b
    <3>7. /\ b \in Seq(AttemptType) /\ All(b, "found") /\ Once(b)
          /\ \A v : v \in Ids(b, "found") <=> Has(s, v)
      BY <3>3, <3>6, AttemptsIs
    <3> QED
      BY <2>1, <3>5, <3>7
  <2>2. CASE ~req.look
    <3>1. b = <<>>
      BY <1>1, <2>2
    <3>2. <<>> \in Seq(AttemptType)
      OBVIOUS
    <3>3. All(<<>>, "found") /\ Once(<<>>) /\ Ids(<<>>, "found") = {}
      BY DEF All, Once, Ids
    <3> QED
      BY <2>2, <3>1, <3>2, <3>3
  <2> QED
    BY <2>1, <2>2
<1> HIDE DEF a, b, c
<1>7. Ids(c, "found") = Ids(b, "found") /\ \A m : m # "found" => Ids(c, m) = Ids(a, m)
  BY <1>2, <1>5, <1>6, PartIds DEF Parts, a, c
<1>8. /\ Once(c) /\ InOrder(c) /\ NamedFirst(c)
      /\ \A t : t \in Range(a) \/ t \in Range(b) => t \in Range(c)
  <2>1. NamedFirst(a)
    BY <1>4 DEF AgentIn
  <2> QED
    BY <1>2, <1>4, <1>5, <1>6, <2>1, PartAdded DEF Parts, a, c
<1>9. FilesIn(c)
  BY <1>4, <1>7, <1>8 DEF FilesIn
<1>10. /\ FilesIn(tried \o todo)' /\ Once(tried \o todo)' /\ InOrder(tried \o todo)'
       /\ NamedFirst(tried \o todo)' /\ Ids(tried \o todo, "agent")' = Ids(a, "agent")
       /\ Ids(tried \o todo, "found")' = Ids(b, "found")
       /\ Ids(tried \o todo, "password")' = {}
  BY <1>1, <1>3, <1>4, <1>7, <1>8, <1>9, Carried
<1>11. AgentIn(tried \o todo)'
  BY <1>1, <1>4, <1>10 DEF AgentIn
<1>12. FoundIn(tried \o todo)'
  BY <1>1, <1>6, <1>10 DEF FoundIn
<1>13. AttemptsOf(tried \o todo)'
  BY <1>1, <1>10, <1>11, <1>12, Ranks DEF AttemptsOf, Reached
<1> QED
  BY <1>1, <1>2, <1>6, <1>13, AttemptsInside DEF Parts, a, b

LEMMA AuthPasswordOK ==
  ASSUME AttemptsInOrder, AuthPassword
  PROVE  AttemptsInOrder'
<1> DEFINE a == tried
           b == todo'
           c == Joined(a, b)
<1>1. /\ pc = "auth" /\ pc' = "auth" /\ stage = "found" /\ stage' = "password" /\ todo = <<>>
      /\ tried' = a /\ req' = req /\ held' = held /\ present' = present /\ fault' = fault
      /\ todo' = IF req.password THEN Attempts("password", <<None>>) ELSE <<>>
  BY DEF AuthPassword, keyVars
<1>2. a \in Seq(AttemptType) /\ held \in Seq(AgentKeys)
  BY DEF AttemptsInOrder
<1>3. c = tried' \o todo'
  BY <1>1 DEF Joined
<1>4. /\ FilesIn(a) /\ AgentIn(a) /\ FoundIn(a) /\ Ids(a, "password") = {}
      /\ Once(a) /\ InOrder(a)
  <2>1. AttemptsOf(a)
    BY <1>1, <1>2, EmptyLast DEF AttemptsInOrder
  <2> QED
    BY <1>1, <2>1, Ranks DEF AttemptsOf, Reached
<1>5. Before(a, "password")
  <2>1. \A m \in Parts : Rank("password") <= Rank(m) => Ids(a, m) = {}
    BY <1>4, Ranks DEF Parts
  <2> QED
    BY <1>2, <2>1, BeforeIs DEF Parts
<1>6. /\ b \in Seq(AttemptType) /\ All(b, "password") /\ Once(b)
      /\ Ids(b, "password") # {} <=> req.password
  <2>1. CASE req.password
    <3> DEFINE s == <<None>>
    <3>1. s \in Seq({None}) /\ Distinct(s) /\ Has(s, None)
      BY DEF Distinct, Has, Among
    <3>2. b = Attempts("password", s)
      BY <1>1, <2>1
    <3>3. {None} \subseteq KeyFiles \cup AgentKeys \cup Range(Found) \cup {None}
      OBVIOUS
    <3> HIDE DEF s, b
    <3>4. /\ b \in Seq(AttemptType) /\ All(b, "password") /\ Once(b)
          /\ \A v : v \in Ids(b, "password") <=> Has(s, v)
      BY <3>1, <3>2, <3>3, AttemptsIs
    <3> QED
      BY <2>1, <3>1, <3>4
  <2>2. CASE ~req.password
    <3>1. b = <<>>
      BY <1>1, <2>2
    <3>2. <<>> \in Seq(AttemptType)
      OBVIOUS
    <3>3. All(<<>>, "password") /\ Once(<<>>) /\ Ids(<<>>, "password") = {}
      BY DEF All, Once, Ids
    <3> QED
      BY <2>2, <3>1, <3>2, <3>3
  <2> QED
    BY <2>1, <2>2
<1> HIDE DEF a, b, c
<1>7. Ids(c, "password") = Ids(b, "password") /\ \A m : m # "password" => Ids(c, m) = Ids(a, m)
  BY <1>2, <1>5, <1>6, PartIds DEF Parts, a, c
<1>8. /\ Once(c) /\ InOrder(c) /\ NamedFirst(c)
      /\ \A t : t \in Range(a) \/ t \in Range(b) => t \in Range(c)
  <2>1. NamedFirst(a)
    BY <1>4 DEF AgentIn
  <2> QED
    BY <1>2, <1>4, <1>5, <1>6, <2>1, PartAdded DEF Parts, a, c
<1>9. FilesIn(c)
  BY <1>4, <1>7, <1>8 DEF FilesIn
<1>10. /\ FilesIn(tried \o todo)' /\ Once(tried \o todo)' /\ InOrder(tried \o todo)'
       /\ NamedFirst(tried \o todo)' /\ Ids(tried \o todo, "agent")' = Ids(a, "agent")
       /\ Ids(tried \o todo, "found")' = Ids(a, "found")
       /\ Ids(tried \o todo, "password")' = Ids(b, "password")
  BY <1>1, <1>3, <1>7, <1>8, <1>9, Carried
<1>11. AgentIn(tried \o todo)'
  BY <1>1, <1>4, <1>10 DEF AgentIn
<1>12. FoundIn(tried \o todo)'
  BY <1>1, <1>4, <1>10 DEF FoundIn
<1>13. PasswordIn(tried \o todo)'
  BY <1>1, <1>6, <1>10 DEF PasswordIn
<1>14. AttemptsOf(tried \o todo)'
  BY <1>1, <1>10, <1>11, <1>12, <1>13, Ranks DEF AttemptsOf, Reached
<1> QED
  BY <1>1, <1>2, <1>6, <1>14, AttemptsInside DEF Parts, a, b

(* An attempt made was to be made.                                         *)
LEMMA RefusedOK ==
  ASSUME AttemptsInOrder, Refused
  PROVE  AttemptsInOrder'
<1>1. /\ pc = "auth" /\ pc' = "auth" /\ stage' = stage /\ todo # <<>>
      /\ tried' = Append(tried, Head(todo)) /\ todo' = Tail(todo)
      /\ UNCHANGED <<req, held, present, fault>>
  BY DEF Refused, keyVars
<1>2. tried \in Seq(AttemptType) /\ todo \in Seq(AttemptType) /\ held \in Seq(AgentKeys)
  BY DEF AttemptsInOrder
<1>3. tried' \in Seq(AttemptType) /\ todo' \in Seq(AttemptType)
  BY <1>1, <1>2
<1>4. tried' \o todo' = tried \o todo
  BY <1>1, <1>2
<1>5. AttemptsOf(tried \o todo)
  BY <1>1 DEF AttemptsInOrder
<1> DEFINE c == tried \o todo
<1>6. c = tried' \o todo'
  BY <1>4
<1> HIDE DEF c
<1>7. /\ FilesIn(tried \o todo)' <=> FilesIn(c)
      /\ NamedFirst(tried \o todo)' <=> NamedFirst(c)
      /\ Once(tried \o todo)' <=> Once(c)
      /\ InOrder(tried \o todo)' <=> InOrder(c)
      /\ \A m : Ids(tried \o todo, m)' = Ids(c, m)
  BY <1>1, <1>6, Carried
<1>8. AgentIn(tried \o todo)' <=> AgentIn(c)
  BY <1>1, <1>7 DEF AgentIn
<1>9. FoundIn(tried \o todo)' <=> FoundIn(c)
  BY <1>1, <1>7 DEF FoundIn
<1>10. PasswordIn(tried \o todo)' <=> PasswordIn(c)
  BY <1>1, <1>7 DEF PasswordIn
<1>11. AttemptsOf(c)
  BY <1>5 DEF c
<1>12. AttemptsOf(tried \o todo)'
  BY <1>1, <1>7, <1>8, <1>9, <1>10, <1>11 DEF AttemptsOf, Reached
<1>13. stage \in Parts
  BY <1>1 DEF AttemptsInOrder, Parts
<1> QED
  BY <1>1, <1>2, <1>3, <1>12, <1>13, AttemptsInside

LEMMA AcceptedOK ==
  ASSUME AttemptsInOrder, Accepted
  PROVE  AttemptsInOrder'
<1>1. /\ pc = "auth" /\ pc' = "channels" /\ stage' = stage /\ todo # <<>>
      /\ tried' = Append(tried, Head(todo)) /\ todo' = <<>>
      /\ UNCHANGED <<req, held, fault>>
  BY DEF Accepted, keyVars
<1>2. tried \in Seq(AttemptType) /\ todo \in Seq(AttemptType) /\ held \in Seq(AgentKeys)
  BY DEF AttemptsInOrder
<1>3. tried' \in Seq(AttemptType) /\ todo' \in Seq(AttemptType)
  BY <1>1, <1>2
<1>4. stage \in Parts
  BY <1>1 DEF AttemptsInOrder, Parts
<1> QED
  BY <1>1, <1>2, <1>3, <1>4, AttemptsInside

(* After the last part all that was to be tried was tried.                 *)
LEMMA AuthFailsOK ==
  ASSUME AttemptsInOrder, AuthFails
  PROVE  AttemptsInOrder'
<1>1. /\ pc = "auth" /\ pc' = "failing" /\ stage = "password" /\ todo = <<>>
      /\ UNCHANGED <<req, stage, todo, tried, held, present>>
  BY DEF AuthFails, Raise, authVars, keyVars
<1>2. tried \in Seq(AttemptType)
  BY DEF AttemptsInOrder
<1>3. AttemptsOf(tried)
  BY <1>1, <1>2, EmptyLast DEF AttemptsInOrder
<1>4. /\ FilesIn(tried) /\ AgentIn(tried) /\ FoundIn(tried) /\ PasswordIn(tried)
      /\ Once(tried) /\ InOrder(tried)
  BY <1>1, <1>3, Ranks DEF AttemptsOf, Reached
<1>5. FilesIn(tried)' /\ FoundIn(tried)' /\ PasswordIn(tried)'
  BY <1>1, <1>4 DEF FilesIn, FoundIn, PasswordIn, Ids
<1>6. AgentIn(tried)'
  BY <1>1, <1>4 DEF AgentIn, NamedFirst, NamedKeys, Ids
<1>7. Once(tried)' /\ InOrder(tried)'
  BY <1>1, <1>4 DEF Once, InOrder
<1>8. EveryMethodTried'
  BY <1>5, <1>6, <1>7 DEF EveryMethodTried
<1> QED
  BY <1>1, <1>8 DEF AttemptsInOrder, Unopened

LEMMA AttemptsNext == AttemptsInOrder /\ [Next]_vars => AttemptsInOrder'
<1> SUFFICES ASSUME AttemptsInOrder, [Next]_vars PROVE AttemptsInOrder'
  OBVIOUS
<1> DEFINE Outside ==
             /\ UNCHANGED <<req, stage, todo, tried, held, present>>
             /\ pc' \in Unopened => pc \in Unopened
             /\ pc' = "auth" => pc \in Unopened \cup {"auth"}
             /\ fault' = "AuthenticationError" => fault' = fault /\ pc' \in {"failing", "raised"}
<1>1. Outside => AttemptsInOrder'
  BY AttemptsOutside
<1>0. fault = "AuthenticationError" => pc \in {"failing", "raised"}
  BY DEF AttemptsInOrder
<1>2. CASE AuthKeyFiles \/ AuthAgent \/ AuthDiscovered \/ AuthPassword \/ Refused \/ Accepted
           \/ AuthFails
  BY <1>2, AuthKeyFilesOK, AuthAgentOK, AuthDiscoveredOK, AuthPasswordOK, RefusedOK, AcceptedOK,
     AuthFailsOK
<1>3. CASE MissingHost \/ LoadKnownHosts \/ SocketFails \/ AddressRefuses \/ AddressAnswers
           \/ NoAddressLeft
  <2>1. Outside
    BY <1>0, <1>3 DEF MissingHost, LoadKnownHosts, SocketFails, AddressRefuses, AddressAnswers,
       NoAddressLeft, Raise, authVars, keyVars, Unopened
  <2> QED
    BY <1>1, <2>1
<1>4. CASE MakeTransport \/ Negotiated \/ NegotiationFails \/ Verify
  <2>1. Outside
    BY <1>0, <1>4 DEF MakeTransport, Negotiated, NegotiationFails, Verify, Raise, authVars,
       keyVars, Unopened
  <2> QED
    BY <1>1, <2>1
<1>5. CASE SubsystemRefused \/ OpenFails \/ SubsystemOpened \/ NoSubsystem
  <2>1. Outside
    BY <1>0, <1>5 DEF SubsystemRefused, OpenFails, SubsystemOpened, NoSubsystem, Raise, authVars,
       keyVars, Unopened
  <2> QED
    BY <1>1, <2>1
<1>6. CASE HelloDone \/ HelloFails \/ CloseFailed \/ Drop
  <2>1. Outside
    BY <1>0, <1>6 DEF HelloDone, HelloFails, CloseFailed, Drop, Raise, authVars, keyVars,
       Unopened
  <2> QED
    BY <1>1, <2>1
<1>7. CASE UNCHANGED vars
  <2>1. Outside
    BY <1>0, <1>7 DEF vars, authVars, keyVars
  <2> QED
    BY <1>1, <2>1
<1> QED
  BY <1>2, <1>3, <1>4, <1>5, <1>6, <1>7 DEF Next, Connecting

(* A login that failed has tried all the caller allowed and nothing else,  *)
(* each thing once and in the documented order, whatever keys the agent,   *)
(* the caller and the home directory have and whatever was lost meanwhile. *)
THEOREM FailedLoginsTriedAll == Spec => []EveryMethodTried
<1>1. Spec => []AttemptsInOrder
  BY AttemptsInit, AttemptsNext, PTL DEF Spec
<1>2. AttemptsInOrder => EveryMethodTried
  BY DEF AttemptsInOrder
<1> QED
  BY <1>1, <1>2, PTL

-----------------------------------------------------------------------------
(* The types of the call-home dialog and its worker                         *)

LEMMA CallHomeInitType == CallHomeInit => TypeOK
<1> SUFFICES ASSUME CallHomeInit PROVE TypeOK
  OBVIOUS
<1>1. run \in BOOLEAN /\ mgr \in BOOLEAN /\ opened \in BOOLEAN
  BY DEF CallHomeInit
<1>2. done \in Seq(BOOLEAN) /\ calls \in 0..MaxCalls
  BY CallHomeAssumption DEF CallHomeInit
<1> QED
  BY <1>1, <1>2 DEF CallHomeInit, TypeOK, WorkerPlaces

LEMMA CallHomeNextType == TypeOK /\ [CallHomeNext]_callHomeVars => TypeOK'
<1> SUFFICES ASSUME TypeOK, [CallHomeNext]_callHomeVars PROVE TypeOK'
  OBVIOUS
<1> USE CallHomeAssumption DEF TypeOK, WorkerPlaces
<1>0. CASE UNCHANGED callHomeVars
  BY <1>0 DEF callHomeVars, thread, gui
<1>1. CASE Worker
  <2>listen. CASE Listen
    BY <2>listen DEF Listen, gui
  <2>setRun. CASE SetRun
    BY <2>setRun DEF SetRun, gui
  <2>round. CASE Round
    BY <2>round DEF Round, gui
  <2>check. CASE CheckRun
    BY <2>check DEF CheckRun, gui
  <2>end. CASE EndOfRound
    BY <2>end DEF EndOfRound, gui
  <2>timesOut. CASE AcceptTimesOut
    BY <2>timesOut DEF AcceptTimesOut, gui
  <2>accept. CASE Accept
    BY <2>accept DEF Accept, gui
  <2>fails. CASE ConnectFails
    BY <2>fails DEF ConnectFails, gui
  <2>connected. CASE ConnectSucceeds
    BY <2>connected DEF ConnectSucceeds, gui
  <2>gone. CASE PeerGone
    BY <2>gone DEF PeerGone, thread, gui
  <2>found. CASE SessionFound
    BY <2>found DEF SessionFound, gui
  <2>stop. CASE StopListening
    BY <2>stop DEF StopListening, gui
  <2>emit. CASE EmitDone
    BY <2>emit DEF EmitDone, gui
  <2>ends. CASE ThreadEnds
    BY <2>ends DEF ThreadEnds, gui
  <2> QED
    BY <1>1, <2>listen, <2>setRun, <2>round, <2>check, <2>end, <2>timesOut, <2>accept,
       <2>fails, <2>connected, <2>gone, <2>found, <2>stop, <2>emit, <2>ends DEF Worker
<1>2. CASE Cancel
  BY <1>2 DEF Cancel
<1>3. CASE CancelReturns
  BY <1>3 DEF CancelReturns, thread
<1>4. CASE Escape
  BY <1>4 DEF Escape, thread
<1>5. CASE CallDone
  <2>1. done # <<>> /\ done' = Tail(done)
    BY <1>5 DEF CallDone
  <2>2. done' \in Seq(BOOLEAN)
    BY <2>1, HeadTailProperties
  <2>3. dialog' \in {"open", "closing", "leaving", "gone"}
        /\ result' \in {"rejected", "accepted"}
    BY <1>5 DEF CallDone
  <2>4. UNCHANGED <<worker, run, listening, unvisited, mgr, dismissed, cancelledAt, opened,
                    app, calls>>
    BY <1>5 DEF CallDone, thread
  <2> QED
    BY <2>2, <2>3, <2>4
<1>6. CASE ExecReturns
  <2>1. dialog' = "gone"
    BY <1>6 DEF ExecReturns
  <2>2. opened' \in BOOLEAN
    BY <1>6 DEF ExecReturns
  <2>3. UNCHANGED <<worker, run, listening, unvisited, mgr, result, done, dismissed,
                    cancelledAt, app, calls>>
    BY <1>6 DEF ExecReturns, thread
  <2> QED
    BY <2>1, <2>2, <2>3
<1> QED
  BY <1>0, <1>1, <1>2, <1>3, <1>4, <1>5, <1>6 DEF CallHomeNext

\* Every variable of the dialog and of its worker keeps its type.
THEOREM CallHomeTypeCorrect == CallHomeSpec => []TypeOK
<1>1. CallHomeInit => TypeOK
  BY CallHomeInitType
<1>2. TypeOK /\ [CallHomeNext]_callHomeVars => TypeOK'
  BY CallHomeNextType
<1> QED
  BY <1>1, <1>2, PTL DEF CallHomeSpec

-----------------------------------------------------------------------------
(* The safety of the call-home dialog                                       *)

LEMMA CallHomeInvInit == CallHomeInit => CallHomeInvariant
BY DEF CallHomeInit, CallHomeInvariant, SessionsAreFound, EndsInOrder, StopIsFinal

\* A step of the worker other than EmitDone leaves the signals alone, and only
\* Listen opens ports.
LEMMA WorkerKeepsInvariant ==
  ASSUME TypeOK, CallHomeInvariant, Worker
  PROVE  CallHomeInvariant'
<1> USE DEF TypeOK, WorkerPlaces, CallHomeInvariant, SessionsAreFound, EndsInOrder,
            StopIsFinal
<1>1. CASE Listen
  BY <1>1 DEF Listen, gui
<1>2. CASE SetRun
  BY <1>2 DEF SetRun, gui
<1>3. CASE Round
  BY <1>3 DEF Round, gui
<1>4. CASE CheckRun
  BY <1>4 DEF CheckRun, gui
<1>5. CASE EndOfRound
  BY <1>5 DEF EndOfRound, gui
<1>6. CASE AcceptTimesOut
  BY <1>6 DEF AcceptTimesOut, gui
<1>7. CASE Accept
  BY <1>7 DEF Accept, gui
<1>8. CASE ConnectFails
  BY <1>8 DEF ConnectFails, gui
<1>9. CASE ConnectSucceeds
  BY <1>9 DEF ConnectSucceeds, gui
<1>10. CASE PeerGone
  BY <1>10 DEF PeerGone, thread, gui
<1>11. CASE SessionFound
  BY <1>11 DEF SessionFound, gui
<1>12. CASE StopListening
  BY <1>12 DEF StopListening, gui
<1>13. CASE EmitDone
  <2>1. done' = Append(done, mgr) /\ mgr' = mgr /\ worker' = "idle"
    BY <1>13 DEF EmitDone
  <2>2. \A i \in 1..Len(done') : done'[i] => (i \in 1..Len(done) /\ done[i]) \/ mgr
    BY <2>1
  <2>3. SessionsAreFound'
    BY <1>13, <2>2 DEF EmitDone, gui
  <2>4. EndsInOrder' /\ StopIsFinal'
    BY <1>13 DEF EmitDone, gui
  <2> QED
    BY <2>3, <2>4
<1>14. CASE ThreadEnds
  BY <1>14 DEF ThreadEnds, gui
<1> QED
  BY <1>1, <1>2, <1>3, <1>4, <1>5, <1>6, <1>7, <1>8, <1>9, <1>10, <1>11, <1>12,
     <1>13, <1>14 DEF Worker

LEMMA CallHomeStep ==
  TypeOK /\ CallHomeInvariant /\ [CallHomeNext]_callHomeVars => CallHomeInvariant'
<1> SUFFICES ASSUME TypeOK, CallHomeInvariant, [CallHomeNext]_callHomeVars
             PROVE  CallHomeInvariant'
  OBVIOUS
<1> USE DEF TypeOK, CallHomeInvariant, SessionsAreFound, EndsInOrder, StopIsFinal
<1>0. CASE UNCHANGED callHomeVars
  BY <1>0 DEF callHomeVars, thread, gui
<1>1. CASE Worker
  BY <1>1, WorkerKeepsInvariant
<1>2. CASE Cancel
  BY <1>2 DEF Cancel
<1>3. CASE CancelReturns
  BY <1>3 DEF CancelReturns, thread
<1>4. CASE Escape
  BY <1>4 DEF Escape, thread
<1>5. CASE CallDone
  <2>1. done # <<>> /\ done' = Tail(done)
    BY <1>5 DEF CallDone
  <2>2. \A i \in 1..Len(done') : done'[i] = done[i + 1] /\ i + 1 \in 1..Len(done)
    BY <2>1
  <2>3. Head(done) => mgr
    <3>1. Head(done) = done[1] /\ 1 \in 1..Len(done)
      BY <2>1
    <3> QED
      BY <3>1
  <2>4. SessionsAreFound'
    BY <1>5, <2>2, <2>3 DEF CallDone, thread
  <2>5. EndsInOrder' /\ StopIsFinal'
    BY <1>5 DEF CallDone, thread
  <2> QED
    BY <2>4, <2>5
<1>6. CASE ExecReturns
  BY <1>6 DEF ExecReturns, thread
<1> QED
  BY <1>0, <1>1, <1>2, <1>3, <1>4, <1>5, <1>6 DEF CallHomeNext

\* The invariant of the dialog and its worker.
THEOREM CallHomeCorrect == CallHomeSpec => []CallHomeInvariant
<1>1. CallHomeInit => CallHomeInvariant
  BY CallHomeInvInit
<1>2. TypeOK /\ CallHomeInvariant /\ [CallHomeNext]_callHomeVars => CallHomeInvariant'
  BY CallHomeStep
<1> QED
  BY <1>1, <1>2, CallHomeTypeCorrect, PTL DEF CallHomeSpec

\* A cancel that reaches the worker before its last look at the flag keeps any
\* session from coming into being.
THEOREM CancelIsEffective == CallHomeSpec => []NoSessionAfterCancel
<1>1. CallHomeInvariant => NoSessionAfterCancel
  BY DEF CallHomeInvariant, StopIsFinal, NoSessionAfterCancel
<1> QED
  BY <1>1, CallHomeCorrect, PTL

\* After a cancel and after an accepted session the ports are free.
THEOREM PortsAreReleased == CallHomeSpec => []PortsReleased
<1>1. CallHomeInvariant => PortsReleased
  BY DEF CallHomeInvariant, EndsInOrder, PortsReleased
<1> QED
  BY <1>1, CallHomeCorrect, PTL
=============================================================================
