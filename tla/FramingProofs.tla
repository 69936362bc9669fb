--------------------------- MODULE FramingProofs ----------------------------
(***************************************************************************)
(* Theorems about Framing: its types, and that the messages come out as    *)
(* they were sent.  They hold for any messages, of any length, and for any *)
(* way to cut the stream into chunks and reads.                            *)
(***************************************************************************)
EXTENDS Framing, FiniteSetTheorems, FunctionTheorems, SequenceTheorems, WellFoundedInduction, TLAPS

-----------------------------------------------------------------------------
(* Least and greatest numbers                                               *)

LEMMA LessOnNat ==
  \E R : IsWellFoundedOn(R, Nat) /\ \A x, y \in Nat : y < x => <<y, x>> \in R
<1> DEFINE R == OpToRel(<, Nat)
<1>1. IsWellFoundedOn(R, Nat)
  BY NatLessThanWellFounded, Zenon
<1>2. \A x, y \in Nat : y < x => <<y, x>> \in R
  BY Zenon DEF OpToRel
<1> QED
  <2> HIDE DEF R
  <2> QED BY <1>1, <1>2

LEMMA Least ==
  ASSUME NEW S \in SUBSET Nat, S # {}
  PROVE  \E m \in S : \A i \in S : m <= i
<1>1. PICK R : IsWellFoundedOn(R, Nat) /\ \A x, y \in Nat : y < x => <<y, x>> \in R
  BY LessOnNat
<1>2. PICK m \in S : \A i \in S : ~(<<i, m>> \in R)
  BY <1>1, WFMin, Zenon
<1>3. \A i \in S : ~(i < m)
  BY <1>1, <1>2
<1> QED
  BY <1>3

LEMMA MinIs ==
  ASSUME NEW S \in SUBSET Nat, S # {}
  PROVE  Min(S) \in S /\ \A i \in S : Min(S) <= i
<1>1. \E m \in S : \A i \in S : m <= i
  BY Least
<1> QED
  BY <1>1 DEF Min

LEMMA MaxIs ==
  ASSUME NEW n \in Nat, NEW S \in SUBSET (0..n), S # {}
  PROVE  Max(S) \in S /\ \A i \in S : i <= Max(S)
<1> DEFINE T == {n - i : i \in S}
<1>0. \A i \in S : i \in Nat /\ i <= n
  OBVIOUS
<1>1. T \in SUBSET Nat /\ T # {}
  <2>1. \A i \in S : n - i \in Nat
    BY <1>0
  <2>2. \E i \in S : n - i \in T
    OBVIOUS
  <2> QED
    BY <2>1, <2>2
<1>2. PICK m \in T : \A j \in T : m <= j
  <2> HIDE DEF T
  <2> QED
    BY <1>1, Least
<1>3. PICK x \in S : m = n - x
  BY <1>2
<1>4. \A i \in S : n - x <= n - i
  BY <1>2, <1>3
<1>5. \A i \in S : i <= x
  BY <1>4
<1> QED
  BY <1>5 DEF Max

LEMMA MinIsTheLeast ==
  ASSUME NEW S, NEW m \in S, m \in Int, \A i \in S : i \in Int /\ m <= i
  PROVE  Min(S) = m
<1>1. \A x \in S : (\A i \in S : x <= i) => x = m
  OBVIOUS
<1> QED
  BY <1>1 DEF Min

LEMMA MaxOfTwo ==
  ASSUME NEW n \in Int
  PROVE  Max({0, n}) = IF n < 0 THEN 0 ELSE n
<1> DEFINE m == IF n < 0 THEN 0 ELSE n
<1>1. m \in {0, n} /\ \A y \in {0, n} : m >= y
  OBVIOUS
<1>2. \A x \in {0, n} : (\A y \in {0, n} : x >= y) => x = m
  OBVIOUS
<1> QED
  BY <1>1, <1>2 DEF Max

-----------------------------------------------------------------------------
(* Bytes                                                                    *)

LEMMA DigitsAre ==
  /\ \A n \in 1..9 : /\ Digits[n] \in Bytes
                     /\ Digits[n] \notin {"NL", "#", "]", ">", "x", "c1", "c2", "?"}
                     /\ SizeOf(Digits[n]) = n
                     /\ Digits[n] \in Range(Digits)
  /\ \A d \in Range(Digits) : d \notin {"NL", "#", "]", ">", "x", "c1", "c2", "?"}
<1>1. DOMAIN Digits = 1..9
  BY DEF Digits
<1>2. \A n \in 1..9 : Digits[n] \in Range(Digits)
  BY <1>1 DEF Range
<1>3. \A n \in 1..9 : Digits[n] \notin {"NL", "#", "]", ">", "x", "c1", "c2", "?"}
  BY DEF Digits
<1>4. \A n, k \in 1..9 : Digits[n] = Digits[k] => n = k
  BY DEF Digits
<1>5. \A n \in 1..9 : SizeOf(Digits[n]) = n
  BY <1>4 DEF SizeOf
<1>6. \A d \in Range(Digits) : \E n \in 1..9 : d = Digits[n]
  BY <1>1 DEF Range
<1> QED
  BY <1>2, <1>3, <1>5, <1>6 DEF Bytes

LEMMA FromIs ==
  ASSUME NEW S, NEW b \in Seq(S), NEW i \in 1..(Len(b) + 1)
  PROVE  /\ From(b, i) \in Seq(S)
         /\ Len(From(b, i)) = Len(b) - i + 1
         /\ \A k \in 1..(Len(b) - i + 1) : From(b, i)[k] = b[i + k - 1]
<1>1. \A k \in i..Len(b) : b[k] \in S
  BY ElementOfSeq
<1>2. i \in Int /\ Len(b) \in Int
  OBVIOUS
<1>3. /\ SubSeq(b, i, Len(b)) \in Seq(S)
      /\ Len(SubSeq(b, i, Len(b))) = IF i <= Len(b) THEN Len(b) - i + 1 ELSE 0
      /\ \A k \in 1..(Len(b) - i + 1) : SubSeq(b, i, Len(b))[k] = b[i + k - 1]
  BY <1>1, <1>2, SubSeqProperties
<1> QED
  BY <1>3 DEF From

\* A piece of a stream, from place i to place k.
LEMMA PieceIs ==
  ASSUME NEW S, NEW b \in Seq(S), NEW i \in 1..(Len(b) + 1), NEW k \in (i - 1)..Len(b)
  PROVE  /\ SubSeq(b, i, k) \in Seq(S)
         /\ Len(SubSeq(b, i, k)) = k - i + 1
         /\ \A j \in 1..(k - i + 1) : SubSeq(b, i, k)[j] = b[i + j - 1]
<1>1. \A j \in i..k : b[j] \in S
  BY ElementOfSeq
<1>2. i \in Int /\ k \in Int
  OBVIOUS
<1>3. /\ SubSeq(b, i, k) \in Seq(S)
      /\ Len(SubSeq(b, i, k)) = IF i <= k THEN k - i + 1 ELSE 0
      /\ \A j \in 1..(k - i + 1) : SubSeq(b, i, k)[j] = b[i + j - 1]
  BY <1>1, <1>2, SubSeqProperties
<1> QED
  BY <1>3

\* A read moves bytes from the wire to the buffer.
LEMMA ReadMoves ==
  ASSUME NEW b \in Seq(Bytes), NEW w \in Seq(Bytes), NEW n \in 1..Len(w)
  PROVE  /\ b \o SubSeq(w, 1, n) \in Seq(Bytes)
         /\ From(w, n + 1) \in Seq(Bytes)
         /\ Len(b \o SubSeq(w, 1, n)) = Len(b) + n
         /\ (b \o SubSeq(w, 1, n)) \o From(w, n + 1) = b \o w
<1>1. SubSeq(w, 1, n) \in Seq(Bytes) /\ Len(SubSeq(w, 1, n)) = n
  BY PieceIs
<1>2. From(w, n + 1) \in Seq(Bytes)
  BY FromIs
<1>3. (b \o SubSeq(w, 1, n)) \o From(w, n + 1) = b \o (SubSeq(w, 1, n) \o From(w, n + 1))
  BY <1>1, <1>2, ConcatAssociative
<1>4. SubSeq(w, 1, n) \o SubSeq(w, n + 1, Len(w)) = SubSeq(w, 1, Len(w))
  <2>1. 1 \in 1..(Len(w) + 1) /\ n \in (1 - 1)..Len(w) /\ Len(w) \in n..Len(w)
    OBVIOUS
  <2> QED
    BY <2>1, ConcatAdjacentSubSeq
<1>5. SubSeq(w, 1, Len(w)) = w
  BY SubSeqFull
<1> QED
  BY <1>1, <1>2, <1>3, <1>4, <1>5, ConcatProperties DEF From

LEMMA DecodeType ==
  ASSUME NEW b \in Seq(Bytes)
  PROVE  /\ Decode(b) \in Seq(Bytes)
         /\ Len(Decode(b)) = Len(b)
         /\ \A i \in 1..Len(b) : Decode(b)[i] = IF IsHalf(b, i) THEN "?" ELSE b[i]
<1>1. \A i \in 1..Len(b) : b[i] \in Bytes
  BY ElementOfSeq
<1>2. "?" \in Bytes
  BY DEF Bytes
<1>3. Decode(b) \in [1..Len(b) -> Bytes]
  BY <1>1, <1>2 DEF Decode
<1>4. Len(b) \in Nat
  OBVIOUS
<1>5. Decode(b) \in Seq(Bytes) /\ Len(Decode(b)) = Len(b)
  BY <1>3, <1>4
<1> QED
  BY <1>5 DEF Decode

LEMMA StripType ==
  ASSUME NEW b \in Seq(Bytes)
  PROVE  Strip(b) \in Seq(Bytes)
<1> DEFINE kept == {i \in 1..Len(b) : b[i] # "NL"}
<1>1. CASE kept = {}
  BY <1>1 DEF Strip
<1>2. CASE kept # {}
  <2>1. Min(kept) \in 1..Len(b)
    <3>1. kept \in SUBSET Nat /\ kept \subseteq 1..Len(b)
      OBVIOUS
    <3> HIDE DEF kept
    <3> QED
      BY <1>2, <3>1, MinIs
  <2>2. Max(kept) \in 1..Len(b)
    <3>1. kept \in SUBSET (0..Len(b)) /\ kept \subseteq 1..Len(b) /\ Len(b) \in Nat
      OBVIOUS
    <3> HIDE DEF kept
    <3> QED
      BY <1>2, <3>1, MaxIs
  <2>3. \A i \in Min(kept)..Max(kept) : b[i] \in Bytes
    <3> HIDE DEF kept
    <3>1. \A i \in Min(kept)..Max(kept) : i \in 1..Len(b)
      BY <2>1, <2>2
    <3> QED
      BY <3>1, ElementOfSeq
  <2>4. SubSeq(b, Min(kept), Max(kept)) \in Seq(Bytes)
    <3> HIDE DEF kept
    <3>1. Min(kept) \in Int /\ Max(kept) \in Int
      BY <2>1, <2>2
    <3> QED
      BY <2>3, <3>1, SubSeqProperties
  <2>5. Strip(b) = SubSeq(b, Min(kept), Max(kept))
    BY <1>2 DEF Strip
  <2> QED
    BY <2>4, <2>5
<1> QED
  BY <1>1, <1>2

-----------------------------------------------------------------------------
(* Delimiters                                                               *)

\* b has a delimiter of 1.0 at i.
DelimAt(b, i) == \A k \in 0..5 : b[i + k] = MSG_DELIM[k + 1]

LEMMA DelimIs ==
  /\ MSG_DELIM \in Seq(Bytes) /\ MSG_DELIM_LEN = 6 /\ Len(MSG_DELIM) = 6
  /\ END_DELIM \in Seq(Bytes) /\ Len(END_DELIM) = 4
  /\ \A k \in 1..6 : MSG_DELIM[k] \in {"]", ">"}
<1>1. \A i \in 1..6 : MSG_DELIM[i] \in {"]", ">"}
  BY DEF MSG_DELIM
<1>2. Len(MSG_DELIM) = 6 /\ MSG_DELIM \in Seq(Bytes)
  BY <1>1 DEF MSG_DELIM, Bytes
<1>3. \A i \in 1..4 : END_DELIM[i] \in Bytes
  BY DEF END_DELIM, Bytes
<1>4. Len(END_DELIM) = 4 /\ END_DELIM \in Seq(Bytes)
  BY <1>3 DEF END_DELIM, Bytes
<1> QED
  BY <1>1, <1>2, <1>4 DEF MSG_DELIM_LEN

\* Joined sequences of bytes.
LEMMA Joined ==
  ASSUME NEW a \in Seq(Bytes), NEW b \in Seq(Bytes)
  PROVE  /\ a \o b \in Seq(Bytes)
         /\ Len(a \o b) = Len(a) + Len(b) /\ Len(a) \in Nat /\ Len(b) \in Nat
         /\ \A i \in 1..Len(a) : (a \o b)[i] = a[i]
         /\ \A i \in 1..Len(b) : (a \o b)[Len(a) + i] = b[i]
<1>1. Len(a) \in Nat /\ Len(b) \in Nat
  OBVIOUS
<1>2. /\ a \o b \in Seq(Bytes)
      /\ Len(a \o b) = Len(a) + Len(b)
      /\ \A i \in 1..(Len(a) + Len(b)) : (a \o b)[i] = IF i <= Len(a) THEN a[i] ELSE b[i - Len(a)]
  BY ConcatProperties
<1>3. ASSUME NEW i \in 1..Len(b) PROVE (a \o b)[Len(a) + i] = b[i]
  <2>1. Len(a) + i \in 1..(Len(a) + Len(b)) /\ ~(Len(a) + i <= Len(a)) /\ Len(a) + i - Len(a) = i
    BY <1>1
  <2> QED
    BY <1>2, <2>1
<1> QED
  BY <1>1, <1>2, <1>3

LEMMA DelimsAre ==
  ASSUME NEW b \in Seq(Bytes), NEW pos \in Nat
  PROVE  DelimsFrom(b, pos) = {i \in (pos + 1)..(Len(b) - 5) : DelimAt(b, i)}
<1>1. ASSUME NEW i \in (pos + 1)..(Len(b) - 5)
      PROVE  SubSeq(b, i, i + 5) = MSG_DELIM <=> DelimAt(b, i)
  <2>1. i \in 1..(Len(b) + 1) /\ i + 5 \in (i - 1)..Len(b) /\ i \in Int
    OBVIOUS
  <2>2. /\ SubSeq(b, i, i + 5) \in Seq(Bytes)
        /\ Len(SubSeq(b, i, i + 5)) = (i + 5) - i + 1
        /\ \A j \in 1..((i + 5) - i + 1) : SubSeq(b, i, i + 5)[j] = b[i + j - 1]
    BY <2>1, PieceIs
  <2> DEFINE c == SubSeq(b, i, i + 5)
  <2>3. c \in Seq(Bytes) /\ Len(c) = 6 /\ \A j \in 1..6 : c[j] = b[i + j - 1]
    BY <2>2
  <2> HIDE DEF c
  <2>4. \A k \in 0..5 : c[k + 1] = b[i + k]
    BY <2>1, <2>3
  <2>5. CASE c = MSG_DELIM
    BY <2>4, <2>5 DEF DelimAt, c
  <2>6. CASE DelimAt(b, i)
    <3>1. \A k \in 0..5 : c[k + 1] = MSG_DELIM[k + 1]
      BY <2>4, <2>6 DEF DelimAt
    <3>2. \A j \in 1..6 : c[j] = MSG_DELIM[j]
      <4> TAKE j \in 1..6
      <4>1. j - 1 \in 0..5 /\ (j - 1) + 1 = j
        OBVIOUS
      <4> QED
        BY <3>1, <4>1
    <3>3. c = MSG_DELIM
      <4>1. MSG_DELIM \in Seq(Bytes) /\ Len(c) = Len(MSG_DELIM) /\ 1..Len(c) = 1..6
        BY <2>3, DelimIs
      <4> QED
        BY <2>3, <3>2, <4>1, SeqEqual
    <3> QED
      BY <2>6, <3>3 DEF c
  <2> QED
    BY <2>5, <2>6 DEF c
<1>2. MSG_DELIM_LEN = 6
  BY DelimIs
<1>3. \A i \in Int : i + 6 - 1 = i + 5
  OBVIOUS
<1>4. Len(b) - 6 + 1 = Len(b) - 5
  OBVIOUS
<1>5. DelimsFrom(b, pos) = {i \in (pos + 1)..(Len(b) - 5) : SubSeq(b, i, i + 5) = MSG_DELIM}
  BY <1>2, <1>3, <1>4 DEF DelimsFrom
<1> QED
  BY <1>1, <1>5

LEMMA DelimsFinite ==
  ASSUME NEW b \in Seq(Bytes), NEW pos \in Nat
  PROVE  /\ DelimsFrom(b, pos) \in SUBSET Nat
         /\ IsFiniteSet(DelimsFrom(b, pos))
         /\ Cardinality(DelimsFrom(b, pos)) \in Nat
<1> DEFINE D == {i \in (pos + 1)..(Len(b) - 5) : DelimAt(b, i)}
<1>1. D \subseteq (pos + 1)..(Len(b) - 5) /\ D \in SUBSET Nat
  OBVIOUS
<1>2. IsFiniteSet((pos + 1)..(Len(b) - 5))
  <2>1. pos + 1 \in Int /\ Len(b) - 5 \in Int
    OBVIOUS
  <2> QED
    BY <2>1, FS_Interval
<1>3. DelimsFrom(b, pos) = D
  BY DelimsAre
<1> HIDE DEF D
<1>4. IsFiniteSet(D)
  BY <1>1, <1>2, FS_Subset
<1> QED
  BY <1>1, <1>3, <1>4, FS_CardinalityType

LEMMA FirstDelim ==
  ASSUME NEW b \in Seq(Bytes), NEW pos \in Nat, DelimsFrom(b, pos) # {}
  PROVE  /\ Min(DelimsFrom(b, 0)) \in DelimsFrom(b, 0)
         /\ Min(DelimsFrom(b, 0)) \in 1..(Len(b) - 5)
         /\ \A i \in DelimsFrom(b, 0) : Min(DelimsFrom(b, 0)) <= i
<1>1. DelimsFrom(b, 0) \in SUBSET Nat /\ DelimsFrom(b, 0) \subseteq 1..(Len(b) - 5)
  BY DelimsAre, 0 \in Nat
<1>2. DelimsFrom(b, 0) # {}
  BY DelimsAre, 0 \in Nat
<1> QED
  BY <1>1, <1>2, MinIs

-----------------------------------------------------------------------------
(* Types                                                                    *)

LEMMA SizeType ==
  ASSUME NEW b, IsChunkHeader(b)
  PROVE  SizeOf(b[3]) \in 1..9 /\ b[3] = Digits[SizeOf(b[3])]
<1>1. PICK n \in 1..9 : b[3] = Digits[n]
  BY DEF IsChunkHeader, Range, Digits
<1> QED
  BY <1>1, DigitsAre

LEMMA FrameTypes ==
  ASSUME NEW m \in Payloads \cup {Hello}
  PROVE  /\ m \in Seq(Bytes) /\ m # <<>> /\ Len(m) \in Nat \ {0}
         /\ Frame10(m) \in Seq(Bytes)
         /\ Len(Frame10(m)) = Len(m) + 6
<1>1. m \in Seq(Bytes) /\ m # <<>>
  BY FramingAssumption
<1>2. Len(m) \in Nat \ {0}
  <2>1. Len(m) \in Nat
    BY <1>1, LenProperties
  <2>2. Len(m) # 0
    BY <1>1, EmptySeq
  <2> QED
    BY <2>1, <2>2
<1>3. m \o MSG_DELIM \in Seq(Bytes) /\ Len(m \o MSG_DELIM) = Len(m) + 6
  <2>1. MSG_DELIM \in Seq(Bytes) /\ Len(MSG_DELIM) = 6
    BY DelimIs
  <2>2. m \in Seq(Bytes)
    BY <1>1
  <2>3. m \o MSG_DELIM \in Seq(Bytes) /\ Len(m \o MSG_DELIM) = Len(m) + Len(MSG_DELIM)
    BY <2>1, <2>2, Joined
  <2> QED
    BY <2>1, <2>3
<1> QED
  BY <1>1, <1>2, <1>3 DEF Frame10

LEMMA HeaderIs ==
  ASSUME NEW n \in 1..9
  PROVE  /\ ChunkHeader(n) \in Seq(Bytes) /\ Len(ChunkHeader(n)) = 4
         /\ ChunkHeader(n)[1] = "NL" /\ ChunkHeader(n)[2] = "#"
         /\ ChunkHeader(n)[3] = Digits[n] /\ ChunkHeader(n)[4] = "NL"
<1>1. Digits[n] \in Bytes /\ "NL" \in Bytes /\ "#" \in Bytes
  BY DigitsAre DEF Bytes
<1> QED
  BY <1>1 DEF ChunkHeader

LEMMA ChunkSize ==
  ASSUME NEW s \in Seq(Bytes), s # <<>>, NEW n \in 1..Min({9, Len(s)})
  PROVE  n \in 1..9 /\ n \in 1..Len(s)
<1>1. Len(s) \in Nat
  OBVIOUS
<1>2. {9, Len(s)} \in SUBSET Nat /\ {9, Len(s)} # {}
  BY <1>1
<1>3. Min({9, Len(s)}) <= 9 /\ Min({9, Len(s)}) <= Len(s) /\ Min({9, Len(s)}) \in Nat
  BY <1>2, MinIs
<1> QED
  BY <1>1, <1>3

\* Only the hello and replies are sent.
LEMMA SentIs ==
  ASSUME TypeOK, NEW i \in 1..Len(sent)
  PROVE  /\ sent[i].msg \in Payloads \cup {Hello} /\ sent[i].framing \in {10, 11}
         /\ sent[i].msg \in Seq(Bytes) /\ sent[i].msg # <<>> /\ Len(sent[i].msg) \in Nat \ {0}
         /\ \A k \in 1..Len(sent[i].msg) : ~IsHalf(sent[i].msg, k)
<1>1. sent[i] \in [msg : Payloads \cup {Hello}, framing : {10, 11}]
  BY ElementOfSeq DEF TypeOK
<1> QED
  BY <1>1, FramingAssumption, FrameTypes

LEMMA InitTypes == Init => TypeOK
<1> SUFFICES ASSUME Init PROVE TypeOK
  OBVIOUS
<1>1. MaxGarbage \in Nat
  BY FramingAssumption
<1>2. <<>> \in Seq(Bytes) /\ <<>> \in Seq(Seq(Bytes))
      /\ <<>> \in Seq([msg : Payloads \cup {Hello}, framing : {10, 11}])
  BY EmptySeq
<1>3. 0 \in 0..MaxGarbage
  BY <1>1
<1> QED
  BY <1>2, <1>3 DEF Init, TypeOK

LEMMA ReadTypes == TypeOK /\ Read => TypeOK'
<1> SUFFICES ASSUME TypeOK, Read PROVE TypeOK'
  OBVIOUS
<1> USE DEF TypeOK
<1>1. PICK n \in 1..Len(wire) : /\ buffer' = buffer \o SubSeq(wire, 1, n)
                                /\ wire' = From(wire, n + 1)
  BY DEF Read
<1>2. buffer' \in Seq(Bytes) /\ wire' \in Seq(Bytes) /\ Len(buffer') = Len(buffer) + n
  BY <1>1, ReadMoves
<1>3. UNCHANGED <<parsing_pos10, message_list, remaining, connect, sent, unsent, garbage,
                  dispatched, damaged>>
      /\ at' \in {"parse10", "parse11"} /\ replaced' = FALSE
  BY DEF Read
<1> QED
  BY <1>2, <1>3 DEF connect

LEMMA Dispatch10Types == TypeOK /\ Dispatch10 => TypeOK'
<1> SUFFICES ASSUME TypeOK, Dispatch10 PROVE TypeOK'
  OBVIOUS
<1> USE DEF TypeOK
<1> DEFINE first == Min(DelimsFrom(buffer, 0))
           rest  == From(buffer, first + MSG_DELIM_LEN)
           text  == SubSeq(buffer, 1, first - 1)
<1>1. /\ dispatched' = Append(dispatched, Strip(Decode(text)))
      /\ remaining' = Decode(rest)
      /\ damaged' = IF rest # <<>> /\ Last(rest) = "c1"
                    THEN damaged \cup {MessageAtEnd(rest)} ELSE damaged
      /\ at' = "rest10"
      /\ UNCHANGED <<buffer, parsing_pos10, message_list, replaced, connect, server>>
      /\ DelimsFrom(buffer, parsing_pos10) # {}
  BY DEF Dispatch10
<1>2. first \in 1..(Len(buffer) - 5)
  BY <1>1, FirstDelim
<1> HIDE DEF first
<1>3. rest \in Seq(Bytes)
  <2>1. first + MSG_DELIM_LEN \in 1..(Len(buffer) + 1)
    BY <1>2, DelimIs
  <2> QED
    BY <2>1, FromIs
<1>4. text \in Seq(Bytes)
  <2>1. first - 1 \in (1 - 1)..Len(buffer) /\ 1 \in 1..(Len(buffer) + 1)
    BY <1>2
  <2> QED
    BY <2>1, PieceIs
<1> HIDE DEF rest, text
<1>5. dispatched' \in Seq(Seq(Bytes))
  BY <1>1, <1>4, DecodeType, StripType, AppendProperties
<1>6. remaining' \in Seq(Bytes)
  BY <1>1, <1>3, DecodeType
<1>7. damaged' \subseteq Nat
  <2>1. Cardinality(DelimsFrom(rest, 0)) \in Nat
    BY <1>3, DelimsFinite, 0 \in Nat
  <2>2. MessageAtEnd(rest) \in Nat
    BY <2>1 DEF MessageAtEnd
  <2> QED
    BY <1>1, <2>2
<1> QED
  BY <1>1, <1>5, <1>6, <1>7 DEF connect, server

LEMMA ParseTypes == TypeOK /\ Parse => TypeOK'
<1> SUFFICES ASSUME TypeOK, Parse PROVE TypeOK'
  OBVIOUS
<1>1. CASE Dispatch10
  BY <1>1, Dispatch10Types
<1> USE DEF TypeOK
<1>2. CASE Rest10
  BY <1>2, EmptySeq DEF Rest10, connect, server
<1>3. CASE KeepPosition10
  <2>1. Max({0, Len(buffer) - MSG_DELIM_LEN}) \in Nat
    <3>1. Len(buffer) - 6 \in Int /\ MSG_DELIM_LEN = 6
      BY DelimIs
    <3>2. Max({0, Len(buffer) - 6}) \in Nat
      <4> DEFINE k == Len(buffer) - 6
      <4>1. k \in Int /\ (IF k < 0 THEN 0 ELSE k) \in Nat
        BY <3>1
      <4> HIDE DEF k
      <4>2. Max({0, k}) \in Nat
        BY <4>1, MaxOfTwo
      <4> QED
        BY <4>2 DEF k
    <3> QED
      BY <3>1, <3>2
  <2>2. parsing_pos10' \in Nat
    BY <1>3, <2>1 DEF KeepPosition10
  <2> QED
    BY <1>3, <2>2 DEF KeepPosition10, connect, server
<1>4. CASE TakeChunk
  <2> DEFINE size == SizeOf(buffer[3])
  <2>1. /\ IsChunkHeader(buffer) /\ Len(buffer) >= 4 + size
        /\ message_list' = message_list \o Decode(SubSeq(buffer, 5, 4 + size))
        /\ buffer' = From(buffer, 5 + size)
        /\ UNCHANGED <<parsing_pos10, remaining, at, replaced, connect, server, dispatched,
                       damaged>>
    BY <1>4 DEF TakeChunk
  <2>2. size \in 1..9
    BY <2>1, SizeType
  <2> HIDE DEF size
  <2>3. SubSeq(buffer, 5, 4 + size) \in Seq(Bytes)
    <3>1. 5 \in 1..(Len(buffer) + 1) /\ 4 + size \in (5 - 1)..Len(buffer)
      BY <2>1, <2>2
    <3> QED
      BY <3>1, PieceIs
  <2>4. message_list' \in Seq(Bytes)
    BY <2>1, <2>3, DecodeType, ConcatProperties
  <2>5. buffer' \in Seq(Bytes)
    <3>1. 5 + size \in 1..(Len(buffer) + 1)
      BY <2>1, <2>2
    <3> QED
      BY <2>1, <3>1, FromIs
  <2> QED
    BY <2>1, <2>4, <2>5 DEF connect, server
<1>5. CASE AwaitChunk
  BY <1>5 DEF AwaitChunk, connect, server
<1>6. CASE EndOfMessage
  <2>1. /\ IsEnd(buffer) /\ message_list' = <<>> /\ buffer' = From(buffer, 5)
        /\ dispatched' = Append(dispatched, message_list)
        /\ UNCHANGED <<parsing_pos10, remaining, at, replaced, connect, server, damaged>>
    BY <1>6 DEF EndOfMessage
  <2>2. 5 \in 1..(Len(buffer) + 1)
    BY <2>1, DelimIs DEF IsEnd, IsPrefix
  <2>3. buffer' \in Seq(Bytes)
    BY <2>1, <2>2, FromIs
  <2>4. dispatched' \in Seq(Seq(Bytes))
    BY <2>1, AppendProperties
  <2> QED
    BY <2>1, <2>3, <2>4, EmptySeq DEF connect, server
<1>7. CASE NoDelimiter
  BY <1>7 DEF NoDelimiter, connect, server
<1> QED
  BY <1>1, <1>2, <1>3, <1>4, <1>5, <1>6, <1>7 DEF Parse

LEMMA ServerTypes ==
  TypeOK /\ (ServerHello \/ ServerSend \/ ServerChunk \/ ServerGarbage) => TypeOK'
<1> SUFFICES ASSUME TypeOK, ServerHello \/ ServerSend \/ ServerChunk \/ ServerGarbage
             PROVE  TypeOK'
  OBVIOUS
<1> USE DEF TypeOK
<1>1. CASE ServerHello
  <2>1. wire' \in Seq(Bytes)
    BY <1>1, FrameTypes, ConcatProperties DEF ServerHello
  <2>2. sent' \in Seq([msg : Payloads \cup {Hello}, framing : {10, 11}])
    BY <1>1 DEF ServerHello
  <2> QED
    BY <1>1, <2>1, <2>2 DEF ServerHello, parser, connect
<1>2. CASE ServerSend
  <2>1. PICK m \in Payloads :
          /\ sent' = Append(sent, [msg |-> m, framing |-> negotiated])
          /\ \/ wire' = wire \o Frame10(m) /\ unsent' = unsent
             \/ unsent' = m /\ wire' = wire
    BY <1>2 DEF ServerSend
  <2>2. wire' \in Seq(Bytes) /\ unsent' \in Seq(Bytes)
    BY <2>1, FrameTypes, ConcatProperties
  <2>3. sent' \in Seq([msg : Payloads \cup {Hello}, framing : {10, 11}])
    <3>1. [msg |-> m, framing |-> negotiated] \in [msg : Payloads \cup {Hello}, framing : {10, 11}]
      OBVIOUS
    <3> QED
      BY <2>1, <3>1, AppendProperties
  <2>4. UNCHANGED <<parser, connect, garbage, dispatched, damaged>>
    BY <1>2 DEF ServerSend
  <2> QED
    BY <2>2, <2>3, <2>4 DEF parser, connect
<1>3. CASE ServerChunk
  <2>piece. PICK n \in 1..Min({9, Len(unsent)}) :
              /\ wire' = wire \o ChunkHeader(n) \o SubSeq(unsent, 1, n)
                             \o (IF n = Len(unsent) THEN END_DELIM ELSE <<>>)
              /\ unsent' = From(unsent, n + 1)
              /\ damaged' = IF unsent[n] = "c1" THEN damaged \cup {Len(sent)} ELSE damaged
    BY <1>3 DEF ServerChunk
  <2>size. n \in 1..9 /\ n \in 1..Len(unsent)
    BY <1>3, ChunkSize DEF ServerChunk
  <2>parts. SubSeq(unsent, 1, n) \in Seq(Bytes) /\ From(unsent, n + 1) \in Seq(Bytes)
    BY <2>size, PieceIs, FromIs
  <2>delim. (IF n = Len(unsent) THEN END_DELIM ELSE <<>>) \in Seq(Bytes)
    BY DelimIs, EmptySeq
  <2>wire. wire' \in Seq(Bytes)
    BY <2>piece, <2>size, <2>parts, <2>delim, HeaderIs, ConcatProperties
  <2>6. UNCHANGED <<parser, connect, sent, garbage, dispatched>>
    BY <1>3 DEF ServerChunk
  <2>7. damaged' \subseteq Nat
    <3>1. Len(sent) \in Nat
      OBVIOUS
    <3> QED
      BY <2>piece, <3>1
  <2> QED
    BY <2>piece, <2>parts, <2>wire, <2>6, <2>7 DEF parser, connect
<1>4. CASE ServerGarbage
  <2>1. PICK g \in {"NL", "c1"} : wire' = Append(wire, g)
    BY <1>4 DEF ServerGarbage
  <2>2. wire' \in Seq(Bytes)
    <3>1. g \in Bytes
      BY DEF Bytes
    <3> QED
      BY <2>1, <3>1, AppendProperties
  <2>3. garbage' \in 0..MaxGarbage
    BY <1>4, FramingAssumption DEF ServerGarbage
  <2> QED
    BY <1>4, <2>2, <2>3 DEF ServerGarbage, parser, connect
<1> QED
  BY <1>1, <1>2, <1>3, <1>4

LEMMA NextTypes == TypeOK /\ [Next]_vars => TypeOK'
<1> SUFFICES ASSUME TypeOK, [Next]_vars PROVE TypeOK'
  OBVIOUS
<1>1. CASE UNCHANGED vars
  BY <1>1 DEF vars, parser, connect, server, TypeOK
<1>2. CASE SelectBase
  BY <1>2 DEF SelectBase, parser, server, TypeOK
<1>3. CASE ReplaceParser
  BY <1>3 DEF ReplaceParser, server, TypeOK
<1> QED
  BY <1>1, <1>2, <1>3, ReadTypes, ParseTypes, ServerTypes DEF Next

\* Every variable of the parser and of the stream keeps its type.
THEOREM StreamTypeCorrect == Spec => []TypeOK
<1>1. Init => TypeOK
  BY InitTypes
<1>2. TypeOK /\ [Next]_vars => TypeOK'
  BY NextTypes
<1> QED
  BY <1>1, <1>2, PTL DEF Spec


-----------------------------------------------------------------------------
(* The two sides and the base                                               *)

\* Chunks are looked for only in 1.1, which is selected behind the hello, and
\* before connect() returns the hello is all that was sent.
Agreed ==
  /\ at = "parse11" => base = 11
  /\ connecting = "hello" => base = 10
  /\ connecting # "hello" => base = negotiated /\ dispatched # <<>>
  /\ connecting # "done" => Len(sent) <= 1

\* What a step of the parser leaves alone.
LEMMA ParseKeeps ==
  ASSUME TypeOK, Parse
  PROVE  /\ UNCHANGED <<connect, server, replaced>>
         /\ at' = "parse11" => at = "parse11"
         /\ dispatched # <<>> => dispatched' # <<>>
<1>1. dispatched \in Seq(Seq(Bytes)) /\ dispatched' \in Seq(Seq(Bytes))
  BY ParseTypes DEF TypeOK
<1>2. ASSUME NEW x, dispatched' = Append(dispatched, x)
      PROVE  dispatched' # <<>>
  <2>1. Len(dispatched') = Len(dispatched) + 1
    BY <1>1, <1>2
  <2>2. Len(dispatched) \in Nat
    BY <1>1
  <2> QED
    BY <2>1, <2>2
<1>3. CASE Dispatch10 \/ EndOfMessage
  <2>1. \E x : dispatched' = Append(dispatched, x)
    BY <1>3 DEF Dispatch10, EndOfMessage
  <2> QED
    BY <1>2, <1>3, <2>1 DEF Dispatch10, EndOfMessage
<1>4. CASE Rest10 \/ KeepPosition10 \/ TakeChunk \/ AwaitChunk \/ NoDelimiter
  BY <1>4 DEF Rest10, KeepPosition10, TakeChunk, AwaitChunk, NoDelimiter
<1> QED
  BY <1>3, <1>4 DEF Parse

LEMMA AgreedNext == TypeOK /\ Agreed /\ [Next]_vars => Agreed'
<1> SUFFICES ASSUME TypeOK, Agreed, [Next]_vars PROVE Agreed'
  OBVIOUS
<1> USE DEF Agreed
<1>1. CASE UNCHANGED vars
  BY <1>1 DEF vars, parser, connect, server
<1>2. CASE Read
  BY <1>2 DEF Read, connect
<1>3. CASE Parse
  BY <1>3, ParseKeeps DEF connect, server
<1>4. CASE SelectBase
  BY <1>4 DEF SelectBase, parser, server, TypeOK
<1>5. CASE ReplaceParser
  BY <1>5 DEF ReplaceParser, server
<1>6. CASE ServerHello
  <2>1. Len(sent') = 1
    BY <1>6 DEF ServerHello
  <2>2. UNCHANGED <<at, base, connecting, negotiated, dispatched>>
    BY <1>6 DEF ServerHello, parser, connect
  <2> QED
    BY <2>1, <2>2
<1>7. CASE ServerSend
  BY <1>7 DEF ServerSend, parser, connect
<1>8. CASE ServerChunk \/ ServerGarbage
  BY <1>8 DEF ServerChunk, ServerGarbage, parser, connect
<1> QED
  BY <1>1, <1>2, <1>3, <1>4, <1>5, <1>6, <1>7, <1>8 DEF Next

\* The position stays in the buffer while messages are delimited.
LEMMA PositionNext ==
  TypeOK /\ Agreed /\ PositionValid /\ [Next]_vars => PositionValid'
<1> SUFFICES ASSUME TypeOK, Agreed, PositionValid, [Next]_vars, (base = 10)'
             PROVE  parsing_pos10' <= Len(buffer')
  BY DEF PositionValid
<1> USE DEF PositionValid
<1>0. Len(buffer) \in Nat /\ parsing_pos10 \in Nat /\ Len(buffer') \in Nat
  BY NextTypes DEF TypeOK
<1>1. CASE UNCHANGED vars
  BY <1>1 DEF vars, parser, connect
<1>2. CASE Read
  <2>1. PICK n \in 1..Len(wire) : buffer' = buffer \o SubSeq(wire, 1, n)
    BY <1>2 DEF Read
  <2>2. Len(buffer') = Len(buffer) + n
    BY <2>1, ReadMoves DEF TypeOK
  <2> QED
    BY <1>0, <1>2, <2>2 DEF Read, connect
<1>3. CASE Rest10
  BY <1>0, <1>3 DEF Rest10
<1>4. CASE KeepPosition10
  <2> DEFINE k == Len(buffer) - 6
  <2>1. k \in Int /\ MSG_DELIM_LEN = 6
    BY DelimIs, <1>0
  <2>2. (IF k < 0 THEN 0 ELSE k) <= Len(buffer)
    BY <1>0
  <2>3. parsing_pos10' = IF replaced THEN parsing_pos10 ELSE Max({0, k})
    BY <1>4, <2>1 DEF KeepPosition10
  <2>4. buffer' = buffer /\ base' = base
    BY <1>4 DEF KeepPosition10, connect
  <2> HIDE DEF k
  <2>5. Max({0, k}) <= Len(buffer)
    BY <2>1, <2>2, MaxOfTwo
  <2> QED
    BY <2>3, <2>4, <2>5
<1>5. CASE Dispatch10 \/ AwaitChunk \/ NoDelimiter
  BY <1>5 DEF Dispatch10, AwaitChunk, NoDelimiter, connect
<1>6. CASE TakeChunk \/ EndOfMessage
  BY <1>6 DEF Agreed, TakeChunk, EndOfMessage, connect
<1>7. CASE SelectBase
  BY <1>7 DEF SelectBase, parser, Agreed
<1>8. CASE ReplaceParser
  BY <1>0, <1>8 DEF ReplaceParser
<1>9. CASE ServerHello \/ ServerSend \/ ServerChunk \/ ServerGarbage
  BY <1>9 DEF ServerHello, ServerSend, ServerChunk, ServerGarbage, parser, connect
<1> QED
  BY <1>1, <1>2, <1>3, <1>4, <1>5, <1>6, <1>7, <1>8, <1>9 DEF Next, Parse

-----------------------------------------------------------------------------
(* The inductive invariant                                                  *)

\* What is sent and neither dispatched nor, in 1.1, taken into message_list.
Rest == (IF at = "rest10" THEN remaining ELSE buffer) \o wire

\* From the hello on the stream is one of chunks.
Chunked == negotiated = 11 /\ dispatched # <<>>

Msg(i) == sent[i].msg

\* R is the messages d + 1 to n, each with its delimiter; message i ends at p[i],
\* a place in the whole stream, and R begins at p[d].
Cut(p, d, n, R) ==
  /\ p \in [d..n -> Nat]
  /\ p[n] = p[d] + Len(R)
  /\ \A i, j \in d..n : i < j => p[i] + 6 <= p[j]
  /\ \A i \in 1..(Len(R) - 5) :
       DelimAt(R, i) <=> \E j \in (d + 1)..n : i = p[j] - p[d] - 5

\* Between the places a and z, R is m, perhaps without newlines at its beginning.
Holds(R, a, z, m) ==
  \E d \in 0..Len(m) :
    /\ \A i \in 1..d : m[i] = "NL"
    /\ z = a + Len(m) - d
    /\ \A i \in 1..(Len(m) - d) : R[a + i] = m[d + i]

\* The messages between the delimiters are those to be dispatched.
Delimited(p) ==
  LET d == Len(dispatched) IN
    /\ Cut(p, d, Len(sent), Rest)
    /\ \A j \in (d + 1)..Len(sent) :
         j \notin damaged => Holds(Rest, p[j - 1] - p[d], p[j] - p[d] - 6, Msg(j))

\* While messages are delimited: the search misses none, and the thread waits
\* only if there is none.
Searching ==
  /\ Len(dispatched) <= Len(sent)
  /\ message_list = <<>> /\ unsent = <<>>
  /\ at \in {"select", "parse10", "rest10"}
  /\ parsing_pos10 = 0 \/ parsing_pos10 + 6 <= Len(buffer)
  /\ at = "parse10" => \A i \in 1..(Len(buffer) - 5) : DelimAt(buffer, i) => i > parsing_pos10
  /\ at = "select" => \A i \in 1..(Len(buffer) - 5) : ~DelimAt(buffer, i)

\* A mark is a place between two chunks: p is its place in the stream, m is the
\* message and o the number of its bytes before the mark.
Mark == [p : Nat, m : Nat, o : Nat]

\* Between the marks k and l, R has a chunk or the end of the message m; R begins
\* at place b.
IsChunk(R, b, k, l, m) ==
  /\ l.m = k.m /\ k.o < l.o /\ l.o - k.o <= 9 /\ l.p = k.p + 4 + (l.o - k.o)
  /\ R[k.p - b + 1] = "NL" /\ R[k.p - b + 2] = "#"
  /\ R[k.p - b + 3] = Digits[l.o - k.o] /\ R[k.p - b + 4] = "NL"
  /\ \A i \in 1..(l.o - k.o) : R[k.p - b + 4 + i] = m[k.o + i]

IsLast(R, b, k, l, m) ==
  /\ l.m = k.m + 1 /\ k.o = Len(m) /\ l.o = 0 /\ l.p = k.p + 4
  /\ R[k.p - b + 1] = "NL" /\ R[k.p - b + 2] = "#"
  /\ R[k.p - b + 3] = "#" /\ R[k.p - b + 4] = "NL"

IsPiece(R, b, k, l, m) == IsChunk(R, b, k, l, m) \/ IsLast(R, b, k, l, m)

\* A mark in message k.m; no character that is not damaged is cut by it.
IsMark(k) ==
  /\ 1 < k.m
  /\ IF k.m <= Len(sent)
     THEN /\ k.o <= Len(Msg(k.m))
          /\ k.m \notin damaged /\ k.o > 0 => Msg(k.m)[k.o] # "c1"
     ELSE k.m = Len(sent) + 1 /\ k.o = 0

\* The marks ks cut R into chunks and ends.
Marked(ks, R) ==
  /\ ks \in Seq(Mark) /\ ks # <<>>
  /\ ks[Len(ks)].p = ks[1].p + Len(R)
  /\ \A j \in 1..Len(ks) : IsMark(ks[j])
  /\ \A i, j \in 1..Len(ks) : i <= j => ks[i].p <= ks[j].p /\ ks[i].m <= ks[j].m
  /\ \A j \in 1..(Len(ks) - 1) :
       ks[j].m <= Len(sent) /\ IsPiece(R, ks[1].p, ks[j], ks[j + 1], Msg(ks[j].m))

\* The first mark is as far as the parser has come.
Taken(k) ==
  /\ k.m = Len(dispatched) + 1
  /\ k.o = 0 => message_list = <<>>
  /\ k.m \notin damaged /\ k.o > 0 => message_list = SubSeq(Msg(k.m), 1, k.o)

\* The last mark is as far as the server has come.
Written(k) ==
  IF unsent = <<>> THEN k.m = Len(sent) + 1
  ELSE k.m = Len(sent) /\ unsent = From(Msg(k.m), k.o + 1)

InChunks(ks) ==
  /\ Marked(ks, Rest)
  /\ Taken(ks[1])
  /\ Written(ks[Len(ks)])
  /\ at = "select" /\ Len(ks) > 1 => ks[2].p > ks[1].p + Len(buffer)

\* While messages come in chunks: nothing is sent before connect() is done.
Listening ==
  /\ at \in {"select", "rest10", "parse11"}
  /\ at = "rest10" => remaining = <<>>
  /\ connecting # "done" => Rest = <<>> /\ unsent = <<>>

\* How the messages were framed, and what was dispatched.
DispatchedIntact ==
  /\ \A i \in 1..Len(sent) : sent[i].framing = IF i = 1 THEN 10 ELSE negotiated
  /\ \A i \in 1..Len(dispatched) : i \notin damaged => dispatched[i] = Expected(i)

Stream ==
  /\ DispatchedIntact
  /\ IF Chunked THEN Listening /\ \E ks : InChunks(ks)
     ELSE Searching /\ \E p : Delimited(p)

\* A stray byte is no part of the stream that the rest speaks of.
StreamInv == TypeOK /\ Agreed /\ PositionValid /\ (garbage = 0 => Stream)

-----------------------------------------------------------------------------
(* Cutting a stream at its delimiters                                       *)

\* What follows b makes no delimiter in b.
LEMMA PrefixDelims ==
  ASSUME NEW b \in Seq(Bytes), NEW w \in Seq(Bytes), NEW i \in 1..(Len(b) - 5)
  PROVE  DelimAt(b \o w, i) <=> DelimAt(b, i)
<1>1. \A k \in 1..Len(b) : (b \o w)[k] = b[k]
  BY ConcatProperties
<1>2. \A k \in 0..5 : i + k \in 1..Len(b)
  OBVIOUS
<1>3. \A k \in 0..5 : (b \o w)[i + k] = b[i + k]
  BY <1>1, <1>2
<1> QED
  BY <1>3 DEF DelimAt

LEMMA OnlyDelims ==
  ASSUME NEW m \in Seq(Bytes), IsDelimited(m)
  PROVE  LET X == MSG_DELIM \o m \o MSG_DELIM
         IN  /\ X \in Seq(Bytes) /\ Len(X) = Len(m) + 12
             /\ \A i \in 1..6 : X[i] = MSG_DELIM[i] /\ X[Len(m) + 6 + i] = MSG_DELIM[i]
             /\ \A i \in 1..Len(m) : X[6 + i] = m[i]
             /\ \A i \in 1..(Len(m) + 7) : DelimAt(X, i) <=> i = 1 \/ i = Len(m) + 7
<1> DEFINE Y == MSG_DELIM \o m
           X == Y \o MSG_DELIM
<1>0. MSG_DELIM \in Seq(Bytes) /\ Len(MSG_DELIM) = 6 /\ MSG_DELIM_LEN = 6
  BY DelimIs
<1>1. /\ Y \in Seq(Bytes) /\ Len(Y) = 6 + Len(m) /\ Len(m) \in Nat
      /\ \A i \in 1..6 : Y[i] = MSG_DELIM[i]
      /\ \A i \in 1..Len(m) : Y[6 + i] = m[i]
  <2>1. /\ Y \in Seq(Bytes)
        /\ Len(Y) = Len(MSG_DELIM) + Len(m) /\ Len(MSG_DELIM) \in Nat /\ Len(m) \in Nat
        /\ \A i \in 1..Len(MSG_DELIM) : Y[i] = MSG_DELIM[i]
        /\ \A i \in 1..Len(m) : Y[Len(MSG_DELIM) + i] = m[i]
    BY <1>0, Joined
  <2> HIDE DEF Y
  <2> QED
    BY <1>0, <2>1
<1> HIDE DEF Y
<1>2. /\ X \in Seq(Bytes) /\ Len(X) = Len(Y) + 6
      /\ \A i \in 1..Len(Y) : X[i] = Y[i]
      /\ \A i \in 1..6 : X[Len(Y) + i] = MSG_DELIM[i]
  <2>1. /\ X \in Seq(Bytes)
        /\ Len(X) = Len(Y) + Len(MSG_DELIM)
        /\ \A i \in 1..Len(Y) : X[i] = Y[i]
        /\ \A i \in 1..Len(MSG_DELIM) : X[Len(Y) + i] = MSG_DELIM[i]
    BY <1>0, <1>1, Joined
  <2> HIDE DEF X
  <2> QED
    BY <1>0, <2>1
<1> HIDE DEF X
<1>3. \A i \in 1..6 : X[i] = MSG_DELIM[i] /\ X[Len(m) + 6 + i] = MSG_DELIM[i]
  <2> TAKE i \in 1..6
  <2>1. i \in 1..Len(Y) /\ Len(m) + 6 + i = Len(Y) + i
    BY <1>1
  <2> QED
    BY <1>1, <1>2, <2>1
<1>4. \A i \in 1..Len(m) : X[6 + i] = m[i]
  <2> TAKE i \in 1..Len(m)
  <2>1. 6 + i \in 1..Len(Y)
    BY <1>1
  <2> QED
    BY <1>1, <1>2, <2>1
<1>5. DelimsFrom(X, 0) = {1, Len(m) + 7}
  <2>1. MSG_DELIM_LEN + Len(m) + 1 = Len(m) + 7
    BY <1>0, <1>1
  <2> QED
    BY <2>1 DEF IsDelimited, X, Y
<1>6. DelimsFrom(X, 0) = {i \in (0 + 1)..(Len(X) - 5) : DelimAt(X, i)}
  BY <1>2, DelimsAre, 0 \in Nat
<1>7. Len(X) = Len(m) + 12
  BY <1>1, <1>2
<1>8. \A i \in 1..(Len(m) + 7) : DelimAt(X, i) <=> i = 1 \/ i = Len(m) + 7
  <2> TAKE i \in 1..(Len(m) + 7)
  <2>1. i \in (0 + 1)..(Len(X) - 5)
    BY <1>1, <1>7
  <2>2. i \in DelimsFrom(X, 0) <=> DelimAt(X, i)
    BY <1>6, <2>1
  <2> QED
    BY <1>5, <2>2
<1> QED
  BY <1>2, <1>3, <1>4, <1>7, <1>8 DEF X, Y

\* One message more with its delimiter.
LEMMA CutMore ==
  ASSUME NEW R \in Seq(Bytes), NEW d \in Nat, NEW n \in Nat, d <= n,
         NEW p, Cut(p, d, n, R),
         NEW m \in Seq(Bytes), IsDelimited(m)
  PROVE  /\ R \o (m \o MSG_DELIM) \in Seq(Bytes)
         /\ \A i \in 1..Len(R) : (R \o (m \o MSG_DELIM))[i] = R[i]
         /\ \A i \in 1..Len(m) : (R \o (m \o MSG_DELIM))[Len(R) + i] = m[i]
         /\ \E q : /\ Cut(q, d, n + 1, R \o (m \o MSG_DELIM))
                  /\ \A j \in d..n : q[j] = p[j]
                  /\ q[n + 1] = p[n] + Len(m) + 6
<1> DEFINE X  == MSG_DELIM \o m \o MSG_DELIM
           M  == m \o MSG_DELIM
           R2 == R \o M
<1>0. MSG_DELIM \in Seq(Bytes) /\ Len(MSG_DELIM) = 6 /\ Len(m) \in Nat /\ Len(R) \in Nat
  BY DelimIs
<1>1. /\ \A i \in 1..6 : X[i] = MSG_DELIM[i] /\ X[Len(m) + 6 + i] = MSG_DELIM[i]
      /\ \A i \in 1..Len(m) : X[6 + i] = m[i]
      /\ \A i \in 1..(Len(m) + 7) : DelimAt(X, i) <=> i = 1 \/ i = Len(m) + 7
  BY OnlyDelims
<1> HIDE DEF X
<1>2. /\ M \in Seq(Bytes) /\ Len(M) = Len(m) + 6
      /\ \A i \in 1..Len(m) : M[i] = m[i]
      /\ \A i \in 1..6 : M[Len(m) + i] = MSG_DELIM[i]
  <2>1. /\ M \in Seq(Bytes)
        /\ Len(M) = Len(m) + Len(MSG_DELIM)
        /\ \A i \in 1..Len(m) : M[i] = m[i]
        /\ \A i \in 1..Len(MSG_DELIM) : M[Len(m) + i] = MSG_DELIM[i]
    BY <1>0, Joined
  <2> HIDE DEF M
  <2> QED
    BY <1>0, <2>1
<1> HIDE DEF M
<1>3. /\ R2 \in Seq(Bytes) /\ Len(R2) = Len(R) + Len(M)
      /\ \A i \in 1..Len(R) : R2[i] = R[i]
      /\ \A i \in 1..Len(M) : R2[Len(R) + i] = M[i]
  BY <1>0, <1>2, Joined
<1> HIDE DEF R2
<1>4. Len(R2) = Len(R) + Len(m) + 6
  BY <1>0, <1>2, <1>3
<1>5. \A i \in 1..(Len(m) + 6) : R2[Len(R) + i] = X[6 + i]
  <2> TAKE i \in 1..(Len(m) + 6)
  <2>1. R2[Len(R) + i] = M[i]
    BY <1>2, <1>3
  <2>2. CASE i <= Len(m)
    <3>1. i \in 1..Len(m)
      BY <1>0, <2>2
    <3> QED
      BY <1>1, <1>2, <2>1, <3>1
  <2>3. CASE ~(i <= Len(m))
    <3> DEFINE e == i - Len(m)
    <3>1. e \in 1..6 /\ Len(m) + 6 + e = 6 + i /\ Len(m) + e = i
      BY <1>0, <2>3
    <3> HIDE DEF e
    <3> QED
      BY <1>1, <1>2, <2>1, <3>1
  <2> QED
    BY <2>2, <2>3
<1>6. \A i \in 1..Len(m) : R2[Len(R) + i] = m[i]
  <2> TAKE i \in 1..Len(m)
  <2>1. i \in 1..Len(M)
    BY <1>0, <1>2
  <2> QED
    BY <1>2, <1>3, <2>1
<1>7. /\ p \in [d..n -> Nat] /\ p[n] = p[d] + Len(R)
      /\ \A i, j \in d..n : i < j => p[i] + 6 <= p[j]
      /\ \A i \in 1..(Len(R) - 5) : DelimAt(R, i) <=> \E j \in (d + 1)..n : i = p[j] - p[d] - 5
  BY DEF Cut
<1>8. \A j \in d..n : p[j] \in Nat
  BY <1>7
<1>9. PICK q : /\ q \in [d..(n + 1) -> Nat] /\ \A j \in d..n : q[j] = p[j]
               /\ q[n + 1] = p[n] + Len(m) + 6
  <2> DEFINE f == [j \in d..(n + 1) |-> IF j = n + 1 THEN p[n] + Len(m) + 6 ELSE p[j]]
  <2>1. p[n] + Len(m) + 6 \in Nat
    <3>1. n \in d..n
      OBVIOUS
    <3> QED
      BY <1>0, <1>8, <3>1
  <2>2. \A j \in d..(n + 1) : (IF j = n + 1 THEN p[n] + Len(m) + 6 ELSE p[j]) \in Nat
    BY <1>8, <2>1
  <2>3. f \in [d..(n + 1) -> Nat]
    BY <2>2
  <2>4. \A j \in d..n : f[j] = p[j]
    OBVIOUS
  <2>5. f[n + 1] = p[n] + Len(m) + 6
    OBVIOUS
  <2> QED
    BY <2>3, <2>4, <2>5
<1>10. q[n + 1] = q[d] + Len(R2)
  <2>1. p[n] \in Nat /\ p[d] \in Nat /\ q[d] = p[d]
    BY <1>8, <1>9
  <2> QED
    BY <1>0, <1>4, <1>7, <1>9, <2>1
<1>11. \A i, j \in d..(n + 1) : i < j => q[i] + 6 <= q[j]
  <2> SUFFICES ASSUME NEW i \in d..(n + 1), NEW j \in d..(n + 1), i < j
               PROVE  q[i] + 6 <= q[j]
    OBVIOUS
  <2>0. i \in d..n /\ q[i] = p[i] /\ p[i] \in Nat
    BY <1>8, <1>9
  <2>1. CASE j <= n
    <3>1. j \in d..n
      BY <2>1
    <3> QED
      BY <1>7, <1>9, <2>0, <3>1
  <2>2. CASE j = n + 1
    <3>1. n \in d..n /\ p[n] \in Nat
      BY <1>8
    <3>2. i < n => p[i] + 6 <= p[n]
      BY <1>7, <2>0, <3>1
    <3>3. i < n \/ i = n
      BY <2>0
    <3>4. p[i] <= p[n]
      BY <2>0, <3>1, <3>2, <3>3
    <3> QED
      BY <1>0, <1>9, <2>0, <2>2, <3>1, <3>4
  <2> QED
    BY <2>1, <2>2
\* Where R ends, a delimiter ends.
<1>12. d < n => /\ Len(R) >= 6 /\ \A k \in 1..6 : R[Len(R) - 6 + k] = MSG_DELIM[k]
  <2> SUFFICES ASSUME d < n PROVE /\ Len(R) >= 6
                                  /\ \A k \in 1..6 : R[Len(R) - 6 + k] = MSG_DELIM[k]
    OBVIOUS
  <2>1. Len(R) >= 6
    BY <1>0, <1>7, <1>8
  <2>2. Len(R) - 5 \in 1..(Len(R) - 5) /\ n \in (d + 1)..n /\ Len(R) - 5 = p[n] - p[d] - 5
    BY <1>0, <1>7, <1>8, <2>1
  <2>3. DelimAt(R, Len(R) - 5)
    BY <1>7, <2>2
  <2>4. ASSUME NEW k \in 1..6 PROVE R[Len(R) - 6 + k] = MSG_DELIM[k]
    <3>1. k - 1 \in 0..5 /\ (k - 1) + 1 = k /\ Len(R) - 5 + (k - 1) = Len(R) - 6 + k
      BY <1>0
    <3> QED
      BY <2>3, <3>1 DEF DelimAt
  <2> QED
    BY <2>1, <2>4
<1>13. \A k \in (Len(R) - 5)..(Len(R2)) : k >= 1 /\ (d < n \/ k > Len(R)) => R2[k] = X[k - Len(R) + 6]
  <2> SUFFICES ASSUME NEW k \in (Len(R) - 5)..(Len(R2)), k >= 1, d < n \/ k > Len(R)
               PROVE  R2[k] = X[k - Len(R) + 6]
    OBVIOUS
  <2>1. CASE k > Len(R)
    <3> DEFINE e == k - Len(R)
    <3>1. e \in 1..(Len(m) + 6) /\ Len(R) + e = k /\ k - Len(R) + 6 = 6 + e
      BY <1>0, <1>4, <2>1
    <3> HIDE DEF e
    <3> QED
      BY <1>5, <3>1
  <2>2. CASE k <= Len(R)
    <3> DEFINE e == k - Len(R) + 6
    <3>0. k \in Int /\ Len(R) - 5 <= k /\ k \in 1..Len(R)
      BY <1>0, <1>4, <2>2
    <3>1. e \in 1..6 /\ Len(R) - 6 + e = k /\ k \in 1..Len(R)
      BY <1>0, <2>2, <3>0
    <3>4. d < n
      BY <1>0, <3>0
    <3> HIDE DEF e
    <3>2. R2[k] = MSG_DELIM[e] /\ X[e] = MSG_DELIM[e]
      BY <1>1, <1>3, <1>12, <3>1, <3>4
    <3> QED
      BY <3>2 DEF e
  <2> QED
    BY <1>0, <2>1, <2>2
<1>14. d = n => Len(R) = 0
  BY <1>0, <1>7, <1>8
<1>15. ASSUME NEW i \in 1..(Len(R2) - 5)
       PROVE  DelimAt(R2, i) <=> \E j \in (d + 1)..(n + 1) : i = q[j] - q[d] - 5
  <2>1. q[n + 1] - q[d] - 5 = Len(R) + Len(m) + 1
    BY <1>0, <1>4, <1>8, <1>9, <1>10
  <2>2. (\E j \in (d + 1)..(n + 1) : i = q[j] - q[d] - 5) <=>
          (\E j \in (d + 1)..n : i = p[j] - p[d] - 5) \/ i = Len(R) + Len(m) + 1
    <3>1. \A j \in (d + 1)..(n + 1) : j \in (d + 1)..n \/ j = n + 1
      OBVIOUS
    <3>2. \A j \in (d + 1)..n : q[j] = p[j] /\ j \in (d + 1)..(n + 1)
      BY <1>9
    <3>3. q[d] = p[d] /\ n + 1 \in (d + 1)..(n + 1)
      BY <1>9
    <3> QED
      BY <2>1, <3>1, <3>2, <3>3
  <2>3. CASE i \in 1..(Len(R) - 5)
    <3>1. DelimAt(R2, i) <=> DelimAt(R, i)
      BY <1>2, <2>3, PrefixDelims DEF R2
    <3>2. i # Len(R) + Len(m) + 1
      BY <1>0, <2>3
    <3> QED
      BY <1>7, <2>2, <2>3, <3>1, <3>2
  <2>4. CASE i > Len(R) - 5
    <3>1. ~\E j \in (d + 1)..n : i = p[j] - p[d] - 5
      <4> SUFFICES ASSUME NEW j \in (d + 1)..n, i = p[j] - p[d] - 5 PROVE FALSE
        OBVIOUS
      <4>1. p[j] <= p[n]
        BY <1>7, <1>8
      <4> QED
        BY <1>0, <1>7, <1>8, <2>4, <4>1
    <3> DEFINE k == i - Len(R) + 6
    <3>2. k \in 1..(Len(m) + 7) /\ k \in Int /\ k > 1
      BY <1>0, <1>4, <2>4
    <3>3. ASSUME NEW e \in 0..5
          PROVE  /\ i + e \in (Len(R) - 5)..Len(R2) /\ i + e >= 1
                 /\ d < n \/ i + e > Len(R)
                 /\ (i + e) - Len(R) + 6 = k + e
      BY <1>0, <1>4, <1>14, <2>4
    <3> HIDE DEF k
    <3>4. \A e \in 0..5 : R2[i + e] = X[k + e]
      BY <1>13, <3>3
    <3>6. DelimAt(R2, i) <=> DelimAt(X, k)
      BY <3>4 DEF DelimAt
    <3>7. DelimAt(X, k) <=> k = Len(m) + 7
      <4>1. DelimAt(X, k) <=> k = 1 \/ k = Len(m) + 7
        BY <1>1, <3>2
      <4> QED
        BY <3>2, <4>1
    <3>8. k = Len(m) + 7 <=> i = Len(R) + Len(m) + 1
      <4>1. i \in Int /\ Len(R) \in Int /\ Len(m) \in Int
        BY <1>0
      <4>3. \A a, b, c \in Int : a - b + 6 = c + 7 <=> a = b + c + 1
        OBVIOUS
      <4>2. i - Len(R) + 6 = Len(m) + 7 <=> i = Len(R) + Len(m) + 1
        BY <4>1, <4>3
      <4> QED
        BY <4>2 DEF k
    <3> QED
      BY <2>2, <3>1, <3>6, <3>7, <3>8
  <2> QED
    BY <1>0, <2>3, <2>4
<1>16. Cut(q, d, n + 1, R2)
  BY <1>9, <1>10, <1>11, <1>15 DEF Cut
<1>17. \E r : /\ Cut(r, d, n + 1, R2) /\ \A j \in d..n : r[j] = p[j]
              /\ r[n + 1] = p[n] + Len(m) + 6
  BY <1>9, <1>16
<1> QED
  BY <1>3, <1>6, <1>17 DEF R2, M

\* The first delimiter in what was read is the end of the first message.
LEMMA FirstOfCut ==
  ASSUME NEW b \in Seq(Bytes), NEW w \in Seq(Bytes), NEW d \in Nat, NEW n \in Nat,
         NEW p \in [d..n -> Nat], Cut(p, d, n, b \o w),
         NEW pos \in Nat, DelimsFrom(b, pos) # {}
  PROVE  /\ d < n
         /\ p[d] \in Nat /\ p[d + 1] \in Nat
         /\ Min(DelimsFrom(b, 0)) = p[d + 1] - p[d] - 5
         /\ p[d] + 6 <= p[d + 1] /\ p[d + 1] - p[d] <= Len(b)
<1> DEFINE first == Min(DelimsFrom(b, 0))
<1>1. /\ first \in DelimsFrom(b, 0) /\ first \in 1..(Len(b) - 5)
      /\ \A i \in DelimsFrom(b, 0) : first <= i
  BY FirstDelim
<1> HIDE DEF first
<1>2. DelimsFrom(b, 0) = {i \in (0 + 1)..(Len(b) - 5) : DelimAt(b, i)}
  BY DelimsAre, 0 \in Nat
<1>3. /\ b \o w \in Seq(Bytes) /\ Len(b \o w) = Len(b) + Len(w)
      /\ Len(b) \in Nat /\ Len(w) \in Nat
  BY Joined
<1> DEFINE R == b \o w
<1>4. /\ p \in [d..n -> Nat]
      /\ \A i, j \in d..n : i < j => p[i] + 6 <= p[j]
      /\ \A i \in 1..(Len(R) - 5) : DelimAt(R, i) <=> \E j \in (d + 1)..n : i = p[j] - p[d] - 5
  BY DEF Cut
<1>5. \A i \in 1..(Len(b) - 5) : DelimAt(R, i) <=> DelimAt(b, i)
  BY PrefixDelims
<1>6. Len(R) = Len(b) + Len(w)
  BY <1>3
<1> HIDE DEF R
<1>7. PICK j \in (d + 1)..n : first = p[j] - p[d] - 5
  <2>1. DelimAt(b, first)
    BY <1>1, <1>2
  <2>2. first \in 1..(Len(R) - 5)
    BY <1>1, <1>3, <1>6
  <2> QED
    BY <1>1, <1>4, <1>5, <2>1, <2>2
<1>8. d < n /\ d \in d..n /\ d + 1 \in d..n /\ d + 1 \in (d + 1)..n /\ j \in d..n
  BY <1>7
<1>9. p[d] \in Nat /\ p[d + 1] \in Nat /\ p[j] \in Nat /\ p[d] + 6 <= p[d + 1]
  BY <1>4, <1>8
<1>10. j = d + 1
  <2> SUFFICES ASSUME d + 1 < j PROVE FALSE
    BY <1>7
  <2>1. p[d + 1] + 6 <= p[j]
    BY <1>4, <1>8
  <2> DEFINE i == p[d + 1] - p[d] - 5
  <2>2. i \in 1..(Len(b) - 5) /\ i < first
    <3>1. \A x, y, z, l \in Int : x + 6 <= y /\ y + 6 <= z /\ z - x - 5 <= l - 5
                                => y - x - 5 \in 1..(l - 5) /\ y - x - 5 < z - x - 5
      OBVIOUS
    <3>2. p[j] - p[d] - 5 <= Len(b) - 5
      BY <1>1, <1>7
    <3>4. p[d] \in Int /\ p[d + 1] \in Int /\ p[j] \in Int /\ Len(b) \in Int
      BY <1>3, <1>9
    <3>3. i \in 1..(Len(b) - 5) /\ i < p[j] - p[d] - 5
      BY <1>9, <2>1, <3>1, <3>2, <3>4, Zenon
    <3> QED
      BY <1>7, <3>3
  <2>3. i \in 1..(Len(R) - 5) /\ i = p[d + 1] - p[d] - 5
    BY <1>3, <1>6, <2>2
  <2> HIDE DEF i
  <2>4. DelimAt(b, i)
    BY <1>4, <1>5, <1>8, <2>2, <2>3
  <2>5. i \in DelimsFrom(b, 0)
    BY <1>2, <2>2, <2>4
  <2> QED
    BY <1>1, <2>2, <2>5
<1>11. p[d + 1] - p[d] <= Len(b)
  BY <1>1, <1>3, <1>7, <1>9, <1>10
<1> QED
  BY <1>7, <1>8, <1>9, <1>10, <1>11 DEF first

\* R2 is what follows the first k bytes of R; halves of characters may have been
\* replaced.
Follows(R2, R, k) ==
  /\ Len(R) = k + Len(R2)
  /\ \A i \in 1..Len(R2) :
       R2[i] = R[k + i] \/ (R2[i] = "?" /\ R[k + i] \in {"c1", "c2"})

LEMMA FollowsDelims ==
  ASSUME NEW R \in Seq(Bytes), NEW R2 \in Seq(Bytes), NEW k \in Nat, Follows(R2, R, k),
         NEW i \in 1..(Len(R2) - 5)
  PROVE  DelimAt(R2, i) <=> DelimAt(R, k + i)
<1>1. \A e \in 0..5 : MSG_DELIM[e + 1] \notin {"?", "c1", "c2"}
  BY DelimIs
<1>2. ASSUME NEW e \in 0..5
      PROVE  R2[i + e] = MSG_DELIM[e + 1] <=> R[(k + i) + e] = MSG_DELIM[e + 1]
  <2>1. i + e \in 1..Len(R2) /\ k + (i + e) = (k + i) + e
    OBVIOUS
  <2>2. R2[i + e] = R[(k + i) + e] \/ (R2[i + e] = "?" /\ R[(k + i) + e] \in {"c1", "c2"})
    BY <2>1 DEF Follows
  <2> QED
    BY <1>1, <2>2
<1> QED
  BY <1>2 DEF DelimAt

\* Without its first message, or without newlines in front of it.
LEMMA CutDrop ==
  ASSUME NEW R \in Seq(Bytes), NEW R2 \in Seq(Bytes), NEW k \in Nat, Follows(R2, R, k),
         NEW d \in Nat, NEW n \in Nat,
         NEW p \in [d..n -> Nat], Cut(p, d, n, R),
         NEW e \in d..n, NEW q \in [e..n -> Nat], q[e] = p[d] + k,
         \A j \in (e + 1)..n : q[j] = p[j],
         e < n => q[e] + 6 <= p[e + 1],
         e = n => k = Len(R),
         \A j \in (d + 1)..e : p[j] - p[d] - 5 <= k
  PROVE  Cut(q, e, n, R2)
<1>1. /\ p \in [d..n -> Nat] /\ p[n] = p[d] + Len(R)
      /\ \A i, j \in d..n : i < j => p[i] + 6 <= p[j]
      /\ \A i \in 1..(Len(R) - 5) : DelimAt(R, i) <=> \E j \in (d + 1)..n : i = p[j] - p[d] - 5
  BY DEF Cut
<1>2. Len(R) = k + Len(R2) /\ Len(R) \in Nat /\ Len(R2) \in Nat
  BY DEF Follows
<1>3. p[d] \in Nat /\ \A j \in e..n : q[j] \in Nat
  BY <1>1
<1>4. q[n] = q[e] + Len(R2)
  <2>1. CASE e = n
    BY <1>2, <1>3, <2>1
  <2>2. CASE e < n
    <3>1. q[n] = p[n]
      BY <2>2
    <3>2. p[n] = p[d] + (k + Len(R2)) /\ q[e] = p[d] + k
      BY <1>1, <1>2
    <3>3. \A x, y, z \in Int : x + (y + z) = (x + y) + z
      OBVIOUS
    <3> QED
      BY <1>2, <1>3, <3>1, <3>2, <3>3
  <2> QED
    BY <2>1, <2>2
<1>5. ASSUME NEW i \in e..n, NEW j \in e..n, i < j
      PROVE  q[i] + 6 <= q[j]
  <2>0. e < n /\ j \in (e + 1)..n /\ j \in d..n /\ q[j] = p[j] /\ p[j] \in Nat
    BY <1>1, <1>5
  <2>1. CASE i = e
    <3>1. e + 1 \in d..n /\ p[e + 1] \in Nat
      BY <1>1, <2>0
    <3>2. e + 1 = j \/ p[e + 1] + 6 <= p[j]
      BY <1>1, <2>0, <3>1
    <3> QED
      BY <1>3, <2>0, <2>1, <3>1, <3>2
  <2>2. CASE i # e
    <3>1. i \in (e + 1)..n /\ i \in d..n
      BY <2>2
    <3> QED
      BY <1>1, <1>5, <2>0, <3>1
  <2> QED
    BY <2>1, <2>2
<1>6. ASSUME NEW i \in 1..(Len(R2) - 5)
      PROVE  DelimAt(R2, i) <=> \E j \in (e + 1)..n : i = q[j] - q[e] - 5
  <2>1. DelimAt(R2, i) <=> DelimAt(R, k + i)
    BY FollowsDelims
  <2>2. k + i \in 1..(Len(R) - 5)
    BY <1>2
  <2>3. DelimAt(R, k + i) <=> \E j \in (d + 1)..n : k + i = p[j] - p[d] - 5
    BY <1>1, <2>2
  <2>4. ASSUME NEW j \in (d + 1)..n, k + i = p[j] - p[d] - 5
        PROVE  j \in (e + 1)..n /\ i = q[j] - q[e] - 5
    <3>1. p[j] \in Nat /\ j \in d..n
      BY <1>1
    <3>2. j \notin (d + 1)..e
      BY <1>3, <2>4, <3>1
    <3>3. j \in (e + 1)..n /\ q[j] = p[j]
      BY <3>2
    <3>4. PICK x \in Int, l \in Int : x = p[d] /\ l = p[j]
      BY <1>3, <3>1
    <3>5. k + i = l - x - 5
      BY <2>4, <3>4
    <3>6. i = l - (x + k) - 5
      BY <3>5
    <3>7. q[j] = l /\ q[e] = x + k
      BY <3>3, <3>4
    <3> QED
      BY <3>3, <3>6, <3>7
  <2>5. ASSUME NEW j \in (e + 1)..n, i = q[j] - q[e] - 5
        PROVE  j \in (d + 1)..n /\ k + i = p[j] - p[d] - 5
    <3>1. j \in (d + 1)..n /\ q[j] = p[j] /\ p[j] \in Nat
      BY <1>1
    <3>4. PICK x \in Int, l \in Int : x = p[d] /\ l = p[j]
      BY <1>3, <3>1
    <3>5. q[j] = l /\ q[e] = x + k
      BY <3>1, <3>4
    <3>6. i = l - (x + k) - 5
      BY <2>5, <3>5
    <3>7. k + i = l - x - 5
      BY <3>6
    <3> QED
      BY <3>1, <3>4, <3>7
  <2> QED
    BY <2>1, <2>3, <2>4, <2>5
<1> QED
  BY <1>4, <1>5, <1>6 DEF Cut

\* How many messages were read as a whole, and in which one the read ended.
LEMMA WholeMessages ==
  ASSUME NEW b \in Seq(Bytes), NEW w \in Seq(Bytes), NEW d \in Nat, NEW n \in Nat, d <= n,
         NEW p \in [d..n -> Nat], Cut(p, d, n, b \o w)
  PROVE  \E x \in d..n :
           /\ Cardinality(DelimsFrom(b, 0)) = x - d
           /\ p[x] - p[d] <= Len(b)
           /\ x < n => Len(b) < p[x + 1] - p[d]
<1>1. /\ b \o w \in Seq(Bytes) /\ Len(b \o w) = Len(b) + Len(w)
      /\ Len(b) \in Nat /\ Len(w) \in Nat
  BY Joined
<1> DEFINE R == b \o w
<1>2. /\ p \in [d..n -> Nat] /\ p[n] = p[d] + Len(R)
      /\ \A i, j \in d..n : i < j => p[i] + 6 <= p[j]
      /\ \A i \in 1..(Len(R) - 5) : DelimAt(R, i) <=> \E j \in (d + 1)..n : i = p[j] - p[d] - 5
  BY DEF Cut
<1>3. \A i \in 1..(Len(b) - 5) : DelimAt(R, i) <=> DelimAt(b, i)
  BY PrefixDelims
<1>4. Len(R) = Len(b) + Len(w)
  BY <1>1
<1> HIDE DEF R
<1>5. p[d] \in Nat /\ \A j \in d..n : p[j] \in Nat
  BY <1>2
<1> DEFINE S == {j \in d..n : p[j] - p[d] <= Len(b)}
           x == Max(S)
<1>6. x \in S /\ \A j \in S : j <= x
  <2>1. S \in SUBSET (0..n) /\ d \in S
    BY <1>1, <1>5
  <2> HIDE DEF S
  <2> QED
    BY <2>1, MaxIs
<1>7. x \in d..n /\ p[x] - p[d] <= Len(b)
  BY <1>6
<1>8. ASSUME x < n PROVE Len(b) < p[x + 1] - p[d]
  <2>1. x + 1 \in d..n /\ ~(x + 1 <= x)
    BY <1>7, <1>8
  <2>2. x + 1 \notin S
    <3> HIDE DEF S, x
    <3> QED
      BY <1>6, <2>1
  <2>3. p[x + 1] \in Nat
    BY <1>5, <2>1
  <2> HIDE DEF x
  <2> QED
    BY <1>1, <1>5, <2>1, <2>2, <2>3
<1> HIDE DEF x
\* The delimiters are one behind each message.
<1> DEFINE D == DelimsFrom(b, 0)
           f == [j \in (d + 1)..x |-> p[j] - p[d] - 5]
<1>9. D = {i \in (0 + 1)..(Len(b) - 5) : DelimAt(b, i)}
  BY DelimsAre, 0 \in Nat
<1>10. ASSUME NEW j \in (d + 1)..x
       PROVE  /\ j \in (d + 1)..n /\ p[j] \in Nat /\ p[j] <= p[x] /\ p[d] + 6 <= p[j]
              /\ p[j] - p[d] - 5 \in 1..(Len(b) - 5)
  <2>1. j \in (d + 1)..n /\ j \in d..n /\ x \in d..n /\ d \in d..n /\ d < j
    BY <1>7
  <2>2. p[j] \in Nat /\ p[x] \in Nat
    BY <1>5, <2>1
  <2>3. p[j] <= p[x]
    <3>1. j < x => p[j] + 6 <= p[x]
      BY <1>2, <2>1
    <3>2. j < x \/ j = x
      BY <1>7
    <3> QED
      BY <2>2, <3>1, <3>2
  <2>4. p[d] + 6 <= p[j]
    BY <1>2, <2>1
  <2> QED
    BY <1>1, <1>5, <1>7, <2>1, <2>2, <2>3, <2>4
<1>11. f \in [(d + 1)..x -> D]
  <2> SUFFICES ASSUME NEW j \in (d + 1)..x PROVE p[j] - p[d] - 5 \in D
    OBVIOUS
  <2> DEFINE i == p[j] - p[d] - 5
  <2>1. i \in 1..(Len(b) - 5) /\ i \in 1..(Len(R) - 5)
    BY <1>1, <1>4, <1>10
  <2>2. i = p[j] - p[d] - 5 /\ j \in (d + 1)..n
    BY <1>10
  <2> HIDE DEF i
  <2>3. DelimAt(b, i)
    BY <1>2, <1>3, <2>1, <2>2
  <2>4. i \in D
    <3> HIDE DEF D
    <3> QED
      BY <1>9, <2>1, <2>3
  <2> QED
    BY <2>4 DEF i
<1>12. \A i, j \in (d + 1)..x : f[i] = f[j] => i = j
  <2> SUFFICES ASSUME NEW i \in (d + 1)..x, NEW j \in (d + 1)..x, i # j PROVE f[i] # f[j]
    OBVIOUS
  <2>1. i \in d..n /\ j \in d..n /\ p[i] \in Nat /\ p[j] \in Nat /\ (i < j \/ j < i)
    BY <1>7, <1>10
  <2>2. p[i] + 6 <= p[j] \/ p[j] + 6 <= p[i]
    BY <1>2, <2>1
  <2> QED
    BY <1>5, <2>1, <2>2
<1>13. \A i \in D : \E j \in (d + 1)..x : f[j] = i
  <2> SUFFICES ASSUME NEW i \in D PROVE \E j \in (d + 1)..x : p[j] - p[d] - 5 = i
    OBVIOUS
  <2>1. i \in 1..(Len(b) - 5) /\ DelimAt(b, i)
    BY <1>9
  <2>2. i \in 1..(Len(R) - 5)
    BY <1>1, <1>4, <2>1
  <2>3. PICK j \in (d + 1)..n : i = p[j] - p[d] - 5
    BY <1>2, <1>3, <2>1, <2>2
  <2>4. p[j] \in Nat /\ j \in d..n
    BY <1>5
  <2>5. j \in S
    BY <1>1, <1>5, <2>1, <2>3, <2>4
  <2>6. j <= x
    <3> HIDE DEF S
    <3> QED
      BY <1>6, <2>5
  <2> QED
    BY <1>7, <2>3, <2>6
<1> HIDE DEF D, f
<1>14. ExistsBijection((d + 1)..x, D)
  BY <1>11, <1>12, <1>13, Fun_IsBij, Fun_ExistsBij
<1>15. IsFiniteSet((d + 1)..x) /\ Cardinality((d + 1)..x) = x - d
  <2>1. d + 1 \in Int /\ x \in Int
    BY <1>7
  <2>2. Cardinality((d + 1)..x) = IF d + 1 > x THEN 0 ELSE x - (d + 1) + 1
    BY <2>1, FS_Interval
  <2>3. (IF d + 1 > x THEN 0 ELSE x - (d + 1) + 1) = x - d
    BY <1>7
  <2> QED
    BY <2>1, <2>2, <2>3, FS_Interval
<1>16. Cardinality(D) = x - d
  BY <1>14, <1>15, FS_Bijection
<1> QED
  BY <1>7, <1>8, <1>16 DEF D

-----------------------------------------------------------------------------
(* Messages and the characters in them                                      *)

\* A message with whole characters has no half in a part of the stream, except
\* for the last byte of that part.
LEMMA HalfInMessage ==
  ASSUME NEW m \in Seq(Bytes), \A i \in 1..Len(m) : ~IsHalf(m, i),
         NEW b \in Seq(Bytes), NEW R, \A i \in 1..Len(b) : R[i] = b[i],
         NEW a \in Nat, NEW z \in Int, Holds(R, a, z, m),
         NEW x \in (a + 1)..z, x <= Len(b), IsHalf(b, x)
  PROVE  x = Len(b) /\ b[x] = "c1" /\ x < z
<1>1. PICK d \in 0..Len(m) :
        /\ \A i \in 1..d : m[i] = "NL"
        /\ z = a + Len(m) - d
        /\ \A i \in 1..(Len(m) - d) : R[a + i] = m[d + i]
  BY DEF Holds
<1>0. Len(m) \in Nat /\ Len(b) \in Nat /\ x \in Int
  OBVIOUS
<1> DEFINE i == x - a
<1>2. i \in 1..(Len(m) - d) /\ a + i = x /\ i \in Int
  BY <1>0, <1>1
<1> HIDE DEF i
<1>3. x \in 1..Len(b)
  BY <1>0
<1>4. b[x] = m[d + i] /\ d + i \in 1..Len(m)
  <2>1. R[a + i] = m[d + i]
    BY <1>1, <1>2
  <2>2. R[x] = b[x]
    BY <1>3
  <2>3. d + i \in 1..Len(m)
    BY <1>0, <1>2
  <2> QED
    BY <1>2, <2>1, <2>2, <2>3
<1>5. CASE b[x] = "c1" /\ ~(x < Len(b) /\ b[x + 1] = "c2")
  <2>1. d + i < Len(m) /\ m[(d + i) + 1] = "c2"
    BY <1>4, <1>5 DEF IsHalf
  <2>2. i + 1 \in 1..(Len(m) - d) /\ a + (i + 1) = x + 1 /\ d + (i + 1) = (d + i) + 1
    BY <1>0, <1>2, <2>1
  <2>3. R[x + 1] = "c2"
    BY <1>1, <2>1, <2>2
  <2>4. x = Len(b)
    <3> SUFFICES ASSUME x < Len(b) PROVE FALSE
      BY <1>3
    <3>1. x + 1 \in 1..Len(b)
      BY <1>3
    <3> QED
      BY <1>5, <2>3, <3>1
  <2>5. x < z
    BY <1>0, <1>1, <1>2, <2>1
  <2> QED
    BY <1>5, <2>4, <2>5
<1>6. CASE b[x] = "c2" /\ ~(x > 1 /\ b[x - 1] = "c1")
  <2>1. d + i > 1 /\ m[(d + i) - 1] = "c1"
    BY <1>4, <1>6 DEF IsHalf
  <2>2. CASE i = 1
    <3>1. (d + i) - 1 \in 1..d
      BY <1>0, <2>1, <2>2
    <3> QED
      BY <1>1, <2>1, <3>1
  <2>3. CASE i > 1
    <3>1. i - 1 \in 1..(Len(m) - d) /\ a + (i - 1) = x - 1 /\ d + (i - 1) = (d + i) - 1
          /\ x - 1 \in 1..Len(b) /\ x > 1
      BY <1>0, <1>2, <1>3, <2>3
    <3>2. b[x - 1] = "c1"
      BY <1>1, <2>1, <3>1
    <3> QED
      BY <1>6, <3>1, <3>2
  <2> QED
    BY <1>2, <2>2, <2>3
<1> QED
  BY <1>5, <1>6 DEF IsHalf

\* The part of a message that was not read yet is still to come.
LEMMA HoldsOn ==
  ASSUME NEW m \in Seq(Bytes), NEW R, NEW R2, NEW k \in Nat, NEW n \in Nat,
         \A i \in 1..n : R2[i] = R[k + i],
         NEW a \in Nat, NEW z \in Int, z <= n, Holds(R, k + a, k + z, m)
  PROVE  Holds(R2, a, z, m)
<1>1. PICK d \in 0..Len(m) :
        /\ \A i \in 1..d : m[i] = "NL"
        /\ k + z = (k + a) + Len(m) - d
        /\ \A i \in 1..(Len(m) - d) : R[(k + a) + i] = m[d + i]
  BY DEF Holds
<1>2. z = a + Len(m) - d
  <2>1. PICK l \in Int : l = Len(m)
    OBVIOUS
  <2>2. d \in Int /\ k + z = (k + a) + l - d
    BY <1>1, <2>1
  <2>3. z = a + l - d
    BY <2>2
  <2> QED
    BY <2>1, <2>3
<1>3. ASSUME NEW i \in 1..(Len(m) - d) PROVE R2[a + i] = m[d + i]
  <2>1. a + i \in 1..n /\ k + (a + i) = (k + a) + i
    BY <1>2
  <2> QED
    BY <1>1, <2>1
<1> QED
  BY <1>1, <1>2, <1>3 DEF Holds

\* And decoding what was read damages only the message in which the read ended.
LEMMA HoldsDecoded ==
  ASSUME NEW m \in Seq(Bytes), \A i \in 1..Len(m) : ~IsHalf(m, i),
         NEW b \in Seq(Bytes), NEW w \in Seq(Bytes),
         NEW a \in Nat, NEW z \in Int, z <= Len(b) + Len(w), Holds(b \o w, a, z, m),
         ~(b # <<>> /\ Last(b) = "c1" /\ a < Len(b) /\ Len(b) < z)
  PROVE  Holds(Decode(b) \o w, a, z, m)
<1>0. /\ Decode(b) \in Seq(Bytes) /\ Len(Decode(b)) = Len(b) /\ Len(b) \in Nat /\ Len(w) \in Nat
      /\ \A i \in 1..Len(b) : Decode(b)[i] = IF IsHalf(b, i) THEN "?" ELSE b[i]
  BY DecodeType, LenProperties
<1> DEFINE R  == b \o w
           R2 == Decode(b) \o w
<1>1. /\ \A i \in 1..Len(b) : R[i] = b[i]
      /\ \A i \in 1..Len(w) : R[Len(b) + i] = w[i]
  BY Joined
<1>2. /\ \A i \in 1..Len(b) : R2[i] = Decode(b)[i]
      /\ \A i \in 1..Len(w) : R2[Len(b) + i] = w[i]
  <2>1. /\ \A i \in 1..Len(Decode(b)) : R2[i] = Decode(b)[i]
        /\ \A i \in 1..Len(w) : R2[Len(Decode(b)) + i] = w[i]
    BY <1>0, Joined
  <2> HIDE DEF R2
  <2> QED
    BY <1>0, <2>1
<1>3. Holds(R, a, z, m)
  OBVIOUS
<1> HIDE DEF R, R2
<1>4. ASSUME NEW x \in (a + 1)..z PROVE R2[x] = R[x]
  <2>1. x \in 1..(Len(b) + Len(w))
    BY <1>0
  <2>2. CASE x <= Len(b)
    <3>1. x \in 1..Len(b)
      BY <2>1, <2>2
    <3>2. ~IsHalf(b, x)
      <4> SUFFICES ASSUME IsHalf(b, x) PROVE FALSE
        OBVIOUS
      <4>1. x = Len(b) /\ b[x] = "c1" /\ x < z
        BY <1>1, <1>3, <2>2, HalfInMessage
      <4>2. b # <<>> /\ Last(b) = "c1" /\ a < Len(b) /\ Len(b) < z
        BY <1>0, <3>1, <4>1 DEF Last
      <4> QED
        BY <4>2
    <3> QED
      BY <1>0, <1>1, <1>2, <3>1, <3>2
  <2>3. CASE x > Len(b)
    <3> DEFINE e == x - Len(b)
    <3>1. e \in 1..Len(w) /\ Len(b) + e = x
      BY <1>0, <2>1, <2>3
    <3> HIDE DEF e
    <3> QED
      BY <1>1, <1>2, <3>1
  <2> QED
    BY <1>0, <2>1, <2>2, <2>3
<1>5. PICK d \in 0..Len(m) :
        /\ \A i \in 1..d : m[i] = "NL"
        /\ z = a + Len(m) - d
        /\ \A i \in 1..(Len(m) - d) : R[a + i] = m[d + i]
  BY <1>3 DEF Holds
<1>6. ASSUME NEW i \in 1..(Len(m) - d) PROVE R2[a + i] = m[d + i]
  <2>1. a + i \in (a + 1)..z
    BY <1>5
  <2> QED
    BY <1>4, <1>5, <2>1
<1>7. Holds(R2, a, z, m)
  BY <1>5, <1>6 DEF Holds
<1> QED
  BY <1>7 DEF R2

LEMMA MaxIsTheGreatest ==
  ASSUME NEW S, NEW m \in S, m \in Int, \A i \in S : i \in Int /\ i <= m
  PROVE  Max(S) = m
<1>1. \A x \in S : (\A i \in S : x >= i) => x = m
  OBVIOUS
<1> QED
  BY <1>1 DEF Max

\* A message that comes out of the stream is the one that was sent, but for
\* newlines in front of it, and those are stripped.
LEMMA WholeText ==
  ASSUME NEW m \in Seq(Bytes), \A i \in 1..Len(m) : ~IsHalf(m, i),
         NEW t \in Seq(Bytes), Holds(t, 0, Len(t), m)
  PROVE  Decode(t) = t /\ Strip(t) = Strip(m)
<1>0. Len(t) \in Nat /\ Len(m) \in Nat
  OBVIOUS
<1>1. \A x \in 1..Len(t) : ~IsHalf(t, x)
  <2> SUFFICES ASSUME NEW x \in 1..Len(t), IsHalf(t, x) PROVE FALSE
    OBVIOUS
  <2>1. x \in (0 + 1)..Len(t) /\ 0 \in Nat /\ Len(t) \in Int /\ x <= Len(t)
    BY <1>0
  <2>2. x < Len(t)
    BY <2>1, HalfInMessage
  <2>3. x = Len(t)
    BY <2>1, HalfInMessage
  <2> QED
    BY <1>0, <2>2, <2>3
<1>2. Decode(t) = t
  BY <1>1, DecodeType, SeqEqual
<1>3. PICK d \in 0..Len(m) :
        /\ \A i \in 1..d : m[i] = "NL"
        /\ Len(t) = 0 + Len(m) - d
        /\ \A i \in 1..(Len(m) - d) : t[0 + i] = m[d + i]
  BY DEF Holds
<1>4. Len(m) = d + Len(t) /\ \A i \in 1..Len(t) : t[i] = m[d + i]
  BY <1>0, <1>3
<1> DEFINE keptT == {i \in 1..Len(t) : t[i] # "NL"}
           keptM == {i \in 1..Len(m) : m[i] # "NL"}
<1>5. \A i \in keptT : d + i \in keptM /\ i \in 1..Len(t)
  BY <1>0, <1>4
<1>6. ASSUME NEW i \in keptM PROVE i - d \in keptT /\ i \in 1..Len(m) /\ d + (i - d) = i
  <2>1. i \in 1..Len(m) /\ m[i] # "NL"
    OBVIOUS
  <2>2. i \notin 1..d
    BY <1>3, <2>1
  <2>3. i - d \in 1..Len(t) /\ d + (i - d) = i
    BY <1>0, <1>4, <2>1, <2>2
  <2> QED
    BY <1>4, <2>1, <2>3
<1>7. CASE keptT = {}
  <2>1. keptM = {}
    <3> HIDE DEF keptT, keptM
    <3> QED
      BY <1>6, <1>7
  <2> QED
    BY <1>2, <1>7, <2>1 DEF Strip
<1>8. CASE keptT # {}
  <2>1. keptT \in SUBSET Nat /\ keptT \in SUBSET (0..Len(t))
    BY <1>0
  <2>2. Strip(t) = SubSeq(t, Min(keptT), Max(keptT))
    BY <1>8 DEF Strip
  <2>3. keptM # {}
    <3> HIDE DEF keptT, keptM
    <3> QED
      BY <1>5, <1>8
  <2>4. Strip(m) = SubSeq(m, Min(keptM), Max(keptM))
    BY <2>3 DEF Strip
  <2> HIDE DEF keptT, keptM
  <2>5. PICK x \in keptT, y \in keptT :
          x = Min(keptT) /\ y = Max(keptT) /\ \A i \in keptT : x <= i /\ i <= y
    <3>1. Min(keptT) \in keptT /\ \A i \in keptT : Min(keptT) <= i
      BY <1>8, <2>1, MinIs
    <3>2. Max(keptT) \in keptT /\ \A i \in keptT : i <= Max(keptT)
      BY <1>0, <1>8, <2>1, MaxIs
    <3> QED
      BY <3>1, <3>2
  <2>6. x \in 1..Len(t) /\ y \in 1..Len(t) /\ x <= y
    BY <1>5, <2>5
  <2>7. \A i \in keptM : i \in Int /\ d + x <= i /\ i <= d + y
    <3> TAKE i \in keptM
    <3>1. x <= i - d /\ i - d <= y /\ i \in Int
      BY <1>6, <2>5
    <3> QED
      BY <2>6, <3>1
  <2>8. Min(keptM) = d + x /\ Max(keptM) = d + y
    <3>1. d + x \in keptM /\ d + y \in keptM /\ d + x \in Int /\ d + y \in Int
      BY <1>5, <2>5, <2>6
    <3> QED
      BY <2>7, <3>1, MinIsTheLeast, MaxIsTheGreatest
  <2> DEFINE s1 == SubSeq(t, x, y)
             s2 == SubSeq(m, d + x, d + y)
  <2>9. /\ s1 \in Seq(Bytes) /\ Len(s1) = y - x + 1
        /\ \A j \in 1..(y - x + 1) : s1[j] = t[x + j - 1]
    <3>1. x \in 1..(Len(t) + 1) /\ y \in (x - 1)..Len(t)
      BY <1>0, <2>6
    <3> QED
      BY <3>1, PieceIs
  <2>10. /\ s2 \in Seq(Bytes) /\ Len(s2) = (d + y) - (d + x) + 1
         /\ \A j \in 1..((d + y) - (d + x) + 1) : s2[j] = m[(d + x) + j - 1]
    <3>1. d + x \in 1..(Len(m) + 1) /\ d + y \in ((d + x) - 1)..Len(m)
      BY <1>0, <1>4, <2>6
    <3> QED
      BY <3>1, PieceIs
  <2> HIDE DEF s1, s2
  <2>11. (d + y) - (d + x) + 1 = y - x + 1
    BY <1>0, <2>6
  <2>12. ASSUME NEW j \in 1..(y - x + 1) PROVE s1[j] = s2[j]
    <3>1. x + j - 1 \in 1..Len(t) /\ d + (x + j - 1) = (d + x) + j - 1
      BY <1>0, <2>6
    <3> QED
      BY <1>4, <2>9, <2>10, <2>11, <3>1
  <2>13. s1 = s2
    BY <2>9, <2>10, <2>11, <2>12, SeqEqual
  <2> QED
    BY <1>2, <2>2, <2>4, <2>5, <2>8, <2>13 DEF s1, s2
<1> QED
  BY <1>7, <1>8

-----------------------------------------------------------------------------
(* The stream of delimited messages                                         *)

LEMMA RestType == TypeOK => Rest \in Seq(Bytes)
  BY Joined DEF TypeOK, Rest

\* Until the base is selected behind the hello it is 1.0.
LEMMA Base10 == TypeOK /\ Agreed /\ ~Chunked => base = 10
  BY DEF TypeOK, Agreed, Chunked

LEMMA DelimitedStays ==
  ASSUME NEW p, Delimited(p), Rest' = Rest, UNCHANGED <<sent, dispatched, damaged>>
  PROVE  Delimited(p)'
  BY DEF Delimited, Msg

LEMMA IntactStays ==
  ASSUME DispatchedIntact, UNCHANGED <<sent, dispatched, negotiated>>, damaged \subseteq damaged'
  PROVE  DispatchedIntact'
  BY DEF DispatchedIntact, Expected

LEMMA Read10 ==
  ASSUME TypeOK, Agreed, ~Chunked, Searching, NEW p, Delimited(p), Read
  PROVE  ~Chunked' /\ Searching' /\ Delimited(p)'
<1>1. PICK n \in 1..Len(wire) : /\ buffer' = buffer \o SubSeq(wire, 1, n)
                                /\ wire' = From(wire, n + 1)
  BY DEF Read
<1>2. /\ at = "select" /\ at' = "parse10"
      /\ UNCHANGED <<parsing_pos10, message_list, remaining, connect, sent, unsent, garbage,
                     dispatched, damaged>>
  BY Base10 DEF Read
<1>3. /\ buffer \in Seq(Bytes) /\ SubSeq(wire, 1, n) \in Seq(Bytes)
      /\ Len(buffer') = Len(buffer) + n /\ buffer' \o wire' = buffer \o wire
      /\ Len(buffer) \in Nat /\ parsing_pos10 \in Nat
  <2>1. wire \in Seq(Bytes) /\ buffer \in Seq(Bytes) /\ parsing_pos10 \in Nat
    BY DEF TypeOK
  <2>2. SubSeq(wire, 1, n) \in Seq(Bytes)
    BY <2>1, PieceIs
  <2>3. /\ Len(buffer \o SubSeq(wire, 1, n)) = Len(buffer) + n
        /\ (buffer \o SubSeq(wire, 1, n)) \o From(wire, n + 1) = buffer \o wire
    BY <2>1, ReadMoves
  <2> QED
    BY <1>1, <2>1, <2>2, <2>3
<1>4. Rest' = Rest
  BY <1>2, <1>3 DEF Rest
<1>5. ASSUME NEW i \in 1..(Len(buffer') - 5), DelimAt(buffer', i)
      PROVE  i > parsing_pos10'
  <2>1. CASE i <= Len(buffer) - 5
    <3>1. i \in 1..(Len(buffer) - 5)
      BY <1>3, <2>1
    <3>2. DelimAt(buffer, i)
      BY <1>1, <1>3, <1>5, <3>1, PrefixDelims
    <3> QED
      BY <1>2, <3>1, <3>2 DEF Searching
  <2>2. CASE i > Len(buffer) - 5
    <3>1. parsing_pos10 = 0 \/ parsing_pos10 + 6 <= Len(buffer)
      BY DEF Searching
    <3> QED
      BY <1>2, <1>3, <2>2, <3>1
  <2> QED
    BY <1>3, <2>1, <2>2
<1>6. Searching'
  <2>1. parsing_pos10' = 0 \/ parsing_pos10' + 6 <= Len(buffer')
    BY <1>2, <1>3 DEF Searching
  <2> QED
    BY <1>2, <1>5, <2>1 DEF Searching
<1> QED
  BY <1>2, <1>4, <1>6, DelimitedStays DEF Chunked, connect

LEMMA KeepPosition10Searches ==
  ASSUME TypeOK, ~Chunked, Searching, NEW p, Delimited(p), KeepPosition10
  PROVE  ~Chunked' /\ Searching' /\ Delimited(p)'
<1>1. /\ at = "parse10" /\ at' = "select"
      /\ DelimsFrom(buffer, parsing_pos10) = {}
      /\ UNCHANGED <<buffer, message_list, remaining, replaced, connect, server, dispatched,
                     damaged>>
  BY DEF KeepPosition10
<1>2. buffer \in Seq(Bytes) /\ parsing_pos10 \in Nat /\ Len(buffer) \in Nat
  BY DEF TypeOK
<1>3. Rest' = Rest
  BY <1>1 DEF Rest, server
<1>4. ASSUME NEW i \in 1..(Len(buffer) - 5) PROVE ~DelimAt(buffer, i)
  <2> SUFFICES ASSUME DelimAt(buffer, i) PROVE FALSE
    OBVIOUS
  <2>1. i > parsing_pos10
    BY <1>1 DEF Searching
  <2>2. i \in DelimsFrom(buffer, parsing_pos10)
    <3>1. i \in (parsing_pos10 + 1)..(Len(buffer) - 5)
      BY <1>2, <2>1
    <3>2. DelimsFrom(buffer, parsing_pos10)
            = {x \in (parsing_pos10 + 1)..(Len(buffer) - 5) : DelimAt(buffer, x)}
      BY <1>2, DelimsAre
    <3> QED
      BY <3>1, <3>2
  <2> QED
    BY <1>1, <2>2
<1>5. parsing_pos10' = 0 \/ parsing_pos10' + 6 <= Len(buffer)
  <2>1. CASE replaced
    BY <2>1 DEF KeepPosition10, Searching
  <2>2. CASE ~replaced
    <3> DEFINE k == Len(buffer) - 6
    <3>1. k \in Int /\ MSG_DELIM_LEN = 6
      BY <1>2, DelimIs
    <3>2. parsing_pos10' = Max({0, k})
      BY <2>2, <3>1 DEF KeepPosition10
    <3>3. (IF k < 0 THEN 0 ELSE k) = 0 \/ (IF k < 0 THEN 0 ELSE k) + 6 <= Len(buffer)
      BY <1>2
    <3> HIDE DEF k
    <3> QED
      BY <3>1, <3>2, <3>3, MaxOfTwo
  <2> QED
    BY <2>1, <2>2
<1>6. Searching'
  BY <1>1, <1>4, <1>5 DEF Searching, server
<1> QED
  BY <1>1, <1>3, <1>6, DelimitedStays DEF Chunked, connect, server

\* A blank rest is newlines.
LEMMA BlankIs ==
  ASSUME NEW b \in Seq(Bytes), Strip(b) = <<>>
  PROVE  \A i \in 1..Len(b) : b[i] = "NL"
<1> DEFINE kept == {i \in 1..Len(b) : b[i] # "NL"}
<1>1. CASE kept = {}
  BY <1>1
<1>2. CASE kept # {}
  <2>1. Strip(b) = SubSeq(b, Min(kept), Max(kept))
    BY <1>2 DEF Strip
  <2>2. kept \in SUBSET Nat /\ kept \in SUBSET (0..Len(b)) /\ Len(b) \in Nat
        /\ \A i \in kept : i \in 1..Len(b)
    OBVIOUS
  <2> HIDE DEF kept
  <2>3. PICK x \in kept, y \in kept : x = Min(kept) /\ y = Max(kept) /\ x <= y
    BY <1>2, <2>2, MinIs, MaxIs
  <2>4. x \in 1..(Len(b) + 1) /\ y \in (x - 1)..Len(b) /\ y - x + 1 > 0
    BY <2>2, <2>3
  <2>5. Len(SubSeq(b, x, y)) = y - x + 1
    BY <2>4, PieceIs
  <2>6. Len(Strip(b)) > 0
    BY <2>1, <2>3, <2>4, <2>5
  <2>7. Len(<<>>) = 0
    BY EmptySeq
  <2> QED
    BY <2>6, <2>7
<1> QED
  BY <1>1, <1>2

LEMMA Rest10Searches ==
  ASSUME TypeOK, ~Chunked, Searching, NEW p, Delimited(p), Rest10
  PROVE  ~Chunked' /\ Searching' /\ \E q : Delimited(q)'
<1>1. /\ at = "rest10" /\ parsing_pos10' = 0
      /\ UNCHANGED <<message_list, replaced, connect, server, dispatched, damaged>>
      /\ Rest = remaining \o wire
  BY DEF Rest10, Rest
<1>2. ~Chunked'
  BY <1>1 DEF Chunked, connect
<1>3. CASE Strip(remaining) # <<>>
  <2>1. buffer' = remaining /\ at' = "parse10"
    BY <1>3 DEF Rest10
  <2>2. Rest' = Rest
    BY <1>1, <2>1 DEF Rest, server
  <2>3. Searching'
    <3>1. \A i \in 1..(Len(buffer') - 5) : i > 0
      OBVIOUS
    <3> QED
      BY <1>1, <2>1, <3>1 DEF Searching, server
  <2> QED
    BY <1>1, <1>2, <2>2, <2>3, DelimitedStays DEF server
<1>4. CASE Strip(remaining) = <<>>
  <2>0. buffer' = <<>> /\ at' = "select"
    BY <1>4 DEF Rest10
  <2> DEFINE d == Len(dispatched)
             n == Len(sent)
             k == Len(remaining)
             R == Rest
  <2>sizes. /\ d \in Nat /\ n \in Nat /\ d <= n /\ k \in Nat
            /\ remaining \in Seq(Bytes) /\ wire \in Seq(Bytes)
    BY DEF TypeOK, Searching
  <2>cut. Cut(p, d, n, R)
    BY DEF Delimited
  <2>places. /\ p \in [d..n -> Nat] /\ p[n] = p[d] + Len(R)
             /\ \A i, j \in d..n : i < j => p[i] + 6 <= p[j]
             /\ \A i \in 1..(Len(R) - 5) : DelimAt(R, i) <=> \E j \in (d + 1)..n : i = p[j] - p[d] - 5
    BY <2>cut DEF Cut
  <2>blank. /\ R \in Seq(Bytes) /\ Len(R) = k + Len(wire) /\ Len(wire) \in Nat
            /\ \A i \in 1..k : R[i] = "NL"
            /\ \A i \in 1..Len(wire) : R[k + i] = wire[i]
    <3>1. /\ R \in Seq(Bytes) /\ Len(R) = k + Len(wire) /\ Len(wire) \in Nat
          /\ \A i \in 1..k : R[i] = remaining[i]
          /\ \A i \in 1..Len(wire) : R[k + i] = wire[i]
      BY <1>1, <2>sizes, Joined
    <3>2. \A i \in 1..k : remaining[i] = "NL"
      BY <1>4, <2>sizes, BlankIs
    <3> QED
      BY <3>1, <3>2
  <2>5. Rest' = wire
    BY <1>1, <2>0, <2>sizes, ConcatEmptySeq DEF Rest, server
  <2>follows. Follows(wire, R, k)
    BY <2>blank DEF Follows
  <2> HIDE DEF d, n, k, R
  <2>7. p[d] \in Nat /\ p[n] \in Nat /\ \A j \in d..n : p[j] \in Nat
    BY <2>sizes, <2>places
  <2>8. d < n => p[d] + k + 6 <= p[d + 1]
    <3> SUFFICES ASSUME d < n PROVE p[d] + k + 6 <= p[d + 1]
      OBVIOUS
    <3>1. d \in d..n /\ d + 1 \in d..n /\ d + 1 \in (d + 1)..n
      BY <2>sizes
    <3>2. PICK x \in Nat, y \in Nat : x = p[d] /\ y = p[d + 1]
      BY <2>7, <3>1
    <3>3. x + 6 <= y
      BY <2>sizes, <2>places, <3>1, <3>2
    <3>4. y <= x + Len(R)
      <4>1. d + 1 < n => p[d + 1] + 6 <= p[n]
        BY <2>sizes, <2>places, <3>1
      <4>2. d + 1 = n \/ d + 1 < n
        BY <2>sizes, <3>1
      <4>3. Len(R) \in Nat
        BY <2>blank
      <4> QED
        BY <2>places, <2>7, <3>2, <4>1, <4>2, <4>3
    <3> DEFINE i == y - x - 5
    <3>5. i \in 1..(Len(R) - 5) /\ i = y - x - 5 /\ i \in Int
      <4>1. Len(R) \in Nat
        BY <2>blank
      <4> QED
        BY <3>3, <3>4, <4>1
    <3> HIDE DEF i
    <3>6. DelimAt(R, i)
      BY <2>places, <3>1, <3>2, <3>5
    <3>7. R[i] # "NL"
      <4>1. R[i + 0] = MSG_DELIM[0 + 1] /\ i + 0 = i /\ 0 + 1 = 1
        BY <3>5, <3>6 DEF DelimAt
      <4>2. MSG_DELIM[1] \in {"]", ">"}
        BY DelimIs
      <4> QED
        BY <4>1, <4>2
    <3>8. i > k
      BY <2>sizes, <2>blank, <3>5, <3>7
    <3>9. x + k + 6 <= y
      BY <2>sizes, <3>5, <3>8
    <3> QED
      BY <3>2, <3>9
  <2>9. d = n => k = Len(R)
    BY <2>sizes, <2>places, <2>blank, <2>7
  <2>10. PICK q \in [d..n -> Nat] : /\ q[d] = p[d] + k
                                   /\ \A j \in (d + 1)..n : q[j] = p[j]
    <3> DEFINE f == [j \in d..n |-> IF j = d THEN p[d] + k ELSE p[j]]
    <3>1. /\ f \in [d..n -> Nat] /\ f[d] = p[d] + k
          /\ \A j \in (d + 1)..n : f[j] = p[j]
      BY <2>sizes, <2>7
    <3> HIDE DEF f
    <3> QED
      BY <3>1
  <2>11. Cut(q, d, n, wire)
    <3>1. d \in d..n /\ \A j \in (d + 1)..d : p[j] - p[d] - 5 <= k
      BY <2>sizes
    <3>2. d < n => q[d] + 6 <= p[d + 1]
      BY <2>8, <2>10
    <3> QED
      BY <2>sizes, <2>cut, <2>places, <2>blank, <2>follows, <2>9, <2>10, <3>1, <3>2, CutDrop
  <2>12. ASSUME NEW j \in (d + 1)..n, j \notin damaged
         PROVE  Holds(wire, q[j - 1] - q[d], q[j] - q[d] - 6, Msg(j))
    <3>1. Holds(R, p[j - 1] - p[d], p[j] - p[d] - 6, Msg(j))
      BY <2>12 DEF Delimited, d, n, R
    <3>2. Msg(j) \in Seq(Bytes) /\ Len(Msg(j)) \in Nat
      <4>1. j \in 1..Len(sent)
        BY <2>sizes DEF n
      <4> QED
        BY <4>1, SentIs DEF Msg
    <3>3. PICK x \in Nat, y \in Nat, u \in Nat : x = p[d] /\ y = p[j] /\ u = p[j - 1]
      <4>1. j \in d..n /\ j - 1 \in d..n
        BY <2>sizes
      <4>2. p[j] \in Nat /\ p[j - 1] \in Nat
        BY <2>7, <4>1
      <4> QED
        BY <2>7, <4>2
    <3>4. q[d] = x + k /\ q[j] = y
      BY <2>10, <3>3
    <3>5. y - x <= Len(R)
      <4>1. y <= p[n]
        <5>1. j < n => p[j] + 6 <= p[n]
          BY <2>sizes, <2>places
        <5>2. j < n \/ j = n
          BY <2>sizes
        <5> QED
          BY <2>7, <3>3, <5>1, <5>2
      <4>2. Len(R) \in Nat
        BY <2>blank
      <4> QED
        BY <2>places, <2>7, <3>3, <4>1, <4>2
    <3>6. CASE j = d + 1
      <4>1. u = x /\ q[j - 1] = x + k
        BY <2>sizes, <2>10, <3>3, <3>6
      <4>2. Holds(R, 0, y - x - 6, Msg(j))
        BY <3>1, <3>3, <4>1
      <4>3. PICK e \in 0..Len(Msg(j)) :
              /\ \A i \in 1..e : Msg(j)[i] = "NL"
              /\ y - x - 6 = 0 + Len(Msg(j)) - e
              /\ \A i \in 1..(Len(Msg(j)) - e) : R[0 + i] = Msg(j)[e + i]
        BY <4>2 DEF Holds
      <4>4. PICK l \in Nat : l = Len(Msg(j))
        BY <3>2
      <4>5. x + k + 6 <= y
        BY <2>8, <3>3, <3>6, <2>sizes
      <4>6. e \in 0..l /\ y - x - 6 = l - e /\ k <= l - e /\ e + k \in 0..l
        BY <2>sizes, <4>3, <4>4, <4>5
      <4>7. \A i \in 1..(l - e) : R[i] = Msg(j)[e + i]
        <5> TAKE i \in 1..(l - e)
        <5>1. 0 + i = i
          OBVIOUS
        <5> QED
          BY <4>3, <4>4, <5>1
      <4>8. ASSUME NEW i \in 1..(e + k) PROVE Msg(j)[i] = "NL"
        <5>1. CASE i <= e
          BY <4>3, <4>6, <5>1
        <5>2. CASE i > e
          <6>1. i - e \in 1..k /\ i - e \in 1..(l - e) /\ e + (i - e) = i
            BY <2>sizes, <4>6, <5>2
          <6> QED
            BY <2>blank, <4>7, <6>1
        <5> QED
          BY <4>6, <5>1, <5>2
      <4>9. ASSUME NEW i \in 1..(l - (e + k)) PROVE wire[0 + i] = Msg(j)[(e + k) + i]
        <5>1. k + i \in 1..(l - e) /\ e + (k + i) = (e + k) + i /\ 0 + i = i
          BY <2>sizes, <4>6
        <5>2. i \in 1..Len(wire)
          <6>1. Len(wire) \in Nat /\ Len(R) = k + Len(wire)
            BY <2>blank
          <6>2. l - e + 6 <= k + Len(wire)
            BY <3>5, <4>6, <6>1
          <6> QED
            BY <2>sizes, <4>6, <6>1, <6>2
        <5> QED
          BY <2>blank, <4>7, <5>1, <5>2
      <4>10. y - (x + k) - 6 = 0 + l - (e + k)
        BY <2>sizes, <4>6
      <4>11. Holds(wire, 0, y - (x + k) - 6, Msg(j))
        BY <4>4, <4>6, <4>8, <4>9, <4>10 DEF Holds
      <4>12. (x + k) - (x + k) = 0
        BY <2>sizes
      <4> QED
        BY <3>4, <4>1, <4>11, <4>12
    <3>7. CASE j > d + 1
      <4>1. j - 1 \in (d + 1)..n /\ q[j - 1] = u
        BY <2>sizes, <2>10, <3>3, <3>7
      <4>2. x + k + 6 <= u
        <5>1. d + 1 \in d..n /\ d < n /\ j - 1 \in d..n /\ p[d + 1] \in Nat
          BY <2>sizes, <2>7, <3>7
        <5>2. p[d] + k + 6 <= p[d + 1]
          BY <2>8, <5>1
        <5>3. d + 1 < j - 1 => p[d + 1] + 6 <= p[j - 1]
          BY <2>places, <5>1
        <5>4. d + 1 = j - 1 \/ d + 1 < j - 1
          BY <2>sizes, <3>7
        <5>5. PICK y1 \in Nat : y1 = p[d + 1]
          BY <5>1
        <5>6. x + k + 6 <= y1 /\ (y1 = u \/ y1 + 6 <= u)
          BY <3>3, <5>2, <5>3, <5>4, <5>5
        <5> QED
          BY <2>sizes, <5>6
      <4> DEFINE a == u - (x + k)
                 z == y - (x + k) - 6
      <4>3. a \in Nat /\ z \in Int /\ u - x = k + a /\ y - x - 6 = k + z
        BY <2>sizes, <4>2
      <4>4. z <= Len(wire)
        <5>1. Len(wire) \in Nat /\ Len(R) = k + Len(wire)
          BY <2>blank
        <5>2. y - x <= k + Len(wire)
          BY <3>5, <5>1
        <5> QED
          BY <2>sizes, <5>1, <5>2
      <4>5. Holds(R, u - x, y - x - 6, Msg(j))
        BY <3>1, <3>3
      <4> HIDE DEF a, z
      <4>6. Holds(wire, a, z, Msg(j))
        <5>1. \A i \in 1..Len(wire) : wire[i] = R[k + i]
          BY <2>blank
        <5>2. Holds(R, k + a, k + z, Msg(j))
          BY <4>3, <4>5
        <5>3. Len(wire) \in Nat
          BY <2>blank
        <5> QED
          BY <2>sizes, <3>2, <4>3, <4>4, <5>1, <5>2, <5>3, HoldsOn
      <4> QED
        BY <3>4, <4>1, <4>6 DEF a, z
    <3> QED
      BY <2>sizes, <3>6, <3>7
  <2>13. Delimited(q)'
    <3>1. Len(dispatched') = d /\ Len(sent') = n /\ damaged' = damaged /\ sent' = sent
      BY <1>1 DEF d, n, server
    <3>2. Cut(q, Len(dispatched'), Len(sent'), Rest')
      BY <2>5, <2>11, <3>1
    <3>3. ASSUME NEW j \in (Len(dispatched') + 1)..Len(sent'), j \notin damaged'
          PROVE  Holds(Rest', q[j - 1] - q[Len(dispatched')],
                       q[j] - q[Len(dispatched')] - 6, sent'[j].msg)
      BY <2>5, <2>12, <3>1, <3>3 DEF Msg
    <3> QED
      BY <3>2, <3>3 DEF Delimited, Msg
  <2>14. Searching'
    <3>1. Len(buffer') = 0
      BY <2>0, EmptySeq
    <3>2. 1..(Len(buffer') - 5) = {}
      BY <3>1
    <3> QED
      BY <1>1, <2>0, <3>2 DEF Searching, server
  <2> QED
    BY <1>2, <2>13, <2>14
<1> QED
  BY <1>3, <1>4

\* With the hello the stream of chunks begins; nothing has followed the hello.
LEMMA ChunksBegin ==
  ASSUME Len(sent') = 1, Len(dispatched') = 1,
         at' = "rest10", remaining' = <<>>, wire' = <<>>, unsent' = <<>>, message_list' = <<>>
  PROVE  Listening' /\ \E ks : InChunks(ks)'
<1>1. PICK k \in Mark : k.p = 0 /\ k.m = 2 /\ k.o = 0
  <2>1. [p |-> 0, m |-> 2, o |-> 0] \in Mark
    BY DEF Mark
  <2> QED
    BY <2>1
<1>2. PICK ks \in Seq(Mark) : ks # <<>> /\ Len(ks) = 1 /\ ks[1] = k
  <2>1. <<k>> \in Seq(Mark) /\ <<k>> # <<>> /\ Len(<<k>>) = 1 /\ <<k>>[1] = k
    OBVIOUS
  <2> QED
    BY <2>1
<1>3. Rest' = <<>> /\ Len(Rest') = 0
  BY EmptySeq, ConcatEmptySeq DEF Rest
<1>4. IsMark(k)'
  BY <1>1 DEF IsMark
<1>5. Marked(ks, Rest)'
  <2>1. \A j \in 1..Len(ks) : j = 1
    BY <1>2
  <2>2. 1..(Len(ks) - 1) = {}
    BY <1>2
  <2>3. ks[Len(ks)].p = ks[1].p + Len(Rest')
    BY <1>1, <1>2, <1>3
  <2>4. /\ \A j \in 1..Len(ks) : IsMark(ks[j])'
        /\ \A i, j \in 1..Len(ks) : i <= j => ks[i].p <= ks[j].p /\ ks[i].m <= ks[j].m
    BY <1>1, <1>2, <1>4, <2>1
  <2> QED
    BY <1>2, <2>2, <2>3, <2>4 DEF Marked
<1>6. Taken(ks[1])' /\ Written(ks[Len(ks)])'
  BY <1>1, <1>2 DEF Taken, Written
<1>7. InChunks(ks)'
  BY <1>2, <1>5, <1>6 DEF InChunks
<1> QED
  BY <1>3, <1>7 DEF Listening

LEMMA Dispatch10Next ==
  ASSUME TypeOK, Agreed, ~Chunked, Searching, DispatchedIntact,
         NEW p, Delimited(p), Dispatch10
  PROVE  /\ DispatchedIntact'
         /\ IF Chunked' THEN Listening' /\ \E ks : InChunks(ks)'
            ELSE Searching' /\ \E q : Delimited(q)'
<1> DEFINE d == Len(dispatched)
           n == Len(sent)
           R == Rest
<1>1. /\ d \in Nat /\ n \in Nat /\ d <= n
      /\ buffer \in Seq(Bytes) /\ wire \in Seq(Bytes)
      /\ Len(buffer) \in Nat /\ Len(wire) \in Nat /\ parsing_pos10 \in Nat
  BY DEF TypeOK, Searching
<1>2. at = "parse10" /\ DelimsFrom(buffer, parsing_pos10) # {}
  BY DEF Dispatch10
<1>3. R = buffer \o wire
  BY <1>2 DEF Rest
<1>4. Cut(p, d, n, R)
  BY DEF Delimited
<1>5. /\ p \in [d..n -> Nat] /\ p[n] = p[d] + Len(R)
      /\ \A i, j \in d..n : i < j => p[i] + 6 <= p[j]
  BY <1>4 DEF Cut
<1>6. /\ R \in Seq(Bytes) /\ Len(R) = Len(buffer) + Len(wire)
      /\ \A i \in 1..Len(buffer) : R[i] = buffer[i]
      /\ \A i \in 1..Len(wire) : R[Len(buffer) + i] = wire[i]
  BY <1>1, <1>3, Joined
<1> DEFINE first == Min(DelimsFrom(buffer, 0))
           rest  == From(buffer, first + MSG_DELIM_LEN)
           text  == SubSeq(buffer, 1, first - 1)
<1>7. /\ dispatched' = Append(dispatched, Strip(Decode(text)))
      /\ remaining' = Decode(rest)
      /\ damaged' = IF rest # <<>> /\ Last(rest) = "c1"
                    THEN damaged \cup {MessageAtEnd(rest)} ELSE damaged
      /\ at' = "rest10"
      /\ UNCHANGED <<buffer, parsing_pos10, message_list, replaced, connect, server>>
  BY DEF Dispatch10
<1> HIDE DEF d, n, R, first, rest, text
<1>8. PICK x \in Nat, y \in Nat :
        /\ d < n /\ x = p[d] /\ y = p[d + 1]
        /\ first = y - x - 5 /\ x + 6 <= y /\ y - x <= Len(buffer)
  BY <1>1, <1>2, <1>3, <1>4, <1>5, FirstOfCut DEF first
<1>9. PICK k \in Nat : k = y - x /\ 6 <= k /\ k <= Len(buffer)
                       /\ first + MSG_DELIM_LEN = k + 1 /\ first - 1 = k - 6 /\ y = x + k
  <2>1. y - x \in Nat /\ 6 <= y - x /\ (y - x - 5) + 6 = (y - x) + 1
        /\ (y - x - 5) - 1 = (y - x) - 6 /\ y = x + (y - x)
    <3>1. x + 6 <= y
      BY <1>8
    <3> QED
      BY <3>1
  <2>2. MSG_DELIM_LEN = 6
    BY DelimIs
  <2> QED
    BY <1>8, <2>1, <2>2
<1>10. /\ rest \in Seq(Bytes) /\ Len(rest) = Len(buffer) - k /\ Len(rest) \in Nat
       /\ \A i \in 1..Len(rest) : rest[i] = buffer[k + i]
  <2>1. k + 1 \in 1..(Len(buffer) + 1)
    BY <1>1, <1>9
  <2>2. /\ rest \in Seq(Bytes) /\ Len(rest) = Len(buffer) - (k + 1) + 1
        /\ \A i \in 1..(Len(buffer) - (k + 1) + 1) : rest[i] = buffer[(k + 1) + i - 1]
    <3>1. rest = From(buffer, k + 1)
      BY <1>9 DEF rest
    <3>2. /\ From(buffer, k + 1) \in Seq(Bytes)
          /\ Len(From(buffer, k + 1)) = Len(buffer) - (k + 1) + 1
          /\ \A i \in 1..(Len(buffer) - (k + 1) + 1) :
               From(buffer, k + 1)[i] = buffer[(k + 1) + i - 1]
      BY <1>1, <2>1, FromIs
    <3> QED
      BY <3>1, <3>2
  <2>3. Len(buffer) - (k + 1) + 1 = Len(buffer) - k /\ Len(buffer) - k \in Nat
        /\ \A i \in Int : (k + 1) + i - 1 = k + i
    BY <1>1, <1>9
  <2>4. Len(rest) = Len(buffer) - k
    BY <2>2, <2>3
  <2>5. ASSUME NEW i \in 1..Len(rest) PROVE rest[i] = buffer[k + i]
    <3>1. i \in 1..(Len(buffer) - (k + 1) + 1) /\ (k + 1) + i - 1 = k + i
      BY <2>3, <2>4
    <3> QED
      BY <2>2, <3>1
  <2> QED
    BY <2>2, <2>3, <2>4, <2>5
<1>11. /\ text \in Seq(Bytes) /\ Len(text) = k - 6
       /\ \A i \in 1..(k - 6) : text[i] = R[0 + i]
  <2>1. 1 \in 1..(Len(buffer) + 1) /\ k - 6 \in (1 - 1)..Len(buffer)
    BY <1>1, <1>9
  <2>2. /\ text \in Seq(Bytes) /\ Len(text) = (k - 6) - 1 + 1
        /\ \A i \in 1..((k - 6) - 1 + 1) : text[i] = buffer[1 + i - 1]
    <3>1. text = SubSeq(buffer, 1, k - 6)
      BY <1>9 DEF text
    <3>2. /\ SubSeq(buffer, 1, k - 6) \in Seq(Bytes)
          /\ Len(SubSeq(buffer, 1, k - 6)) = (k - 6) - 1 + 1
          /\ \A i \in 1..((k - 6) - 1 + 1) : SubSeq(buffer, 1, k - 6)[i] = buffer[1 + i - 1]
      BY <1>1, <2>1, PieceIs
    <3> QED
      BY <3>1, <3>2
  <2>3. (k - 6) - 1 + 1 = k - 6 /\ \A i \in 1..(k - 6) : 1 + i - 1 = 0 + i /\ 0 + i \in 1..Len(buffer)
    BY <1>1, <1>9
  <2> QED
    BY <1>6, <2>2, <2>3
<1>12. /\ Len(dispatched') = d + 1
       /\ \A i \in 1..d : dispatched'[i] = dispatched[i]
       /\ dispatched'[d + 1] = Strip(Decode(text))
  <2>1. dispatched \in Seq(Seq(Bytes)) /\ Strip(Decode(text)) \in Seq(Bytes)
    BY <1>11, DecodeType, StripType DEF TypeOK
  <2> QED
    BY <1>7, <2>1, AppendProperties DEF d
<1>13. damaged \subseteq damaged' /\ sent' = sent /\ negotiated' = negotiated /\ wire' = wire
       /\ unsent' = unsent /\ connecting' = connecting
  BY <1>7 DEF connect, server
<1>14. d + 1 \in 1..Len(sent) /\ d + 1 \in (d + 1)..n /\ n = Len(sent)
  BY <1>1, <1>8 DEF n
\* What is dispatched is the next message.
<1>15. DispatchedIntact'
  <2>1. ASSUME d + 1 \notin damaged
        PROVE  dispatched'[d + 1] = Expected(d + 1)
    <3>1. Holds(R, p[(d + 1) - 1] - p[d], p[d + 1] - p[d] - 6, Msg(d + 1))
      BY <1>14, <2>1 DEF Delimited, d, n, R
    <3>2. p[(d + 1) - 1] - p[d] = 0 + 0 /\ p[d + 1] - p[d] - 6 = 0 + (k - 6)
      <4>1. (d + 1) - 1 = d /\ x - x = 0 + 0 /\ y - x - 6 = 0 + (k - 6)
        BY <1>1, <1>9
      <4> QED
        BY <1>8, <4>1
    <3>3. Msg(d + 1) \in Seq(Bytes) /\ \A i \in 1..Len(Msg(d + 1)) : ~IsHalf(Msg(d + 1), i)
      BY <1>14, SentIs DEF Msg
    <3>4. Holds(R, 0 + 0, 0 + (k - 6), Msg(d + 1))
      BY <3>1, <3>2
    <3>5. Holds(text, 0, k - 6, Msg(d + 1))
      <4>1. PICK u \in Nat : u = k - 6
        BY <1>9
      <4>2. \A i \in 1..u : text[i] = R[0 + i]
        BY <1>11, <4>1
      <4>3. Holds(R, 0 + 0, 0 + u, Msg(d + 1)) /\ u <= u /\ u \in Int /\ 0 \in Nat
        BY <3>4, <4>1
      <4> HIDE DEF Msg
      <4>4. Holds(text, 0, u, Msg(d + 1))
        BY <3>3, <4>2, <4>3, HoldsOn
      <4> QED
        BY <4>1, <4>4
    <3>6. Decode(text) = text /\ Strip(text) = Strip(Msg(d + 1))
      BY <1>11, <3>3, <3>5, WholeText
    <3>7. sent[d + 1].framing = 10
      <4>1. sent[d + 1].framing = IF d + 1 = 1 THEN 10 ELSE negotiated
        BY <1>14 DEF DispatchedIntact
      <4>2. d + 1 # 1 => negotiated = 10
        <5>1. d # 0 => dispatched # <<>>
          BY EmptySeq DEF d
        <5> QED
          BY <1>1, <5>1 DEF Chunked, TypeOK
      <4> QED
        BY <4>1, <4>2
    <3> QED
      BY <1>12, <3>6, <3>7 DEF Expected, Msg
  <2>2. ASSUME NEW i \in 1..Len(dispatched'), i \notin damaged'
        PROVE  dispatched'[i] = Expected(i)
    <3>1. i \in 1..d \/ i = d + 1
      BY <1>1, <1>12
    <3>2. i \notin damaged
      BY <1>13, <2>2
    <3>3. CASE i \in 1..d
      BY <1>12, <3>2, <3>3 DEF DispatchedIntact, d
    <3> QED
      BY <2>1, <3>1, <3>2, <3>3
  <2> QED
    BY <1>13, <2>2 DEF DispatchedIntact, Expected
<1>16. Rest' = Decode(rest) \o wire
  BY <1>7, <1>13 DEF Rest
<1>17. CASE Chunked'
  <2>1. dispatched = <<>> /\ d = 0
    BY <1>13, <1>17, EmptySeq DEF Chunked, d
  <2>2. n = 1
    <3>1. connecting = "hello"
      BY <2>1 DEF Agreed
    <3>2. n <= 1
      BY <3>1 DEF Agreed, n
    <3>3. 0 < n
      BY <1>8, <2>1
    <3> QED
      BY <1>1, <3>2, <3>3
  <2>3. Len(R) = k
    <3>1. y = x + Len(R) /\ Len(R) \in Nat
      BY <1>1, <1>5, <1>6, <1>8, <2>1, <2>2
    <3> QED
      BY <1>9, <3>1
  <2>4. Len(wire) = 0 /\ Len(rest) = 0
    BY <1>1, <1>6, <1>9, <1>10, <2>3
  <2>5. wire' = <<>> /\ remaining' = <<>>
    <3>1. Len(Decode(rest)) = 0 /\ Decode(rest) \in Seq(Bytes)
      BY <1>10, <2>4, DecodeType
    <3>2. \A s \in Seq(Bytes) : Len(s) = 0 => s = <<>>
      OBVIOUS
    <3> QED
      BY <1>1, <1>7, <1>13, <2>4, <3>1, <3>2
  <2>6. /\ Len(sent') = 1 /\ Len(dispatched') = 1
        /\ at' = "rest10" /\ unsent' = <<>> /\ message_list' = <<>>
    BY <1>7, <1>12, <1>13, <2>1, <2>2 DEF n, Searching
  <2>7. Listening' /\ \E ks : InChunks(ks)'
    BY <2>5, <2>6, ChunksBegin
  <2> QED
    BY <1>15, <1>17, <2>7
<1>18. CASE ~Chunked'
  <2> DEFINE R1 == rest \o wire
             R2 == Decode(rest) \o wire
             e  == d + 1
  <2>1. /\ R1 \in Seq(Bytes) /\ Len(R1) = Len(rest) + Len(wire)
        /\ \A i \in 1..Len(rest) : R1[i] = rest[i]
        /\ \A i \in 1..Len(wire) : R1[Len(rest) + i] = wire[i]
    BY <1>1, <1>10, Joined
  <2>2. /\ R2 \in Seq(Bytes) /\ Len(R2) = Len(rest) + Len(wire)
        /\ \A i \in 1..Len(rest) : R2[i] = Decode(rest)[i]
        /\ \A i \in 1..Len(wire) : R2[Len(rest) + i] = wire[i]
    <3>1. Decode(rest) \in Seq(Bytes) /\ Len(Decode(rest)) = Len(rest)
      BY <1>10, DecodeType
    <3>2. /\ R2 \in Seq(Bytes) /\ Len(R2) = Len(Decode(rest)) + Len(wire)
          /\ \A i \in 1..Len(Decode(rest)) : R2[i] = Decode(rest)[i]
          /\ \A i \in 1..Len(wire) : R2[Len(Decode(rest)) + i] = wire[i]
      BY <1>1, <3>1, Joined
    <3> HIDE DEF R2
    <3> QED
      BY <3>1, <3>2
  <2> HIDE DEF R1, R2
  <2>3. e \in Nat /\ e <= n /\ e \in d..n /\ e - 1 = d
    BY <1>1, <1>8
  <2>4. PICK q \in [e..n -> Nat] : \A j \in e..n : q[j] = p[j]
    <3> DEFINE f == [j \in e..n |-> p[j]]
    <3>1. \A j \in e..n : p[j] \in Nat
      BY <1>1, <1>5, <2>3
    <3>2. f \in [e..n -> Nat] /\ \A j \in e..n : f[j] = p[j]
      BY <3>1
    <3> HIDE DEF f
    <3> QED
      BY <3>2
  <2>5. q[e] = y
    <3>1. e \in e..n
      BY <2>3
    <3> QED
      BY <1>8, <2>4, <3>1
  <2>6. Len(R) = k + Len(R1) /\ Len(R2) = Len(R1) /\ Len(R1) \in Nat
    BY <1>1, <1>6, <1>9, <1>10, <2>1, <2>2
  <2>7. \A i \in 1..Len(R1) : R1[i] = R[k + i]
    <3> TAKE i \in 1..Len(R1)
    <3>1. CASE i \in 1..Len(rest)
      <4>1. k + i \in 1..Len(buffer)
        BY <1>1, <1>9, <1>10, <3>1
      <4> QED
        BY <1>6, <1>10, <2>1, <3>1, <4>1
    <3>2. CASE i \notin 1..Len(rest)
      <4> DEFINE u == i - Len(rest)
      <4>1. u \in 1..Len(wire) /\ Len(rest) + u = i /\ Len(buffer) + u = k + i
        BY <1>1, <1>9, <1>10, <2>1, <3>2
      <4> HIDE DEF u
      <4> QED
        BY <1>6, <2>1, <4>1
    <3> QED
      BY <3>1, <3>2
  <2>8. Follows(R1, R, k)
    BY <2>6, <2>7 DEF Follows
  <2>9. Follows(R2, R, k)
    <3>1. ASSUME NEW i \in 1..Len(R2)
          PROVE  R2[i] = R[k + i] \/ (R2[i] = "?" /\ R[k + i] \in {"c1", "c2"})
      <4>1. R1[i] = R[k + i] /\ i \in 1..Len(R1)
        BY <2>6, <2>7
      <4>2. CASE i \in 1..Len(rest)
        <5>1. Decode(rest)[i] = IF IsHalf(rest, i) THEN "?" ELSE rest[i]
          BY <1>10, <4>2, DecodeType
        <5>2. IsHalf(rest, i) => rest[i] \in {"c1", "c2"}
          BY DEF IsHalf
        <5> QED
          BY <2>1, <2>2, <4>1, <4>2, <5>1, <5>2
      <4>3. CASE i \notin 1..Len(rest)
        <5> DEFINE u == i - Len(rest)
        <5>0. i \in Int /\ i > Len(rest) /\ i <= Len(rest) + Len(wire)
          BY <1>10, <2>1, <4>1, <4>3
        <5>1. u \in 1..Len(wire) /\ Len(rest) + u = i
          BY <1>1, <1>10, <5>0
        <5> HIDE DEF u
        <5> QED
          BY <2>1, <2>2, <4>1, <5>1
      <4> QED
        BY <4>2, <4>3
    <3> QED
      BY <2>6, <3>1 DEF Follows
  <2>10. /\ q[e] = p[d] + k
         /\ \A j \in (e + 1)..n : q[j] = p[j]
         /\ e < n => q[e] + 6 <= p[e + 1]
         /\ e = n => k = Len(R)
         /\ \A j \in (d + 1)..e : p[j] - p[d] - 5 <= k
    <3>1. q[e] = p[d] + k
      BY <1>8, <1>9, <2>5
    <3>2. \A j \in (e + 1)..n : q[j] = p[j]
      <4> TAKE j \in (e + 1)..n
      <4>1. j \in e..n
        BY <2>3
      <4> QED
        BY <2>4, <4>1
    <3>3. e < n => q[e] + 6 <= p[e + 1]
      <4> SUFFICES ASSUME e < n PROVE q[e] + 6 <= p[e + 1]
        OBVIOUS
      <4>1. e \in d..n /\ e + 1 \in d..n /\ e < e + 1
        BY <1>1, <2>3
      <4>2. p[e] + 6 <= p[e + 1]
        BY <1>5, <4>1
      <4> QED
        BY <1>8, <2>5, <4>2
    <3>4. e = n => k = Len(R)
      <4> SUFFICES ASSUME e = n PROVE k = Len(R)
        OBVIOUS
      <4>1. y = x + Len(R) /\ Len(R) \in Nat
        BY <1>1, <1>5, <1>6, <1>8
      <4> QED
        BY <1>9, <4>1
    <3>5. \A j \in (d + 1)..e : p[j] - p[d] - 5 <= k
      <4> TAKE j \in (d + 1)..e
      <4>1. j = d + 1 /\ y - x - 5 <= k
        BY <1>1, <1>9
      <4> QED
        BY <1>8, <4>1
    <3> QED
      BY <3>1, <3>2, <3>3, <3>4, <3>5
  <2> HIDE DEF e
  <2>11. Cut(q, e, n, R1) /\ Cut(q, e, n, R2)
    <3>1. d \in Nat /\ n \in Nat /\ R \in Seq(Bytes) /\ R1 \in Seq(Bytes) /\ R2 \in Seq(Bytes)
          /\ p \in [d..n -> Nat]
      BY <1>1, <1>5, <1>6, <2>1, <2>2
    <3>2. Cut(q, e, n, R1)
      BY <1>4, <2>3, <2>8, <2>10, <3>1, CutDrop
    <3>3. Cut(q, e, n, R2)
      BY <1>4, <2>3, <2>9, <2>10, <3>1, CutDrop
    <3> QED
      BY <3>2, <3>3
  <2>12. PICK v \in e..n :
           /\ Cardinality(DelimsFrom(rest, 0)) = v - e
           /\ q[v] - q[e] <= Len(rest)
           /\ v < n => Len(rest) < q[v + 1] - q[e]
    BY <1>1, <1>10, <2>3, <2>4, <2>11, WholeMessages DEF R1
  <2>13. MessageAtEnd(rest) = v + 1
    BY <1>1, <2>3, <2>12 DEF MessageAtEnd, d, e
  <2>14. \A i, j \in e..n : i < j => q[i] + 6 <= q[j]
    BY <2>11 DEF Cut
  <2>15. q[n] = y + Len(R1)
    BY <2>5, <2>11 DEF Cut
  <2>16. \A j \in e..n : q[j] \in Nat
    BY <2>4
  <2>17. ASSUME NEW j \in (e + 1)..n, j \notin damaged'
         PROVE  Holds(R2, q[j - 1] - q[e], q[j] - q[e] - 6, Msg(j))
    <3>1. j \in (d + 1)..n /\ j \in 1..Len(sent) /\ j \in e..n /\ j - 1 \in e..n /\ j - 1 < j
          /\ n \in e..n /\ e \in e..n
      BY <1>1, <1>14, <2>3
    <3>2. Holds(R, p[j - 1] - p[d], p[j] - p[d] - 6, Msg(j))
      BY <1>13, <2>17, <3>1 DEF Delimited, d, n, R
    <3>3. Msg(j) \in Seq(Bytes) /\ \A i \in 1..Len(Msg(j)) : ~IsHalf(Msg(j), i)
      BY <3>1, SentIs DEF Msg
    <3>4. PICK s \in Nat, t \in Nat : s = q[j - 1] /\ t = q[j]
      BY <2>16, <3>1
    <3>5. p[j - 1] = s /\ p[j] = t
      BY <2>4, <3>1, <3>4
    <3>6. y <= s /\ s + 6 <= t /\ t <= y + Len(R1)
      <4>1. e < j - 1 => q[e] + 6 <= q[j - 1]
        BY <2>14, <3>1
      <4>2. e = j - 1 \/ e < j - 1
        BY <2>3, <3>1
      <4>3. s + 6 <= t
        BY <2>14, <3>1, <3>4
      <4>4. j < n => q[j] + 6 <= q[n]
        BY <2>14, <3>1
      <4>5. j = n \/ j < n
        BY <1>1, <3>1
      <4>6. y <= s
        BY <2>5, <3>4, <4>1, <4>2
      <4>7. t <= q[n]
        BY <2>16, <3>1, <3>4, <4>4, <4>5
      <4> QED
        BY <2>15, <4>3, <4>6, <4>7
    <3> DEFINE a == s - y
               z == t - y - 6
    <3>7. a \in Nat /\ z \in Int /\ s - x = k + a /\ t - x - 6 = k + z /\ z <= Len(R1) /\ a < z + 6
          /\ t - y = z + 6
      BY <1>9, <2>6, <3>6
    <3>8. Holds(R, s - x, t - x - 6, Msg(j))
      BY <1>8, <3>2, <3>5
    <3> HIDE DEF a, z
    <3>9. Holds(R1, a, z, Msg(j))
      <4>1. Holds(R, k + a, k + z, Msg(j))
        BY <3>7, <3>8
      <4> HIDE DEF Msg
      <4> QED
        BY <2>6, <2>7, <3>3, <3>7, <4>1, HoldsOn
    <3>10. ~(rest # <<>> /\ Last(rest) = "c1" /\ a < Len(rest) /\ Len(rest) < z)
      <4> SUFFICES ASSUME rest # <<>>, Last(rest) = "c1", a < Len(rest), Len(rest) < z PROVE FALSE
        OBVIOUS
      <4>1. v + 1 \in damaged'
        BY <1>7, <2>13
      <4>2. v + 1 # j
        BY <2>17, <4>1
      <4>3. PICK g \in Nat : g = q[v]
        BY <2>12, <2>16
      <4>4. g - y <= Len(rest)
        BY <2>5, <2>12, <4>3
      <4>5. ~(j <= v)
        <5> SUFFICES ASSUME j <= v PROVE FALSE
          OBVIOUS
        <5>1. j < v => q[j] + 6 <= q[v]
          BY <2>12, <2>14, <3>1
        <5>2. j = v \/ j < v
          BY <2>12, <3>1
        <5>3. t <= g
          BY <3>4, <4>3, <5>1, <5>2
        <5>4. t - y <= g - y
          BY <1>8, <5>3
        <5> QED
          BY <1>10, <3>7, <4>4, <5>4
      <4>6. ~(v < j - 1)
        <5> SUFFICES ASSUME v < j - 1 PROVE FALSE
          OBVIOUS
        <5>1. v + 1 \in e..n /\ v < n
          BY <2>12, <3>1
        <5>2. PICK h \in Nat : h = q[v + 1]
          BY <2>16, <5>1
        <5>3. v + 1 < j - 1 => q[v + 1] + 6 <= q[j - 1]
          BY <2>14, <3>1, <5>1
        <5>4. v + 1 = j - 1 \/ v + 1 < j - 1
          BY <2>12, <3>1
        <5>5. h <= s
          BY <3>4, <5>2, <5>3, <5>4
        <5>6. Len(rest) < h - y
          BY <2>5, <2>12, <5>1, <5>2
        <5>7. s - y = a
          BY DEF a
        <5>8. a < Len(rest) /\ Len(rest) \in Nat
          BY <1>10
        <5>9. s - y < Len(rest)
          BY <5>7, <5>8
        <5> QED
          BY <5>5, <5>6, <5>8, <5>9
      <4> QED
        BY <2>12, <3>1, <4>2, <4>5, <4>6
    <3>11. Holds(R2, a, z, Msg(j))
      <4>1. Holds(rest \o wire, a, z, Msg(j)) /\ z <= Len(rest) + Len(wire)
        BY <2>1, <3>7, <3>9 DEF R1
      <4> HIDE DEF Msg
      <4> QED
        BY <1>1, <1>10, <3>3, <3>7, <3>10, <4>1, HoldsDecoded DEF R2
    <3> QED
      BY <2>5, <3>4, <3>11 DEF a, z
  <2>18. Delimited(q)'
    <3>1. Len(dispatched') = e /\ Len(sent') = n /\ Rest' = R2
      BY <1>12, <1>13, <1>14, <1>16 DEF e, R2
    <3>2. Cut(q, Len(dispatched'), Len(sent'), Rest')
      BY <2>11, <3>1
    <3>3. ASSUME NEW j \in (Len(dispatched') + 1)..Len(sent'), j \notin damaged'
          PROVE  Holds(Rest', q[j - 1] - q[Len(dispatched')],
                       q[j] - q[Len(dispatched')] - 6, sent'[j].msg)
      BY <1>13, <2>17, <3>1, <3>3 DEF Msg
    <3> QED
      BY <3>2, <3>3 DEF Delimited, Msg
  <2>19. Searching'
    <3>1. Len(dispatched') <= Len(sent')
      BY <1>1, <1>8, <1>12, <1>13, <1>14
    <3> QED
      BY <1>7, <1>13, <3>1 DEF Searching
  <2> QED
    BY <1>15, <1>18, <2>18, <2>19
<1> QED
  BY <1>17, <1>18

LEMMA ConnectSearches ==
  ASSUME ~Chunked, Searching, NEW p, Delimited(p), SelectBase \/ ReplaceParser
  PROVE  ~Chunked' /\ Searching' /\ Delimited(p)'
<1>1. UNCHANGED <<buffer, message_list, remaining, at, negotiated, server, dispatched, damaged>>
  BY DEF SelectBase, ReplaceParser, parser
<1>2. parsing_pos10' = parsing_pos10 \/ parsing_pos10' = 0
  BY DEF SelectBase, ReplaceParser, parser
<1>3. Rest' = Rest
  BY <1>1 DEF Rest, server
<1>4. Searching'
  BY <1>1, <1>2 DEF Searching, server
<1> QED
  BY <1>1, <1>3, <1>4, DelimitedStays DEF Chunked, server

\* The server sends one message more, with its delimiter.
LEMMA ServerDelimits ==
  ASSUME TypeOK, ~Chunked, Searching, DispatchedIntact, NEW p, Delimited(p),
         NEW m \in Payloads \cup {Hello}, IsDelimited(m),
         sent' = Append(sent, [msg |-> m, framing |-> 10]),
         sent # <<>> => negotiated = 10,
         wire' = wire \o Frame10(m),
         UNCHANGED <<parser, connect, unsent, dispatched, damaged>>
  PROVE  ~Chunked' /\ DispatchedIntact' /\ Searching' /\ \E q : Delimited(q)'
<1> DEFINE d == Len(dispatched)
           n == Len(sent)
           R == Rest
           R2 == R \o Frame10(m)
<1>1. /\ d \in Nat /\ n \in Nat /\ d <= n /\ R \in Seq(Bytes) /\ Len(R) \in Nat
      /\ m \in Seq(Bytes) /\ Len(m) \in Nat
  BY RestType, FrameTypes DEF TypeOK, Searching
<1>2. /\ sent \in Seq([msg : Payloads \cup {Hello}, framing : {10, 11}])
      /\ [msg |-> m, framing |-> 10] \in [msg : Payloads \cup {Hello}, framing : {10, 11}]
  BY DEF TypeOK
<1>3. /\ Len(sent') = n + 1
      /\ \A j \in 1..n : sent'[j] = sent[j]
      /\ sent'[n + 1] = [msg |-> m, framing |-> 10]
  BY <1>2, AppendProperties
<1>4. Cut(p, d, n, R)
  BY DEF Delimited
<1>5. Rest' = R2
  <2>1. UNCHANGED <<at, remaining, buffer>>
    BY DEF parser
  <2>2. wire \in Seq(Bytes) /\ Frame10(m) \in Seq(Bytes)
    BY FrameTypes DEF TypeOK
  <2>3. PICK b \in Seq(Bytes) : b = IF at = "rest10" THEN remaining ELSE buffer
    BY DEF TypeOK
  <2>4. b \o (wire \o Frame10(m)) = (b \o wire) \o Frame10(m)
    BY <2>2, ConcatAssociative
  <2>5. R2 = (b \o wire) \o Frame10(m) /\ Rest' = b \o (wire \o Frame10(m))
    BY <2>1, <2>3 DEF Rest
  <2> QED
    BY <2>4, <2>5
<1> HIDE DEF d, n, R
<1>6. PICK q : /\ Cut(q, d, n + 1, R2)
               /\ \A j \in d..n : q[j] = p[j]
               /\ \A i \in 1..Len(R) : R2[i] = R[i]
               /\ \A i \in 1..Len(m) : R2[Len(R) + i] = m[i]
  <2>1. /\ \A i \in 1..Len(R) : (R \o (m \o MSG_DELIM))[i] = R[i]
        /\ \A i \in 1..Len(m) : (R \o (m \o MSG_DELIM))[Len(R) + i] = m[i]
        /\ \E q : /\ Cut(q, d, n + 1, R \o (m \o MSG_DELIM))
                 /\ \A j \in d..n : q[j] = p[j]
                 /\ q[n + 1] = p[n] + Len(m) + 6
    BY <1>1, <1>4, CutMore
  <2> QED
    BY <2>1 DEF Frame10
<1> HIDE DEF R2
<1>7. /\ p \in [d..n -> Nat] /\ p[n] = p[d] + Len(R)
      /\ \A i, j \in d..n : i < j => p[i] + 6 <= p[j]
  BY <1>4 DEF Cut
<1>8. /\ q[n + 1] = q[d] + Len(R2) /\ Len(R2) = Len(R) + Len(m) + 6
  <2>1. Frame10(m) \in Seq(Bytes) /\ Len(Frame10(m)) = Len(m) + 6
    BY FrameTypes
  <2>2. Len(R2) = Len(R) + Len(Frame10(m))
    BY <1>1, <2>1, Joined DEF R2
  <2> QED
    BY <1>1, <1>6, <2>1, <2>2 DEF Cut
<1>9. ASSUME NEW j \in (d + 1)..(n + 1), j \notin damaged
      PROVE  Holds(R2, q[j - 1] - q[d], q[j] - q[d] - 6, sent'[j].msg)
  <2>1. d \in d..n /\ n \in d..n /\ j - 1 \in d..n
    BY <1>1
  <2>2. PICK x \in Nat, u \in Nat : x = p[d] /\ u = p[j - 1] /\ q[d] = x /\ q[j - 1] = u
    BY <1>6, <1>7, <2>1
  <2>3. x <= u
    <3>1. d < j - 1 => p[d] + 6 <= p[j - 1]
      BY <1>7, <2>1
    <3>2. d = j - 1 \/ d < j - 1
      BY <1>1, <2>1
    <3> QED
      BY <2>2, <3>1, <3>2
  <2>4. CASE j \in (d + 1)..n
    <3>1. j \in 1..Len(sent) /\ sent'[j] = sent[j] /\ j \in d..n
      BY <1>1, <1>3, <2>4 DEF n
    <3>2. PICK y \in Nat : y = p[j] /\ q[j] = y
      BY <1>6, <1>7, <3>1
    <3>3. Holds(R, u - x, y - x - 6, Msg(j))
      BY <1>9, <2>2, <2>4, <3>2 DEF Delimited, d, n, R
    <3>4. Msg(j) \in Seq(Bytes)
      BY <3>1, SentIs DEF Msg
    <3>5. y - x <= Len(R)
      <4>1. j < n => p[j] + 6 <= p[n]
        BY <1>7, <2>1, <3>1
      <4>2. j = n \/ j < n
        BY <1>1, <2>4
      <4>3. PICK v \in Nat : v = p[n] /\ v = x + Len(R)
        <5>1. p[n] \in Nat
          BY <1>7, <2>1
        <5>2. p[n] = x + Len(R)
          BY <1>7, <2>2
        <5> QED
          BY <5>1, <5>2
      <4>4. y <= v
        <5>1. j < n => y + 6 <= v
          BY <3>2, <4>1, <4>3
        <5>2. j = n => y = v
          BY <3>2, <4>3
        <5> QED
          BY <3>2, <4>2, <5>1, <5>2
      <4> QED
        BY <1>1, <4>3, <4>4
    <3> DEFINE a == u - x
               z == y - x - 6
    <3>6. a \in Nat /\ z \in Int /\ 0 + a = a /\ 0 + z = z /\ z <= Len(R) /\ 0 \in Nat
      BY <1>1, <2>3, <3>5
    <3>7. Holds(R, a, z, Msg(j))
      BY <3>3
    <3> HIDE DEF a, z
    <3>8. \A i \in 1..Len(R) : R2[i] = R[0 + i]
      <4> TAKE i \in 1..Len(R)
      <4>1. 0 + i = i
        OBVIOUS
      <4> QED
        BY <1>6, <4>1
    <3>9. Holds(R2, a, z, Msg(j))
      <4>1. Holds(R, 0 + a, 0 + z, Msg(j))
        BY <3>6, <3>7
      <4> HIDE DEF Msg
      <4> QED
        BY <1>1, <3>4, <3>6, <3>8, <4>1, HoldsOn
    <3> QED
      BY <2>2, <3>1, <3>2, <3>9 DEF a, z, Msg
  <2>5. CASE j = n + 1
    <3>1. u = x + Len(R)
      BY <1>1, <1>7, <2>2, <2>5
    <3>2. q[j] = x + (Len(R) + Len(m) + 6)
      BY <1>8, <2>2, <2>5
    <3>3. u - x = Len(R) /\ (x + (Len(R) + Len(m) + 6)) - x - 6 = Len(R) + Len(m) - 0
          /\ Len(m) - 0 = Len(m)
      BY <1>1, <3>1
    <3>4. Holds(R2, Len(R), Len(R) + Len(m) - 0, m)
      <4>1. 0 \in 0..Len(m) /\ \A i \in 1..0 : m[i] = "NL"
        BY <1>1
      <4>2. \A i \in 1..(Len(m) - 0) : R2[Len(R) + i] = m[0 + i]
        <5> TAKE i \in 1..(Len(m) - 0)
        <5>1. i \in 1..Len(m) /\ 0 + i = i
          BY <3>3
        <5> QED
          BY <1>6, <5>1
      <4> QED
        BY <4>1, <4>2 DEF Holds
    <3>5. sent'[j].msg = m
      BY <1>3, <2>5
    <3> QED
      BY <2>2, <3>2, <3>3, <3>4, <3>5
  <2>6. j \in (d + 1)..n \/ j = n + 1
    BY <1>1
  <2> QED
    BY <2>4, <2>5, <2>6
<1>10. Delimited(q)'
  <2>1. Len(dispatched') = d /\ Len(sent') = n + 1 /\ damaged' = damaged
    BY <1>3 DEF d
  <2>2. Cut(q, Len(dispatched'), Len(sent'), Rest')
    BY <1>5, <1>6, <2>1
  <2>3. ASSUME NEW j \in (Len(dispatched') + 1)..Len(sent'), j \notin damaged'
        PROVE  Holds(Rest', q[j - 1] - q[Len(dispatched')],
                     q[j] - q[Len(dispatched')] - 6, sent'[j].msg)
    BY <1>5, <1>9, <2>1, <2>3
  <2> QED
    BY <2>2, <2>3 DEF Delimited, Msg
<1>11. Searching'
  <2>1. Len(dispatched') <= Len(sent')
    BY <1>1, <1>3 DEF d
  <2> QED
    BY <2>1 DEF Searching, parser
<1>12. DispatchedIntact'
  <2>1. ASSUME NEW i \in 1..Len(sent')
        PROVE  sent'[i].framing = IF i = 1 THEN 10 ELSE negotiated'
    <3>1. negotiated' = negotiated
      BY DEF connect
    <3>2. CASE i \in 1..n
      BY <1>3, <3>1, <3>2 DEF DispatchedIntact, n
    <3>3. CASE i = n + 1
      <4>1. n # 0 => sent # <<>>
        BY EmptySeq DEF n
      <4> QED
        BY <1>1, <1>3, <3>1, <3>3, <4>1
    <3> QED
      BY <1>1, <1>3, <3>2, <3>3
  <2>2. ASSUME NEW i \in 1..Len(dispatched'), i \notin damaged'
        PROVE  dispatched'[i] = IF sent'[i].framing = 10 THEN Strip(sent'[i].msg) ELSE sent'[i].msg
    <3>1. i \in 1..n /\ i \in 1..Len(dispatched)
      BY <1>1 DEF d
    <3>2. sent'[i] = sent[i]
      BY <1>3, <3>1
    <3> QED
      BY <2>2, <3>1, <3>2 DEF DispatchedIntact, Expected
  <2> QED
    BY <2>1, <2>2 DEF DispatchedIntact, Expected
<1> QED
  BY <1>10, <1>11, <1>12 DEF Chunked, connect

\* A step while messages are delimited.
LEMMA SearchingNext ==
  ASSUME TypeOK, Agreed, ~Chunked, Searching, DispatchedIntact, NEW p, Delimited(p),
         Next, garbage' = garbage
  PROVE  /\ DispatchedIntact'
         /\ IF Chunked' THEN Listening' /\ \E ks : InChunks(ks)'
            ELSE Searching' /\ \E q : Delimited(q)'
<1>1. CASE Read
  BY <1>1, Read10, IntactStays DEF Read, connect
<1>2. CASE Dispatch10
  BY <1>2, Dispatch10Next
<1>3. CASE Rest10
  BY <1>3, Rest10Searches, IntactStays DEF Rest10, connect, server
<1>4. CASE KeepPosition10
  BY <1>4, KeepPosition10Searches, IntactStays DEF KeepPosition10, connect, server
<1>5. CASE TakeChunk \/ AwaitChunk \/ EndOfMessage \/ NoDelimiter
  BY <1>5 DEF TakeChunk, AwaitChunk, EndOfMessage, NoDelimiter, Searching
<1>6. CASE SelectBase \/ ReplaceParser
  <2>1. UNCHANGED <<sent, dispatched, damaged, negotiated>>
    BY <1>6 DEF SelectBase, ReplaceParser, server
  <2> QED
    BY <1>6, <2>1, ConnectSearches, IntactStays
<1>7. CASE ServerHello
  <2>1. sent' = Append(sent, [msg |-> Hello, framing |-> 10]) /\ sent = <<>>
    <3>1. sent = <<>> /\ sent' = <<[msg |-> Hello, framing |-> 10]>>
      BY <1>7 DEF ServerHello
    <3>2. Append(<<>>, [msg |-> Hello, framing |-> 10]) = <<[msg |-> Hello, framing |-> 10]>>
      OBVIOUS
    <3> QED
      BY <3>1, <3>2
  <2>2. /\ wire' = wire \o Frame10(Hello)
        /\ UNCHANGED <<parser, connect, unsent, dispatched, damaged>>
    BY <1>7 DEF ServerHello
  <2>3. Hello \in Payloads \cup {Hello} /\ IsDelimited(Hello)
    BY FramingAssumption
  <2> QED
    BY <2>1, <2>2, <2>3, ServerDelimits
<1>8. CASE ServerSend
  <2>1. dispatched # <<>> /\ negotiated = 10
    <3>1. connecting = "done"
      BY <1>8 DEF ServerSend
    <3> QED
      BY <3>1 DEF Agreed, Chunked, TypeOK
  <2>2. PICK m \in Payloads :
          /\ sent' = Append(sent, [msg |-> m, framing |-> negotiated])
          /\ IsDelimited(m) /\ wire' = wire \o Frame10(m) /\ unsent' = unsent
    BY <1>8, <2>1 DEF ServerSend
  <2>3. UNCHANGED <<parser, connect, dispatched, damaged>>
    BY <1>8 DEF ServerSend
  <2> QED
    BY <2>1, <2>2, <2>3, ServerDelimits
<1>9. CASE ServerChunk
  BY <1>9 DEF ServerChunk, Searching
<1>10. CASE ServerGarbage
  <2>1. garbage' = garbage + 1 /\ garbage \in Nat
    BY <1>10, FramingAssumption DEF ServerGarbage, TypeOK
  <2> QED
    BY <2>1
<1> QED
  BY <1>1, <1>2, <1>3, <1>4, <1>5, <1>6, <1>7, <1>8, <1>9, <1>10 DEF Next, Parse

-----------------------------------------------------------------------------
(* Marks between chunks                                                     *)

LEMMA MarkIs ==
  ASSUME NEW ks \in Seq(Mark), ks # <<>>
  PROVE  /\ Len(ks) \in Nat /\ 1 <= Len(ks) /\ 1 \in 1..Len(ks) /\ Len(ks) \in 1..Len(ks)
         /\ \A j \in 1..Len(ks) :
              ks[j] \in Mark /\ ks[j].p \in Nat /\ ks[j].m \in Nat /\ ks[j].o \in Nat
<1>1. Len(ks) \in Nat /\ Len(ks) # 0
  BY EmptySeq, LenProperties
<1>2. \A j \in 1..Len(ks) : ks[j] \in Mark
  BY ElementOfSeq
<1> QED
  BY <1>1, <1>2 DEF Mark

\* A piece of a stream between two marks begins with four bytes.
LEMMA PieceLength ==
  ASSUME NEW R, NEW b, NEW m, NEW k \in Mark, NEW l \in Mark, IsPiece(R, b, k, l, m)
  PROVE  k.p + 4 <= l.p /\ k.m <= l.m
<1>1. k.p \in Nat /\ l.p \in Nat /\ k.o \in Nat /\ l.o \in Nat /\ k.m \in Nat
  BY DEF Mark
<1> QED
  BY <1>1 DEF IsPiece, IsChunk, IsLast

\* What is behind the first mark.
LEMMA FirstPiece ==
  ASSUME NEW R \in Seq(Bytes), NEW ks, Marked(ks, R)
  PROVE  /\ ks \in Seq(Mark) /\ Len(ks) \in Nat /\ 1 <= Len(ks)
         /\ ks[1] \in Mark /\ IsMark(ks[1])
         /\ Len(ks) = 1 => R = <<>>
         /\ Len(ks) # 1 =>
              /\ ks[2] \in Mark /\ IsMark(ks[2]) /\ ks[1].m <= Len(sent)
              /\ ks[1].p + 4 <= ks[2].p /\ ks[2].p <= ks[1].p + Len(R)
              /\ IsPiece(R, ks[1].p, ks[1], ks[2], Msg(ks[1].m))
<1>1. /\ ks \in Seq(Mark) /\ ks # <<>>
      /\ ks[Len(ks)].p = ks[1].p + Len(R)
      /\ \A j \in 1..Len(ks) : IsMark(ks[j])
      /\ \A i, j \in 1..Len(ks) : i <= j => ks[i].p <= ks[j].p /\ ks[i].m <= ks[j].m
      /\ \A j \in 1..(Len(ks) - 1) :
           ks[j].m <= Len(sent) /\ IsPiece(R, ks[1].p, ks[j], ks[j + 1], Msg(ks[j].m))
  BY DEF Marked
<1>2. /\ Len(ks) \in Nat /\ 1 <= Len(ks) /\ 1 \in 1..Len(ks) /\ Len(ks) \in 1..Len(ks)
      /\ \A j \in 1..Len(ks) :
           ks[j] \in Mark /\ ks[j].p \in Nat /\ ks[j].m \in Nat /\ ks[j].o \in Nat
  BY <1>1, MarkIs
<1>3. CASE Len(ks) = 1
  <2>1. PICK x \in Nat : x = ks[1].p
    BY <1>2
  <2>2. Len(R) \in Nat /\ x = x + Len(R)
    BY <1>1, <1>3, <2>1
  <2>3. Len(R) = 0
    BY <2>2
  <2> QED
    <3>1. R = <<>>
      BY <2>3, EmptySeq
    <3>2. ks[1] \in Mark /\ IsMark(ks[1])
      BY <1>1, <1>2
    <3>3. ks \in Seq(Mark) /\ Len(ks) \in Nat /\ 1 <= Len(ks)
      BY <1>1, <1>2
    <3> QED
      BY <1>3, <3>1, <3>2, <3>3
<1>4. CASE Len(ks) # 1
  <2>1. 2 \in 1..Len(ks) /\ 1 \in 1..(Len(ks) - 1) /\ 1 + 1 = 2 /\ 2 <= Len(ks)
    <3>1. PICK n \in Nat : n = Len(ks) /\ 1 <= n /\ n # 1
      BY <1>2, <1>4
    <3>2. 2 \in 1..n /\ 1 \in 1..(n - 1) /\ 1 + 1 = 2 /\ 2 <= n
      BY <3>1
    <3> QED
      BY <3>1, <3>2
  <2>2. ks[1].m <= Len(sent)
        /\ IsPiece(R, ks[1].p, ks[1], ks[2], Msg(ks[1].m))
    BY <1>1, <2>1
  <2>3. ks[2].p <= ks[1].p + Len(R)
    BY <1>1, <1>2, <2>1
  <2>4. ks[1].p + 4 <= ks[2].p
    BY <1>2, <2>1, <2>2, PieceLength
  <2> QED
    BY <1>1, <1>2, <1>4, <2>1, <2>2, <2>3, <2>4
<1> QED
  BY <1>3, <1>4

\* A mark stays one when a reply begins and when a character is damaged.
LEMMA MarkStays ==
  ASSUME TypeOK, TypeOK', NEW k \in Mark, IsMark(k), damaged \subseteq damaged',
         \/ sent' = sent
         \/ Len(sent') = Len(sent) + 1 /\ \A i \in 1..Len(sent) : sent'[i] = sent[i]
  PROVE  IsMark(k)'
<1>1. Len(sent) \in Nat /\ k.m \in Nat /\ k.o \in Nat
  BY DEF TypeOK, Mark
<1>2. 1 < k.m
  BY DEF IsMark
<1>3. CASE sent' = sent
  BY <1>3 DEF IsMark, Msg
<1>4. CASE Len(sent') = Len(sent) + 1 /\ \A i \in 1..Len(sent) : sent'[i] = sent[i]
  <2>1. CASE k.m <= Len(sent)
    <3>1. k.m \in 1..Len(sent) /\ k.m <= Len(sent')
      BY <1>1, <1>2, <1>4, <2>1
    <3>2. sent'[k.m] = sent[k.m]
      BY <1>4, <3>1
    <3> QED
      BY <2>1, <3>1, <3>2 DEF IsMark, Msg
  <2>2. CASE ~(k.m <= Len(sent))
    <3>1. k.m = Len(sent') /\ k.o = 0
      BY <1>4, <2>2 DEF IsMark
    <3>2. sent'[k.m] \in [msg : Payloads \cup {Hello}, framing : {10, 11}]
      <4>1. k.m \in 1..Len(sent')
        BY <1>1, <1>2, <3>1
      <4> QED
        BY <4>1, ElementOfSeq DEF TypeOK
    <3>3. Len(sent'[k.m].msg) \in Nat
      BY <3>2, FrameTypes
    <3>4. 0 <= Len(sent'[k.m].msg) /\ k.m <= Len(sent') /\ ~(0 > 0)
      BY <1>1, <3>1, <3>3
    <3> QED
      BY <1>2, <3>1, <3>4 DEF IsMark, Msg
  <2> QED
    BY <2>1, <2>2
<1> QED
  BY <1>3, <1>4

\* So do all the marks in a stream that does not change.
LEMMA MarkedStays ==
  ASSUME TypeOK, TypeOK', NEW R \in Seq(Bytes), NEW ks, Marked(ks, R), damaged \subseteq damaged',
         \/ sent' = sent
         \/ Len(sent') = Len(sent) + 1 /\ \A i \in 1..Len(sent) : sent'[i] = sent[i]
  PROVE  Marked(ks, R)'
<1>1. /\ ks \in Seq(Mark) /\ ks # <<>>
      /\ ks[Len(ks)].p = ks[1].p + Len(R)
      /\ \A j \in 1..Len(ks) : IsMark(ks[j])
      /\ \A i, j \in 1..Len(ks) : i <= j => ks[i].p <= ks[j].p /\ ks[i].m <= ks[j].m
      /\ \A j \in 1..(Len(ks) - 1) :
           ks[j].m <= Len(sent) /\ IsPiece(R, ks[1].p, ks[j], ks[j + 1], Msg(ks[j].m))
  BY DEF Marked
<1>2. /\ Len(ks) \in Nat
      /\ \A j \in 1..Len(ks) :
           ks[j] \in Mark /\ ks[j].p \in Nat /\ ks[j].m \in Nat /\ ks[j].o \in Nat
  BY <1>1, MarkIs
<1>3. \A j \in 1..Len(ks) : IsMark(ks[j])'
  BY <1>1, <1>2, MarkStays
<1>4. ASSUME NEW j \in 1..(Len(ks) - 1)
      PROVE  /\ ks[j].m <= Len(sent')
             /\ IsPiece(R, ks[1].p, ks[j], ks[j + 1], sent'[ks[j].m].msg)
  <2>1. j \in 1..Len(ks)
    BY <1>2
  <2>2. IsMark(ks[j]) /\ ks[j].m \in Nat /\ ks[j].m <= Len(sent)
    BY <1>1, <1>2, <2>1
  <2>3. ks[j].m \in 1..Len(sent) /\ ks[j].m <= Len(sent')
    <3>1. 1 < ks[j].m
      BY <2>2 DEF IsMark
    <3>2. Len(sent) \in Nat /\ Len(sent) <= Len(sent')
      BY DEF TypeOK
    <3> QED
      BY <2>2, <3>1, <3>2
  <2>4. sent'[ks[j].m] = sent[ks[j].m]
    BY <2>3
  <2>5. IsPiece(R, ks[1].p, ks[j], ks[j + 1], Msg(ks[j].m))
    BY <1>1
  <2> QED
    BY <2>3, <2>4, <2>5 DEF Msg
<1> QED
  BY <1>1, <1>3, <1>4 DEF Marked, Msg

\* A piece of the stream is the same in any part of the stream that holds it.
LEMMA PieceMoves ==
  ASSUME NEW R, NEW R2, NEW b \in Nat, NEW b2 \in Nat, NEW m,
         NEW k \in Mark, NEW l \in Mark, IsPiece(R, b, k, l, m),
         \A x \in (k.p + 1)..l.p : R2[x - b2] = R[x - b]
  PROVE  IsPiece(R2, b2, k, l, m)
<1>1. PICK p \in Nat, q \in Nat, o \in Nat, u \in Nat : p = k.p /\ q = l.p /\ o = k.o /\ u = l.o
  BY DEF Mark
<1>2. p + 4 <= q
  BY <1>1, PieceLength
<1>3. ASSUME NEW e \in 1..(q - p) PROVE R2[p - b2 + e] = R[p - b + e]
  <2>1. p + e \in (k.p + 1)..l.p /\ (p + e) - b2 = p - b2 + e /\ (p + e) - b = p - b + e
    BY <1>1
  <2> QED
    BY <2>1
<1>4. 1 \in 1..(q - p) /\ 2 \in 1..(q - p) /\ 3 \in 1..(q - p) /\ 4 \in 1..(q - p)
  BY <1>2
<1>5. CASE IsLast(R, b, k, l, m)
  BY <1>1, <1>3, <1>4, <1>5 DEF IsPiece, IsLast
<1>6. CASE IsChunk(R, b, k, l, m)
  <2>1. /\ l.m = k.m /\ o < u /\ u - o <= 9 /\ q = p + 4 + (u - o)
        /\ R[p - b + 1] = "NL" /\ R[p - b + 2] = "#"
        /\ R[p - b + 3] = Digits[u - o] /\ R[p - b + 4] = "NL"
        /\ \A i \in 1..(u - o) : R[p - b + 4 + i] = m[o + i]
    BY <1>1, <1>6 DEF IsChunk
  <2>2. ASSUME NEW i \in 1..(u - o) PROVE R2[p - b2 + 4 + i] = m[o + i]
    <3>1. 4 + i \in 1..(q - p) /\ p - b2 + (4 + i) = p - b2 + 4 + i /\ p - b + (4 + i) = p - b + 4 + i
      BY <2>1
    <3>2. R2[p - b2 + (4 + i)] = R[p - b + (4 + i)]
      BY <1>3, <3>1
    <3> QED
      BY <2>1, <3>1, <3>2
  <2>3. /\ R2[p - b2 + 1] = "NL" /\ R2[p - b2 + 2] = "#"
        /\ R2[p - b2 + 3] = Digits[u - o] /\ R2[p - b2 + 4] = "NL"
    BY <1>3, <1>4, <2>1
  <2> QED
    BY <1>1, <2>1, <2>2, <2>3 DEF IsPiece, IsChunk
<1> QED
  BY <1>5, <1>6 DEF IsPiece

\* What the parser consumes is up to the second mark.
LEMMA MarksDrop ==
  ASSUME NEW R \in Seq(Bytes), NEW ks, Marked(ks, R), Len(ks) # 1,
         NEW R2 \in Seq(Bytes), NEW c \in Nat, ks[2].p = ks[1].p + c,
         Len(R) = c + Len(R2), \A i \in 1..Len(R2) : R2[i] = R[c + i]
  PROVE  \E ls : /\ Marked(ls, R2) /\ ls[1] = ks[2] /\ ls[Len(ls)] = ks[Len(ks)]
                /\ Len(ls) \in Nat /\ 1 <= Len(ls)
<1>1. /\ ks \in Seq(Mark) /\ ks # <<>>
      /\ ks[Len(ks)].p = ks[1].p + Len(R)
      /\ \A j \in 1..Len(ks) : IsMark(ks[j])
      /\ \A i, j \in 1..Len(ks) : i <= j => ks[i].p <= ks[j].p /\ ks[i].m <= ks[j].m
      /\ \A j \in 1..(Len(ks) - 1) :
           ks[j].m <= Len(sent) /\ IsPiece(R, ks[1].p, ks[j], ks[j + 1], Msg(ks[j].m))
  BY DEF Marked
<1>2. /\ Len(ks) \in Nat /\ 1 <= Len(ks)
      /\ \A j \in 1..Len(ks) :
           ks[j] \in Mark /\ ks[j].p \in Nat /\ ks[j].m \in Nat /\ ks[j].o \in Nat
  BY <1>1, MarkIs
<1>3. PICK ls \in Seq(Mark) : /\ Len(ls) = Len(ks) - 1
                             /\ \A j \in 1..Len(ls) : ls[j] = ks[j + 1]
  <2>1. /\ Tail(ks) \in Seq(Mark) /\ Len(Tail(ks)) = Len(ks) - 1
        /\ \A j \in 1..Len(Tail(ks)) : Tail(ks)[j] = ks[j + 1]
    <3>1. ks \in Seq(Mark) /\ ks # <<>>
      BY <1>1
    <3> QED
      BY <3>1, HeadTailProperties
  <2> QED
    BY <2>1
<1>4. PICK n \in Nat : n = Len(ls) /\ Len(ks) = n + 1 /\ 1 <= n
  BY <1>2, <1>3
<1>5. \A j \in 1..n : j + 1 \in 1..Len(ks) /\ ls[j] = ks[j + 1]
  BY <1>3, <1>4
<1>6. PICK b \in Nat : b = ks[1].p /\ ks[2].p = b + c
  <2>1. 1 \in 1..Len(ks)
    BY <1>4
  <2> QED
    BY <1>2, <2>1
<1>7. ls[1] = ks[2] /\ ls[n] = ks[n + 1] /\ ls # <<>>
  <2>1. ls[1] = ks[1 + 1] /\ ls[n] = ks[n + 1]
    BY <1>4, <1>5
  <2>2. ls # <<>>
    BY <1>4
  <2> QED
    BY <2>1, <2>2
<1>8. ks[n + 1].p = b + Len(R) /\ b + Len(R) = (b + c) + Len(R2)
  BY <1>1, <1>4, <1>6
<1>9. \A j \in 1..n : IsMark(ls[j])
  BY <1>1, <1>5
<1>10. ASSUME NEW i \in 1..n, NEW j \in 1..n, i <= j
       PROVE  ls[i].p <= ls[j].p /\ ls[i].m <= ls[j].m
  <2>1. i + 1 \in 1..Len(ks) /\ j + 1 \in 1..Len(ks) /\ i + 1 <= j + 1
    BY <1>5, <1>10
  <2> QED
    BY <1>1, <1>5, <2>1
<1>11. ASSUME NEW j \in 1..(n - 1)
       PROVE  ls[j].m <= Len(sent) /\ IsPiece(R2, b + c, ls[j], ls[j + 1], Msg(ls[j].m))
  <2>1. j + 1 \in 1..(Len(ks) - 1) /\ j \in 1..n /\ j + 1 \in 1..n /\ 1 <= n
        /\ j + 1 \in 1..Len(ks) /\ (j + 1) + 1 \in 1..Len(ks) /\ (j + 1) + 1 <= n + 1
        /\ n + 1 \in 1..Len(ks) /\ 2 \in 1..Len(ks) /\ 2 <= j + 1
    BY <1>4
  <2>2. ls[j] = ks[j + 1] /\ ls[j + 1] = ks[(j + 1) + 1]
    BY <1>5, <2>1
  <2>3. ks[j + 1].m <= Len(sent)
        /\ IsPiece(R, b, ks[j + 1], ks[(j + 1) + 1], Msg(ks[j + 1].m))
    BY <1>1, <1>6, <2>1
  <2>4. PICK p \in Nat, q \in Nat : p = ks[j + 1].p /\ q = ks[(j + 1) + 1].p
    BY <1>2, <2>1
  <2>5. b + c <= p
    BY <1>1, <1>6, <2>1, <2>4
  <2>6. q <= (b + c) + Len(R2)
    BY <1>1, <1>8, <2>1, <2>4
  <2>7. ASSUME NEW x \in (p + 1)..q PROVE R2[x - (b + c)] = R[x - b]
    <3>1. x - (b + c) \in 1..Len(R2) /\ c + (x - (b + c)) = x - b
      BY <2>5, <2>6
    <3> QED
      BY <3>1
  <2>8. \A x \in (ks[j + 1].p + 1)..(ks[(j + 1) + 1].p) : R2[x - (b + c)] = R[x - b]
    BY <2>4, <2>7
  <2>9. IsPiece(R2, b + c, ks[j + 1], ks[(j + 1) + 1], Msg(ks[j + 1].m))
    <3>1. b + c \in Nat /\ ks[j + 1] \in Mark /\ ks[(j + 1) + 1] \in Mark
      BY <1>2, <2>1
    <3> QED
      BY <2>3, <2>8, <3>1, PieceMoves
  <2> QED
    BY <2>2, <2>3, <2>9
<1>12. Marked(ls, R2)
  BY <1>3, <1>4, <1>6, <1>7, <1>8, <1>9, <1>10, <1>11 DEF Marked
<1> QED
  BY <1>4, <1>7, <1>12

\* The server adds a piece with the mark behind it.
LEMMA MarkAppended ==
  ASSUME NEW R \in Seq(Bytes), NEW ks, Marked(ks, R)',
         NEW T \in Seq(Bytes), NEW l \in Mark, IsMark(l)',
         l.p = ks[Len(ks)].p + Len(T), ks[Len(ks)].m <= Len(sent'),
         IsPiece(T, ks[Len(ks)].p, ks[Len(ks)], l, sent'[ks[Len(ks)].m].msg)
  PROVE  \E ls : /\ Marked(ls, R \o T)'
                 /\ Len(ls) = Len(ks) + 1 /\ ls[1] = ks[1] /\ ls[Len(ls)] = l
                 /\ Len(ks) > 1 => ls[2] = ks[2]
<1>1. /\ ks \in Seq(Mark) /\ ks # <<>>
      /\ ks[Len(ks)].p = ks[1].p + Len(R)
      /\ \A j \in 1..Len(ks) : IsMark(ks[j])'
      /\ \A i, j \in 1..Len(ks) : i <= j => ks[i].p <= ks[j].p /\ ks[i].m <= ks[j].m
      /\ \A j \in 1..(Len(ks) - 1) :
           ks[j].m <= Len(sent') /\ IsPiece(R, ks[1].p, ks[j], ks[j + 1], sent'[ks[j].m].msg)
  BY DEF Marked, Msg
<1>2. /\ Len(ks) \in Nat /\ 1 <= Len(ks)
      /\ \A j \in 1..Len(ks) :
           ks[j] \in Mark /\ ks[j].p \in Nat /\ ks[j].m \in Nat /\ ks[j].o \in Nat
  BY <1>1, MarkIs
<1>3. PICK n \in Nat : n = Len(ks) /\ 1 <= n
  BY <1>2
<1>4. PICK ls \in Seq(Mark) : /\ ls # <<>> /\ Len(ls) = n + 1 /\ ls[n + 1] = l
                            /\ \A j \in 1..n : ls[j] = ks[j]
  <2>1. ks \in Seq(Mark)
    BY <1>1
  <2>2. /\ Append(ks, l) \in Seq(Mark) /\ Append(ks, l) # <<>>
        /\ Len(Append(ks, l)) = Len(ks) + 1 /\ Append(ks, l)[Len(ks) + 1] = l
        /\ \A j \in 1..Len(ks) : Append(ks, l)[j] = ks[j]
    BY <2>1, AppendProperties
  <2> QED
    BY <1>3, <2>2
<1>5. PICK b \in Nat, e \in Nat, t \in Nat, r \in Nat :
        /\ b = ks[1].p /\ e = ks[n].p /\ t = Len(T) /\ r = Len(R) /\ e = b + r /\ l.p = e + t
  <2>1. ks[1].p \in Nat /\ ks[n].p \in Nat /\ Len(T) \in Nat /\ Len(R) \in Nat
    BY <1>2, <1>3
  <2> QED
    BY <1>1, <1>3, <2>1
<1> DEFINE S == R \o T
<1>5a. e = b + r
  BY <1>5
<1>6. /\ S \in Seq(Bytes) /\ Len(S) = r + t
      /\ \A i \in 1..r : S[i] = R[i]
      /\ \A i \in 1..t : S[r + i] = T[i]
  <2>1. /\ S \in Seq(Bytes) /\ Len(S) = Len(R) + Len(T)
        /\ \A i \in 1..Len(R) : S[i] = R[i]
        /\ \A i \in 1..Len(T) : S[Len(R) + i] = T[i]
    BY Joined
  <2> HIDE DEF S
  <2> QED
    BY <1>5, <2>1
<1> HIDE DEF S
<1>7. l.p \in Nat /\ l.m \in Nat /\ l.o \in Nat
  BY DEF Mark
<1>8. ks[n] \in Mark /\ n \in 1..n /\ 1 \in 1..n /\ ls[n] = ks[n] /\ ls[1] = ks[1]
  <2>1. n \in 1..n /\ 1 \in 1..n
    BY <1>3
  <2> QED
    BY <1>2, <1>3, <1>4, <2>1
<1>9. IsPiece(T, e, ks[n], l, sent'[ks[n].m].msg) /\ ks[n].m <= Len(sent')
  BY <1>3, <1>5
<1>10. e <= l.p /\ ks[n].m <= l.m
  BY <1>5, <1>7, <1>8, <1>9, PieceLength
<1>11. \A j \in 1..(n + 1) : j \in 1..n \/ j = n + 1
  BY <1>3
<1>12. \A j \in 1..(n + 1) : IsMark(ls[j])'
  BY <1>1, <1>3, <1>4, <1>11
<1>13. ASSUME NEW i \in 1..(n + 1), NEW j \in 1..(n + 1), i <= j
       PROVE  ls[i].p <= ls[j].p /\ ls[i].m <= ls[j].m
  <2>1. CASE j \in 1..n
    <3>1. i \in 1..n
      BY <1>13, <2>1
    <3> QED
      BY <1>1, <1>3, <1>4, <1>13, <2>1, <3>1
  <2>2. CASE j = n + 1 /\ i \in 1..n
    <3>1. ks[i].p <= ks[n].p /\ ks[i].m <= ks[n].m
      <4>1. i <= n /\ i \in 1..Len(ks) /\ n \in 1..Len(ks)
        BY <1>3, <2>2
      <4> QED
        BY <1>1, <4>1
    <3>2. ks[i].p \in Nat /\ ks[i].m \in Nat /\ ks[n].p \in Nat /\ ks[n].m \in Nat
      BY <1>2, <1>3, <1>8, <2>2
    <3>3. ls[i] = ks[i] /\ ls[j] = l
      BY <1>4, <2>2
    <3>4. \A x, y, z \in Nat : x <= y /\ y <= z => x <= z
      OBVIOUS
    <3>5. ks[i].p <= l.p
      <4>1. ks[n].p <= l.p
        BY <1>5, <1>10
      <4> QED
        BY <1>7, <3>1, <3>2, <3>4, <4>1, Zenon
    <3>6. ks[i].m <= l.m
      BY <1>7, <1>10, <3>1, <3>2, <3>4, Zenon
    <3> QED
      BY <3>3, <3>5, <3>6
  <2>3. CASE j = n + 1 /\ i = n + 1
    BY <1>4, <1>7, <2>3
  <2> QED
    BY <1>11, <2>1, <2>2, <2>3
<1>14. ASSUME NEW j \in 1..n
       PROVE  /\ ls[j].m <= Len(sent')
              /\ IsPiece(S, b, ls[j], ls[j + 1], sent'[ls[j].m].msg)
  <2>1. CASE j = n
    <3>1. ASSUME NEW x \in (e + 1)..(e + t) PROVE S[x - b] = T[x - e]
      <4>1. x - e \in 1..t /\ r + (x - e) = x - b
        BY <1>5a
      <4> QED
        BY <1>6, <4>1
    <3>2. \A x \in (ks[n].p + 1)..l.p : S[x - b] = T[x - e]
      BY <1>5, <3>1
    <3>3. IsPiece(S, b, ks[n], l, sent'[ks[n].m].msg)
      BY <1>8, <1>9, <3>2, PieceMoves
    <3> QED
      BY <1>4, <1>8, <1>9, <2>1, <3>3
  <2>2. CASE j # n
    <3>1. j \in 1..(n - 1) /\ j + 1 \in 1..n /\ j + 1 <= n
      BY <1>3, <2>2
    <3>2. ks[j].m <= Len(sent') /\ IsPiece(R, b, ks[j], ks[j + 1], sent'[ks[j].m].msg)
      BY <1>1, <1>3, <1>5, <3>1
    <3>3. PICK p \in Nat, q \in Nat : p = ks[j].p /\ q = ks[j + 1].p
      BY <1>2, <1>3, <3>1
    <3>4. b <= p /\ q <= e
      <4>1. 1 <= j /\ 1 \in 1..Len(ks) /\ j \in 1..Len(ks) /\ j + 1 \in 1..Len(ks)
            /\ n \in 1..Len(ks)
        BY <1>3, <3>1
      <4>2. ks[1].p <= ks[j].p /\ ks[j + 1].p <= ks[n].p
        BY <1>1, <3>1, <4>1
      <4> QED
        BY <1>5, <3>3, <4>2
    <3>5. ASSUME NEW x \in (p + 1)..q PROVE S[x - b] = R[x - b]
      <4>1. x - b \in 1..r
        BY <1>5a, <3>4
      <4> QED
        BY <1>6, <4>1
    <3>6. \A x \in (ks[j].p + 1)..(ks[j + 1].p) : S[x - b] = R[x - b]
      BY <3>3, <3>5
    <3>7. ks[j] \in Mark /\ ks[j + 1] \in Mark
      BY <1>2, <1>3, <3>1
    <3>8. IsPiece(S, b, ks[j], ks[j + 1], sent'[ks[j].m].msg)
      BY <3>2, <3>6, <3>7, PieceMoves
    <3> QED
      BY <1>4, <3>1, <3>2, <3>8
  <2> QED
    BY <2>1, <2>2
<1>15. ls[Len(ls)].p = ls[1].p + Len(S)
  <2>1. b + (r + t) = (b + r) + t
    OBVIOUS
  <2>2. l.p = (b + r) + t /\ ls[1].p = b
    BY <1>5, <1>8
  <2>3. ls[Len(ls)] = l /\ Len(S) = r + t
    BY <1>4, <1>6
  <2> QED
    BY <2>1, <2>2, <2>3
<1>16. Marked(ls, S)'
  <2>1. 1..(Len(ls) - 1) = 1..n /\ 1..Len(ls) = 1..(n + 1) /\ ls[1].p = b
    BY <1>4, <1>5, <1>8
  <2> QED
    BY <1>4, <1>12, <1>13, <1>14, <1>15, <2>1 DEF Marked, Msg
<1>17. Len(ks) > 1 => ls[2] = ks[2]
  <2> SUFFICES ASSUME n > 1 PROVE ls[2] = ks[2]
    BY <1>3
  <2>1. 2 \in 1..n
    OBVIOUS
  <2> QED
    BY <1>4, <2>1
<1> QED
  BY <1>3, <1>4, <1>8, <1>16, <1>17 DEF S

\* Bytes are consumed at the front of the stream.
LEMMA FrontTaken ==
  ASSUME NEW b \in Seq(Bytes), NEW w \in Seq(Bytes), NEW c \in 0..Len(b)
  PROVE  /\ From(b, c + 1) \o w \in Seq(Bytes)
         /\ Len(b \o w) = c + Len(From(b, c + 1) \o w)
         /\ \A i \in 1..Len(From(b, c + 1) \o w) : (From(b, c + 1) \o w)[i] = (b \o w)[c + i]
<1> DEFINE f == From(b, c + 1)
           R == b \o w
           S == f \o w
<1>0. PICK l \in Nat, v \in Nat : l = Len(b) /\ v = Len(w) /\ c \in Nat /\ c <= l
  <2>1. Len(b) \in Nat /\ Len(w) \in Nat
    OBVIOUS
  <2> QED
    BY <2>1
<1>1. f \in Seq(Bytes) /\ Len(f) = l - c /\ \A i \in 1..(l - c) : f[i] = b[c + i]
  <2>1. c + 1 \in 1..(Len(b) + 1)
    BY <1>0
  <2>2. /\ f \in Seq(Bytes) /\ Len(f) = Len(b) - (c + 1) + 1
        /\ \A i \in 1..(Len(b) - (c + 1) + 1) : f[i] = b[(c + 1) + i - 1]
    BY <2>1, FromIs
  <2> HIDE DEF f
  <2>3. Len(b) - (c + 1) + 1 = l - c
    BY <1>0
  <2>4. ASSUME NEW i \in 1..(l - c) PROVE f[i] = b[c + i]
    <3>1. (c + 1) + i - 1 = c + i
      BY <1>0
    <3> QED
      BY <2>2, <2>3, <3>1
  <2> QED
    BY <2>2, <2>3, <2>4
<1> HIDE DEF f
<1>2. /\ R \in Seq(Bytes) /\ Len(R) = l + v
      /\ \A i \in 1..l : R[i] = b[i]
      /\ \A i \in 1..v : R[l + i] = w[i]
  <2>1. /\ R \in Seq(Bytes) /\ Len(R) = Len(b) + Len(w)
        /\ \A i \in 1..Len(b) : R[i] = b[i]
        /\ \A i \in 1..Len(w) : R[Len(b) + i] = w[i]
    BY Joined
  <2> HIDE DEF R
  <2> QED
    BY <1>0, <2>1
<1> HIDE DEF R
<1>3. /\ S \in Seq(Bytes) /\ Len(S) = (l - c) + v
      /\ \A i \in 1..(l - c) : S[i] = f[i]
      /\ \A i \in 1..v : S[(l - c) + i] = w[i]
  <2>1. /\ S \in Seq(Bytes) /\ Len(S) = Len(f) + Len(w)
        /\ \A i \in 1..Len(f) : S[i] = f[i]
        /\ \A i \in 1..Len(w) : S[Len(f) + i] = w[i]
    BY <1>1, Joined
  <2> HIDE DEF S
  <2> QED
    BY <1>0, <1>1, <2>1
<1> HIDE DEF S
<1>4. Len(R) = c + Len(S)
  BY <1>0, <1>2, <1>3
<1>5. ASSUME NEW i \in 1..Len(S) PROVE S[i] = R[c + i]
  <2>0. i \in Nat /\ 1 <= i /\ i <= (l - c) + v
    BY <1>0, <1>3
  <2>1. CASE i <= l - c
    <3>1. i \in 1..(l - c) /\ c + i \in 1..l
      BY <1>0, <2>0, <2>1
    <3> QED
      BY <1>1, <1>2, <1>3, <3>1
  <2>2. CASE ~(i <= l - c)
    <3>1. PICK u \in 1..v : i = (l - c) + u /\ l + u = c + i
      <4> DEFINE x == i - (l - c)
      <4>1. x \in 1..v /\ i = (l - c) + x /\ l + x = c + i
        BY <1>0, <2>0, <2>2
      <4> HIDE DEF x
      <4> QED
        BY <4>1
    <3> QED
      BY <1>2, <1>3, <3>1
  <2> QED
    BY <2>1, <2>2
<1> QED
  BY <1>3, <1>4, <1>5 DEF S, R, f

\* A part of a message between two places that cut no character is text as it is.
LEMMA WholePiece ==
  ASSUME NEW m \in Seq(Bytes), \A i \in 1..Len(m) : ~IsHalf(m, i),
         NEW o \in Nat, NEW u \in Nat, o < u, u <= Len(m),
         o > 0 => m[o] # "c1", m[u] # "c1",
         NEW t \in Seq(Bytes), Len(t) = u - o, \A i \in 1..(u - o) : t[i] = m[o + i]
  PROVE  SubSeq(m, 1, o) \o Decode(t) = SubSeq(m, 1, u)
<1>0. PICK l \in Nat : l = Len(m) /\ u <= l
  BY LenProperties
<1>1. ASSUME NEW i \in 1..(u - o) PROVE ~IsHalf(t, i)
  <2>0. i \in Nat /\ 1 <= i /\ i <= u - o /\ o + i \in 1..l
    BY <1>0
  <2>1. t[i] = m[o + i] /\ ~IsHalf(m, o + i)
    BY <1>0, <2>0
  <2>2. t[i] # "c1" \/ (i < u - o /\ t[i + 1] = "c2")
    <3> SUFFICES ASSUME t[i] = "c1" PROVE i < u - o /\ t[i + 1] = "c2"
      OBVIOUS
    <3>1. m[(o + i) + 1] = "c2"
      BY <2>1 DEF IsHalf
    <3>2. i # u - o
      <4> SUFFICES ASSUME i = u - o PROVE FALSE
        OBVIOUS
      <4>1. o + i = u
        BY <2>0
      <4> QED
        BY <2>1, <4>1
    <3>3. i + 1 \in 1..(u - o) /\ o + (i + 1) = (o + i) + 1 /\ i < u - o
      BY <2>0, <3>2
    <3> QED
      BY <3>1, <3>3
  <2>3. t[i] # "c2" \/ (i > 1 /\ t[i - 1] = "c1")
    <3> SUFFICES ASSUME t[i] = "c2" PROVE i > 1 /\ t[i - 1] = "c1"
      OBVIOUS
    <3>1. o + i > 1 /\ m[(o + i) - 1] = "c1"
      BY <2>1 DEF IsHalf
    <3>2. i # 1
      <4> SUFFICES ASSUME i = 1 PROVE FALSE
        OBVIOUS
      <4>1. (o + i) - 1 = o /\ o > 0
        BY <3>1
      <4> QED
        BY <3>1, <4>1
    <3>3. i - 1 \in 1..(u - o) /\ o + (i - 1) = (o + i) - 1 /\ i > 1
      BY <2>0, <3>2
    <3> QED
      BY <3>1, <3>3
  <2>4. (i < u - o) = (i < Len(t))
    OBVIOUS
  <2> QED
    BY <2>2, <2>3, <2>4 DEF IsHalf
<1>2. Decode(t) = t
  <2>1. /\ Decode(t) \in Seq(Bytes) /\ Len(Decode(t)) = Len(t)
        /\ \A i \in 1..Len(t) : Decode(t)[i] = IF IsHalf(t, i) THEN "?" ELSE t[i]
    BY DecodeType
  <2>2. \A i \in 1..Len(t) : Decode(t)[i] = t[i]
    BY <1>1, <2>1
  <2> QED
    BY <2>1, <2>2, SeqEqual
<1>3. t = SubSeq(m, o + 1, u)
  <2> DEFINE s == SubSeq(m, o + 1, u)
  <2>1. o + 1 \in 1..(Len(m) + 1) /\ u \in ((o + 1) - 1)..Len(m)
    BY <1>0
  <2>2. /\ s \in Seq(Bytes) /\ Len(s) = u - (o + 1) + 1
        /\ \A j \in 1..(u - (o + 1) + 1) : s[j] = m[(o + 1) + j - 1]
    BY <2>1, PieceIs
  <2> HIDE DEF s
  <2>3. u - (o + 1) + 1 = u - o /\ \A j \in 1..(u - o) : (o + 1) + j - 1 = o + j
    OBVIOUS
  <2>4. Len(s) = Len(t) /\ \A j \in 1..Len(t) : t[j] = s[j]
    BY <2>2, <2>3
  <2>5. t = s
    BY <2>2, <2>4, SeqEqual
  <2> QED
    BY <2>5 DEF s
<1>4. SubSeq(m, 1, o) \o SubSeq(m, o + 1, u) = SubSeq(m, 1, u)
  <2>1. 1 \in 1..(Len(m) + 1) /\ o \in (1 - 1)..Len(m) /\ u \in o..Len(m)
    BY <1>0
  <2> QED
    BY <2>1, ConcatAdjacentSubSeq
<1> QED
  BY <1>2, <1>3, <1>4

\* The rest of the rest of a message.
LEMMA FromFrom ==
  ASSUME NEW m \in Seq(Bytes), NEW o \in Nat, o <= Len(m),
         NEW n \in Nat, n <= Len(From(m, o + 1))
  PROVE  /\ Len(From(m, o + 1)) = Len(m) - o
         /\ \A i \in 1..(Len(m) - o) : From(m, o + 1)[i] = m[o + i]
         /\ From(From(m, o + 1), n + 1) = From(m, (o + n) + 1)
<1> DEFINE f == From(m, o + 1)
           g == From(f, n + 1)
           h == From(m, (o + n) + 1)
<1>0. PICK l \in Nat : l = Len(m) /\ o <= l
  BY LenProperties
<1>1. f \in Seq(Bytes) /\ Len(f) = l - o /\ \A i \in 1..(l - o) : f[i] = m[o + i]
  <2>1. o + 1 \in 1..(Len(m) + 1)
    BY <1>0
  <2>2. /\ f \in Seq(Bytes) /\ Len(f) = Len(m) - (o + 1) + 1
        /\ \A i \in 1..(Len(m) - (o + 1) + 1) : f[i] = m[(o + 1) + i - 1]
    BY <2>1, FromIs
  <2> HIDE DEF f
  <2>3. Len(m) - (o + 1) + 1 = l - o /\ \A i \in 1..(l - o) : (o + 1) + i - 1 = o + i
    BY <1>0
  <2> QED
    BY <2>2, <2>3
<1>2. n <= l - o
  BY <1>1
<1> HIDE DEF f
<1>3. /\ g \in Seq(Bytes) /\ Len(g) = l - (o + n)
      /\ \A i \in 1..(l - (o + n)) : g[i] = f[n + i]
  <2>1. n + 1 \in 1..(Len(f) + 1)
    BY <1>0, <1>1, <1>2
  <2>2. /\ g \in Seq(Bytes) /\ Len(g) = Len(f) - (n + 1) + 1
        /\ \A i \in 1..(Len(f) - (n + 1) + 1) : g[i] = f[(n + 1) + i - 1]
    BY <1>1, <2>1, FromIs
  <2> HIDE DEF g
  <2>3. Len(f) - (n + 1) + 1 = l - (o + n) /\ \A i \in 1..(l - (o + n)) : (n + 1) + i - 1 = n + i
    BY <1>0, <1>1
  <2> QED
    BY <2>2, <2>3
<1> HIDE DEF g
<1>4. /\ h \in Seq(Bytes) /\ Len(h) = l - (o + n)
      /\ \A i \in 1..(l - (o + n)) : h[i] = m[(o + n) + i]
  <2>1. (o + n) + 1 \in 1..(Len(m) + 1)
    BY <1>0, <1>2
  <2>2. /\ h \in Seq(Bytes) /\ Len(h) = Len(m) - ((o + n) + 1) + 1
        /\ \A i \in 1..(Len(m) - ((o + n) + 1) + 1) : h[i] = m[((o + n) + 1) + i - 1]
    BY <2>1, FromIs
  <2> HIDE DEF h
  <2>3. Len(m) - ((o + n) + 1) + 1 = l - (o + n)
        /\ \A i \in 1..(l - (o + n)) : ((o + n) + 1) + i - 1 = (o + n) + i
    BY <1>0
  <2> QED
    BY <2>2, <2>3
<1> HIDE DEF h
<1>5. ASSUME NEW i \in 1..(l - (o + n)) PROVE g[i] = h[i]
  <2>1. n + i \in 1..(l - o) /\ o + (n + i) = (o + n) + i
    BY <1>0, <1>2
  <2> QED
    BY <1>1, <1>3, <1>4, <2>1
<1>6. g = h
  BY <1>3, <1>4, <1>5, SeqEqual
<1> QED
  BY <1>0, <1>1, <1>6 DEF f, g, h

-----------------------------------------------------------------------------
(* A step while messages come in chunks                                     *)

\* What was dispatched was sent, the hello at least.
LEMMA DispatchedWasSent ==
  ASSUME TypeOK, Chunked, NEW ks, InChunks(ks)
  PROVE  /\ Len(dispatched) \in Nat /\ 1 <= Len(dispatched)
         /\ Len(sent) \in Nat /\ Len(dispatched) <= Len(sent)
<1>1. Len(dispatched) \in Nat /\ Len(dispatched) # 0 /\ Len(sent) \in Nat
  BY EmptySeq DEF TypeOK, Chunked
<1>2. PICK R \in Seq(Bytes) : R = Rest
  BY RestType
<1>3. Marked(ks, R) /\ ks[1].m = Len(dispatched) + 1
  BY <1>2 DEF InChunks, Taken
<1>4. IsMark(ks[1])
  BY <1>3, FirstPiece
<1>5. Len(dispatched) + 1 <= Len(sent) \/ Len(dispatched) + 1 = Len(sent) + 1
  BY <1>3, <1>4 DEF IsMark
<1> QED
  BY <1>1, <1>5

LEMMA InChunksStays ==
  ASSUME NEW ks, InChunks(ks), Rest' = Rest,
         UNCHANGED <<message_list, sent, unsent, dispatched, damaged>>,
         at' = "select" /\ Len(ks) > 1 => ks[2].p > ks[1].p + Len(buffer')
  PROVE  InChunks(ks)'
BY DEF InChunks, Marked, Taken, Written, IsMark, Msg

\* Something to read comes only when connect() is done.
LEMMA ReadsOn ==
  ASSUME TypeOK, Agreed, Chunked, Listening, NEW ks, InChunks(ks), Read
  PROVE  Listening' /\ InChunks(ks)'
<1>1. PICK n \in 1..Len(wire) : /\ buffer' = buffer \o SubSeq(wire, 1, n)
                                /\ wire' = From(wire, n + 1)
  BY DEF Read
<1>2. /\ at = "select" /\ wire # <<>> /\ at' = IF base = 11 THEN "parse11" ELSE "parse10"
      /\ UNCHANGED <<message_list, connect, sent, unsent, dispatched, damaged>>
  BY DEF Read
<1>3. buffer \in Seq(Bytes) /\ wire \in Seq(Bytes)
  BY DEF TypeOK
<1>4. Rest = buffer \o wire
  BY <1>2 DEF Rest
<1>5. Rest # <<>>
  <2>1. Len(buffer \o wire) = Len(buffer) + Len(wire) /\ Len(buffer) \in Nat /\ Len(wire) \in Nat
    BY <1>3, Joined
  <2>2. Len(wire) # 0
    BY <1>2, <1>3, EmptySeq
  <2>3. Len(buffer \o wire) # 0
    BY <2>1, <2>2
  <2> QED
    BY <1>4, <2>3, EmptySeq
<1>6. connecting = "done"
  BY <1>5 DEF Listening
<1>7. at' = "parse11"
  BY <1>2, <1>6 DEF Agreed, Chunked
<1>8. Rest' = Rest
  <2>1. buffer' \o wire' = buffer \o wire
    BY <1>1, <1>3, ReadMoves
  <2> QED
    BY <1>4, <1>7, <2>1 DEF Rest
<1>9. InChunks(ks)'
  BY <1>2, <1>7, <1>8, InChunksStays
<1>10. Listening'
  BY <1>2, <1>6, <1>7 DEF Listening, connect
<1> QED
  BY <1>9, <1>10

\* The parser after the hello: nothing has followed it yet.
LEMMA Rest10Listens ==
  ASSUME TypeOK, Chunked, Listening, NEW ks, InChunks(ks), Rest10
  PROVE  Listening' /\ InChunks(ks)'
<1>1. at = "rest10" /\ remaining = <<>>
  BY DEF Rest10, Listening
<1>2. Strip(remaining) = <<>>
  <2>1. Len(<<>>) = 0 /\ 1..0 = {}
    OBVIOUS
  <2>2. {i \in 1..Len(remaining) : remaining[i] # "NL"} = {}
    BY <1>1, <2>1
  <2> QED
    BY <2>2 DEF Strip
<1>3. /\ buffer' = <<>> /\ at' = "select"
      /\ UNCHANGED <<message_list, connect, server, dispatched, damaged>>
  BY <1>2 DEF Rest10
<1>4. Rest' = Rest
  BY <1>1, <1>3 DEF Rest, server
<1>5. Len(ks) > 1 => ks[2].p > ks[1].p + Len(buffer')
  <2> SUFFICES ASSUME Len(ks) > 1 PROVE ks[2].p > ks[1].p + 0
    BY <1>3
  <2>1. PICK R \in Seq(Bytes) : R = Rest
    BY RestType
  <2>2. Marked(ks, R)
    BY <2>1 DEF InChunks
  <2>3. ks[1] \in Mark /\ ks[2] \in Mark /\ ks[1].p + 4 <= ks[2].p
    BY <2>2, FirstPiece
  <2> QED
    BY <2>3 DEF Mark
<1>6. InChunks(ks)'
  BY <1>3, <1>4, <1>5, InChunksStays DEF server
<1>7. Listening'
  BY <1>3, <1>4 DEF Listening, connect, server
<1> QED
  BY <1>6, <1>7

LEMMA ConnectListens ==
  ASSUME Chunked, Listening, NEW ks, InChunks(ks), SelectBase \/ ReplaceParser
  PROVE  Listening' /\ InChunks(ks)'
<1>1. UNCHANGED <<buffer, message_list, remaining, at, server, dispatched, damaged>>
  BY DEF SelectBase, ReplaceParser, parser
<1>2. Rest' = Rest
  BY <1>1 DEF Rest, server
<1>3. connecting # "done"
  BY DEF SelectBase, ReplaceParser
<1>4. Listening'
  BY <1>1, <1>2, <1>3 DEF Listening, server
<1>5. InChunks(ks)'
  <2>1. at' = "select" /\ Len(ks) > 1 => ks[2].p > ks[1].p + Len(buffer')
    BY <1>1 DEF InChunks
  <2> QED
    BY <1>1, <1>2, <2>1, InChunksStays DEF server
<1> QED
  BY <1>4, <1>5

\* What _parse11 finds at the beginning of its buffer is the first piece.
LEMMA AtFirstPiece ==
  ASSUME TypeOK, Chunked, Listening, NEW ks, InChunks(ks), at = "parse11"
  PROVE  /\ buffer \in Seq(Bytes) /\ wire \in Seq(Bytes) /\ Len(buffer) \in Nat
         /\ Rest = buffer \o wire /\ Rest \in Seq(Bytes)
         /\ \A i \in 1..Len(buffer) : Rest[i] = buffer[i]
         /\ ks[1] \in Mark /\ IsMark(ks[1]) /\ Taken(ks[1]) /\ Marked(ks, Rest)
         /\ buffer # <<>> =>
              /\ connecting = "done"
              /\ Len(ks) # 1 /\ ks[2] \in Mark /\ IsMark(ks[2]) /\ ks[1].m <= Len(sent)
              /\ Msg(ks[1].m) \in Seq(Bytes)
              /\ \A i \in 1..Len(Msg(ks[1].m)) : ~IsHalf(Msg(ks[1].m), i)
              /\ \/ /\ IsChunk(Rest, ks[1].p, ks[1], ks[2], Msg(ks[1].m))
                    /\ Rest[1] = "NL" /\ Rest[2] = "#" /\ Rest[3] \in Range(Digits) /\ Rest[4] = "NL"
                    /\ ks[2].o - ks[1].o \in 1..9
                    /\ SizeOf(Rest[3]) = ks[2].o - ks[1].o
                    /\ ks[2].p = ks[1].p + (4 + SizeOf(Rest[3]))
                 \/ /\ IsLast(Rest, ks[1].p, ks[1], ks[2], Msg(ks[1].m))
                    /\ Rest[1] = "NL" /\ Rest[2] = "#" /\ Rest[3] = "#" /\ Rest[4] = "NL"
                    /\ ks[2].p = ks[1].p + 4
<1>1. /\ buffer \in Seq(Bytes) /\ wire \in Seq(Bytes) /\ Len(buffer) \in Nat /\ Len(wire) \in Nat
      /\ Rest = buffer \o wire
  BY DEF TypeOK, Rest
<1>2. /\ Rest \in Seq(Bytes) /\ \A i \in 1..Len(buffer) : Rest[i] = buffer[i]
      /\ Len(Rest) = Len(buffer) + Len(wire)
  BY <1>1, Joined
<1>3. Marked(ks, Rest) /\ Taken(ks[1])
  BY DEF InChunks
<1>4. PICK R \in Seq(Bytes) : R = Rest
  BY <1>2
<1>5. /\ ks[1] \in Mark /\ IsMark(ks[1])
      /\ Len(ks) = 1 => R = <<>>
      /\ Len(ks) # 1 =>
           /\ ks[2] \in Mark /\ IsMark(ks[2]) /\ ks[1].m <= Len(sent)
           /\ IsPiece(R, ks[1].p, ks[1], ks[2], Msg(ks[1].m))
  <2>1. Marked(ks, R)
    BY <1>3, <1>4
  <2> QED
    BY <2>1, FirstPiece
<1>6. ASSUME buffer # <<>>
      PROVE  /\ connecting = "done"
             /\ Len(ks) # 1 /\ ks[2] \in Mark /\ IsMark(ks[2]) /\ ks[1].m <= Len(sent)
             /\ Msg(ks[1].m) \in Seq(Bytes)
             /\ \A i \in 1..Len(Msg(ks[1].m)) : ~IsHalf(Msg(ks[1].m), i)
             /\ \/ /\ IsChunk(R, ks[1].p, ks[1], ks[2], Msg(ks[1].m))
                   /\ R[1] = "NL" /\ R[2] = "#" /\ R[3] \in Range(Digits) /\ R[4] = "NL"
                   /\ ks[2].o - ks[1].o \in 1..9
                   /\ SizeOf(R[3]) = ks[2].o - ks[1].o
                   /\ ks[2].p = ks[1].p + (4 + SizeOf(R[3]))
                \/ /\ IsLast(R, ks[1].p, ks[1], ks[2], Msg(ks[1].m))
                   /\ R[1] = "NL" /\ R[2] = "#" /\ R[3] = "#" /\ R[4] = "NL"
                   /\ ks[2].p = ks[1].p + 4
  <2>1. R # <<>>
    <3>1. Len(buffer) # 0
      BY <1>1, <1>6, EmptySeq
    <3>2. Len(Rest) # 0
      BY <1>1, <1>2, <3>1
    <3> QED
      BY <1>4, <3>2, EmptySeq
  <2>2. connecting = "done"
    BY <1>4, <2>1 DEF Listening
  <2>3. /\ Len(ks) # 1 /\ ks[2] \in Mark /\ IsMark(ks[2]) /\ ks[1].m <= Len(sent)
        /\ IsPiece(R, ks[1].p, ks[1], ks[2], Msg(ks[1].m))
    BY <1>5, <2>1
  <2>4. /\ Msg(ks[1].m) \in Seq(Bytes)
        /\ \A i \in 1..Len(Msg(ks[1].m)) : ~IsHalf(Msg(ks[1].m), i)
    <3>1. ks[1].m \in 1..Len(sent)
      <4>1. ks[1].m \in Nat /\ 1 < ks[1].m /\ Len(sent) \in Nat
        BY <1>5 DEF Mark, IsMark, TypeOK
      <4> QED
        BY <2>3, <4>1
    <3> QED
      BY <3>1, SentIs DEF Msg
  <2>5. PICK p \in Nat, q \in Nat, o \in Nat, u \in Nat :
          p = ks[1].p /\ q = ks[2].p /\ o = ks[1].o /\ u = ks[2].o
    BY <1>5, <2>3 DEF Mark
  <2>6. p - p + 1 = 1 /\ p - p + 2 = 2 /\ p - p + 3 = 3 /\ p - p + 4 = 4
    OBVIOUS
  <2>7. CASE IsChunk(R, ks[1].p, ks[1], ks[2], Msg(ks[1].m))
    <3>1. /\ o < u /\ u - o <= 9 /\ q = p + 4 + (u - o)
          /\ R[1] = "NL" /\ R[2] = "#" /\ R[3] = Digits[u - o] /\ R[4] = "NL"
      BY <2>5, <2>6, <2>7 DEF IsChunk
    <3>2. PICK s \in 1..9 : s = u - o /\ q = p + (4 + s)
      BY <3>1
    <3>3. SizeOf(R[3]) = s /\ R[3] \in Range(Digits)
      BY <3>1, <3>2, DigitsAre
    <3> QED
      BY <2>2, <2>3, <2>4, <2>5, <2>7, <3>1, <3>2, <3>3
  <2>8. CASE IsLast(R, ks[1].p, ks[1], ks[2], Msg(ks[1].m))
    <3>1. R[1] = "NL" /\ R[2] = "#" /\ R[3] = "#" /\ R[4] = "NL" /\ q = p + 4
      BY <2>5, <2>6, <2>8 DEF IsLast
    <3> QED
      BY <2>2, <2>3, <2>4, <2>5, <2>8, <3>1
  <2> QED
    BY <2>3, <2>7, <2>8 DEF IsPiece
<1> QED
  BY <1>1, <1>2, <1>3, <1>4, <1>5, <1>6

\* The parser consumed the first piece.
LEMMA PieceConsumed ==
  ASSUME TypeOK, TypeOK', Chunked, Listening, NEW ks, InChunks(ks), at = "parse11",
         NEW c \in 0..Len(buffer), buffer # <<>>, ks[2].p = ks[1].p + c,
         buffer' = From(buffer, c + 1),
         UNCHANGED <<at, wire, sent, unsent, damaged, connecting>>,
         Taken(ks[2])'
  PROVE  Listening' /\ \E ls : InChunks(ls)'
<1>1. /\ buffer \in Seq(Bytes) /\ wire \in Seq(Bytes) /\ Len(buffer) \in Nat
      /\ Rest = buffer \o wire /\ Rest \in Seq(Bytes)
      /\ Marked(ks, Rest) /\ Len(ks) # 1 /\ connecting = "done"
  BY AtFirstPiece
<1>2. PICK R \in Seq(Bytes), R2 \in Seq(Bytes) :
        /\ R = Rest /\ R2 = From(buffer, c + 1) \o wire
        /\ Len(R) = c + Len(R2) /\ \A i \in 1..Len(R2) : R2[i] = R[c + i]
  BY <1>1, FrontTaken
<1>3. Rest' = R2
  BY <1>2 DEF Rest
<1>4. Marked(ks, R) /\ c \in Nat
  BY <1>1, <1>2
<1>5. PICK ls : /\ Marked(ls, R2) /\ ls[1] = ks[2] /\ ls[Len(ls)] = ks[Len(ks)]
                /\ Len(ls) \in Nat /\ 1 <= Len(ls)
  <2>1. /\ R \in Seq(Bytes) /\ R2 \in Seq(Bytes) /\ c \in Nat /\ Len(ks) # 1
        /\ Len(R) = c + Len(R2) /\ \A i \in 1..Len(R2) : R2[i] = R[c + i]
        /\ ks[2].p = ks[1].p + c /\ Marked(ks, R)
    BY <1>1, <1>2, <1>4
  <2> QED
    BY <2>1, MarksDrop, Zenon
<1>6. Marked(ls, R2)'
  BY <1>5, MarkedStays
<1>7. Marked(ls, Rest)'
  BY <1>3, <1>6 DEF Marked
<1>8. Written(ls[Len(ls)])'
  BY <1>5 DEF InChunks, Written, Msg
<1>9. Taken(ls[1])'
  BY <1>5 DEF Taken, Msg
<1>10. InChunks(ls)'
  BY <1>7, <1>8, <1>9 DEF InChunks
<1>11. Listening'
  BY <1>1 DEF Listening
<1> QED
  BY <1>10, <1>11

LEMMA TakeChunkNext ==
  ASSUME TypeOK, TypeOK', Chunked, Listening, DispatchedIntact, NEW ks, InChunks(ks), TakeChunk
  PROVE  DispatchedIntact' /\ Listening' /\ \E ls : InChunks(ls)'
<1> DEFINE size == SizeOf(buffer[3])
           text == SubSeq(buffer, 5, 4 + size)
           M    == Msg(ks[1].m)
<1>1. /\ at = "parse11" /\ IsChunkHeader(buffer) /\ Len(buffer) >= 4 + size
      /\ message_list' = message_list \o Decode(text)
      /\ buffer' = From(buffer, 5 + size)
      /\ UNCHANGED <<parsing_pos10, remaining, at, replaced, connect, server, dispatched,
                     damaged>>
  BY DEF TakeChunk
<1>2. buffer # <<>> /\ buffer[1] = "NL" /\ buffer[2] = "#" /\ buffer[3] \in Range(Digits)
      /\ Len(buffer) >= 4
  BY <1>1 DEF IsChunkHeader
<1>3. /\ buffer \in Seq(Bytes) /\ wire \in Seq(Bytes) /\ Len(buffer) \in Nat
      /\ Rest = buffer \o wire /\ Rest \in Seq(Bytes)
      /\ \A i \in 1..Len(buffer) : Rest[i] = buffer[i]
      /\ ks[1] \in Mark /\ IsMark(ks[1]) /\ Taken(ks[1]) /\ Marked(ks, Rest)
      /\ connecting = "done"
      /\ Len(ks) # 1 /\ ks[2] \in Mark /\ IsMark(ks[2]) /\ ks[1].m <= Len(sent)
      /\ M \in Seq(Bytes) /\ \A i \in 1..Len(M) : ~IsHalf(M, i)
  BY <1>1, <1>2, AtFirstPiece
<1>4. Rest[3] = buffer[3] /\ Rest[3] # "#"
  <2>1. 3 \in 1..Len(buffer)
    BY <1>2, <1>3
  <2>2. Rest[3] = buffer[3]
    BY <1>3, <2>1
  <2> QED
    BY <1>2, <2>2, DigitsAre
<1>5. /\ IsChunk(Rest, ks[1].p, ks[1], ks[2], M)
      /\ ks[2].o - ks[1].o \in 1..9
      /\ SizeOf(Rest[3]) = ks[2].o - ks[1].o
      /\ ks[2].p = ks[1].p + (4 + SizeOf(Rest[3]))
  BY <1>1, <1>2, <1>4, AtFirstPiece
<1>6. size \in 1..9 /\ size = ks[2].o - ks[1].o /\ ks[2].p = ks[1].p + (4 + size)
  BY <1>4, <1>5
<1> HIDE DEF size
<1>7. PICK p \in Nat, o \in Nat, u \in Nat :
        p = ks[1].p /\ o = ks[1].o /\ u = ks[2].o
  BY <1>3 DEF Mark
<1>8. size = u - o /\ o < u /\ size \in Nat
  BY <1>6, <1>7
<1>9. ks[2].m = ks[1].m /\ \A i \in 1..size : Rest[4 + i] = M[o + i]
  <2>1. ks[2].m = ks[1].m /\ \A i \in 1..(u - o) : Rest[p - p + 4 + i] = M[o + i]
    BY <1>5, <1>7 DEF IsChunk
  <2>2. \A i \in 1..size : p - p + 4 + i = 4 + i
    OBVIOUS
  <2> QED
    BY <1>8, <2>1, <2>2
<1>10. text \in Seq(Bytes) /\ Len(text) = size /\ \A i \in 1..size : text[i] = M[o + i]
  <2>1. 5 \in 1..(Len(buffer) + 1) /\ 4 + size \in (5 - 1)..Len(buffer)
    BY <1>1, <1>3, <1>8
  <2>2. /\ text \in Seq(Bytes) /\ Len(text) = (4 + size) - 5 + 1
        /\ \A j \in 1..((4 + size) - 5 + 1) : text[j] = buffer[5 + j - 1]
    BY <1>3, <2>1, PieceIs
  <2> HIDE DEF text
  <2>3. (4 + size) - 5 + 1 = size
    BY <1>8
  <2>4. ASSUME NEW i \in 1..size PROVE text[i] = M[o + i]
    <3>1. 5 + i - 1 = 4 + i /\ 4 + i \in 1..Len(buffer)
      BY <1>1, <1>3, <1>8
    <3>2. text[i] = buffer[4 + i] /\ Rest[4 + i] = buffer[4 + i]
      BY <1>3, <2>2, <2>3, <3>1
    <3> QED
      BY <1>9, <3>2
  <2> QED
    BY <2>2, <2>3, <2>4
<1> HIDE DEF text
<1>11. Taken(ks[2])'
  <2>1. ks[2].m = Len(dispatched') + 1 /\ damaged' = damaged /\ sent' = sent
    BY <1>1, <1>3, <1>9 DEF Taken, server
  <2>2. u > 0
    BY <1>8
  <2>3. ASSUME ks[2].m \notin damaged PROVE message_list' = SubSeq(M, 1, u)
    <3>1. IsMark(ks[1]) /\ IsMark(ks[2]) /\ ks[1].m \notin damaged /\ ks[2].m <= Len(sent)
      BY <1>3, <1>9, <2>3
    <3>2. o > 0 => M[o] # "c1"
      BY <1>3, <1>7, <3>1 DEF IsMark
    <3>3. u <= Len(M) /\ M[u] # "c1"
      BY <1>7, <1>9, <2>2, <3>1 DEF IsMark
    <3>4. message_list = SubSeq(M, 1, o)
      <4>1. CASE o = 0
        <5>1. message_list = <<>>
          BY <1>3, <1>7, <4>1 DEF Taken
        <5>2. SubSeq(M, 1, 0) = <<>>
          <6>1. 1 \in 1..(Len(M) + 1) /\ 0 \in (1 - 1)..Len(M)
            BY <1>3
          <6>2. SubSeq(M, 1, 0) \in Seq(Bytes) /\ Len(SubSeq(M, 1, 0)) = 0 - 1 + 1
            BY <1>3, <6>1, PieceIs
          <6>3. Len(SubSeq(M, 1, 0)) = 0
            BY <6>2
          <6> QED
            BY <6>2, <6>3, EmptySeq
        <5> QED
          BY <4>1, <5>1, <5>2
      <4>2. CASE o > 0
        BY <1>3, <1>7, <3>1, <4>2 DEF Taken
      <4> QED
        BY <4>1, <4>2
    <3>5. SubSeq(M, 1, o) \o Decode(text) = SubSeq(M, 1, u)
      <4>1. M \in Seq(Bytes) /\ \A i \in 1..Len(M) : ~IsHalf(M, i)
        BY <1>3
      <4>2. /\ text \in Seq(Bytes) /\ Len(text) = u - o
            /\ \A i \in 1..(u - o) : text[i] = M[o + i]
        BY <1>8, <1>10
      <4> HIDE DEF M
      <4> QED
        BY <1>8, <3>2, <3>3, <4>1, <4>2, WholePiece
    <3> QED
      BY <1>1, <3>4, <3>5
  <2>4. Msg(ks[2].m)' = M
    BY <1>9, <2>1 DEF Msg
  <2> QED
    BY <1>7, <2>1, <2>2, <2>3, <2>4 DEF Taken
<1>12. Listening' /\ \E ls : InChunks(ls)'
  <2>1. 4 + size \in 0..Len(buffer) /\ (4 + size) + 1 = 5 + size
    BY <1>1, <1>3, <1>8
  <2>2. buffer' = From(buffer, (4 + size) + 1) /\ ks[2].p = ks[1].p + (4 + size)
    BY <1>1, <1>6, <2>1
  <2>3. UNCHANGED <<at, wire, sent, unsent, damaged, connecting>>
    BY <1>1 DEF server, connect
  <2> QED
    BY <1>1, <1>2, <1>11, <2>1, <2>2, <2>3, PieceConsumed
<1>13. DispatchedIntact'
  BY <1>1, IntactStays DEF server, connect
<1> QED
  BY <1>12, <1>13

LEMMA EndOfMessageNext ==
  ASSUME TypeOK, TypeOK', Chunked, Listening, DispatchedIntact, NEW ks, InChunks(ks), EndOfMessage
  PROVE  DispatchedIntact' /\ Listening' /\ \E ls : InChunks(ls)'
<1> DEFINE M == Msg(ks[1].m)
<1>1. /\ at = "parse11" /\ IsEnd(buffer)
      /\ dispatched' = Append(dispatched, message_list)
      /\ message_list' = <<>>
      /\ buffer' = From(buffer, 5)
      /\ UNCHANGED <<parsing_pos10, remaining, at, replaced, connect, server, damaged>>
  BY DEF EndOfMessage
<1>2. buffer \in Seq(Bytes) /\ Len(buffer) \in Nat /\ Len(buffer) >= 4 /\ buffer # <<>>
      /\ buffer[3] = "#"
  <2>1. buffer \in Seq(Bytes) /\ Len(buffer) \in Nat
    BY DEF TypeOK
  <2>2. 4 <= Len(buffer) /\ \A i \in 1..4 : END_DELIM[i] = buffer[i]
    BY <1>1, <2>1, DelimIs DEF IsEnd, IsPrefix
  <2>3. buffer[3] = "#"
    BY <2>2 DEF END_DELIM
  <2> QED
    BY <2>1, <2>2, <2>3
<1>3. /\ \A i \in 1..Len(buffer) : Rest[i] = buffer[i]
      /\ ks[1] \in Mark /\ IsMark(ks[1]) /\ Taken(ks[1])
      /\ ks[2] \in Mark /\ ks[1].m <= Len(sent)
      /\ M \in Seq(Bytes)
  BY <1>1, <1>2, AtFirstPiece
<1>4. Rest[3] \notin Range(Digits)
  <2>1. 3 \in 1..Len(buffer)
    BY <1>2
  <2>2. Rest[3] = "#"
    BY <1>2, <1>3, <2>1
  <2> QED
    BY <2>2, DigitsAre
<1>5. IsLast(Rest, ks[1].p, ks[1], ks[2], M) /\ ks[2].p = ks[1].p + 4
  BY <1>1, <1>2, <1>4, AtFirstPiece
<1>6. ks[2].m = ks[1].m + 1 /\ ks[1].o = Len(M) /\ ks[2].o = 0
  BY <1>5 DEF IsLast
<1>7. PICK d \in Nat : d = Len(dispatched) /\ ks[1].m = d + 1 /\ 1 <= d /\ d + 1 <= Len(sent)
  <2>1. ks[1].m = Len(dispatched) + 1
    BY <1>3 DEF Taken
  <2> QED
    BY <1>3, <2>1, DispatchedWasSent
<1>8. /\ Len(dispatched') = d + 1 /\ dispatched'[d + 1] = message_list
      /\ \A i \in 1..d : dispatched'[i] = dispatched[i]
  <2>1. dispatched \in Seq(Seq(Bytes)) /\ message_list \in Seq(Bytes)
    BY DEF TypeOK
  <2> QED
    BY <1>1, <1>7, <2>1, AppendProperties
<1>9. Taken(ks[2])'
  BY <1>1, <1>6, <1>7, <1>8 DEF Taken
<1>10. Listening' /\ \E ls : InChunks(ls)'
  <2>1. 4 \in 0..Len(buffer) /\ 4 + 1 = 5
    BY <1>2
  <2>2. buffer' = From(buffer, 4 + 1)
    BY <1>1, <2>1
  <2>3. UNCHANGED <<at, wire, sent, unsent, damaged, connecting>>
    BY <1>1 DEF server, connect
  <2> QED
    BY <1>1, <1>2, <1>5, <1>9, <2>1, <2>2, <2>3, PieceConsumed
<1>11. ASSUME d + 1 \notin damaged PROVE message_list = Expected(d + 1)
  <2>1. message_list = SubSeq(M, 1, Len(M))
    <3>1. Len(M) > 0
      <4>1. d + 1 \in 1..Len(sent)
        BY <1>7, DispatchedWasSent
      <4>2. Len(M) \in Nat \ {0}
        BY <1>7, <4>1, SentIs DEF Msg
      <4> QED
        BY <4>2
    <3> QED
      BY <1>3, <1>6, <1>7, <1>11, <3>1 DEF Taken
  <2>2. message_list = M
    BY <1>3, <2>1, SubSeqFull
  <2>3. sent[d + 1].framing = 11
    <3>1. d + 1 \in 1..Len(sent) /\ d + 1 # 1
      BY <1>7, DispatchedWasSent
    <3> QED
      BY <3>1 DEF DispatchedIntact, Chunked
  <2> QED
    BY <1>7, <2>2, <2>3 DEF Expected, Msg
<1>12. DispatchedIntact'
  <2>1. UNCHANGED <<sent, damaged, negotiated>>
    BY <1>1 DEF server, connect
  <2>2. ASSUME NEW i \in 1..Len(dispatched'), i \notin damaged
        PROVE  dispatched'[i] = Expected(i)
    <3>1. i \in 1..d \/ i = d + 1
      BY <1>8
    <3>2. CASE i \in 1..d
      BY <1>7, <1>8, <2>2, <3>2 DEF DispatchedIntact
    <3>3. CASE i = d + 1
      BY <1>8, <1>11, <2>2, <3>3
    <3> QED
      BY <3>1, <3>2, <3>3
  <2> QED
    BY <2>1, <2>2 DEF DispatchedIntact, Expected
<1> QED
  BY <1>10, <1>12

\* The parser waits for the rest of a piece.
LEMMA AwaitsOn ==
  ASSUME TypeOK, Chunked, Listening, NEW ks, InChunks(ks), AwaitChunk \/ NoDelimiter
  PROVE  Listening' /\ InChunks(ks)'
<1>1. /\ at = "parse11"
      /\ UNCHANGED <<buffer, parsing_pos10, message_list, remaining, replaced, connect,
                     server, dispatched, damaged>>
  BY DEF AwaitChunk, NoDelimiter
<1>2. /\ buffer \in Seq(Bytes) /\ Len(buffer) \in Nat
      /\ \A i \in 1..Len(buffer) : Rest[i] = buffer[i]
      /\ ks[1] \in Mark /\ Marked(ks, Rest)
  BY <1>1, AtFirstPiece
<1>3. at' = "select" /\ (Len(ks) > 1 => ks[2].p > ks[1].p + Len(buffer))
  <2>1. CASE buffer = <<>>
    <3>1. Len(buffer) = 0 /\ Len(ks) \in Nat
      BY <2>1, <1>2, MarkIs DEF Marked
    <3>2. at' = "select"
      <4>1. ~IsChunkHeader(buffer)
        BY <3>1 DEF IsChunkHeader
      <4>2. 1..Len(buffer) = {}
        BY <3>1
      <4> QED
        BY <4>1, <4>2 DEF AwaitChunk, NoDelimiter
    <3>3. Len(ks) > 1 => ks[2].p > ks[1].p
      <4> SUFFICES ASSUME Len(ks) > 1 PROVE ks[2].p > ks[1].p
        OBVIOUS
      <4>1. PICK R \in Seq(Bytes) : R = Rest
        BY RestType
      <4>2. ks[2] \in Mark /\ ks[1].p + 4 <= ks[2].p
        <5>1. Len(ks) # 1
          <6>1. \A j \in Nat : j > 1 => j # 1
            OBVIOUS
          <6> QED
            BY <3>1, <6>1, Zenon
        <5>2. Marked(ks, R)
          BY <1>2, <4>1
        <5> QED
          BY <5>1, <5>2, FirstPiece
      <4> QED
        BY <1>2, <4>2 DEF Mark
    <3>4. ks[1].p + Len(buffer) = ks[1].p
      <4>1. ks[1].p \in Nat
        BY <1>2 DEF Mark
      <4> QED
        BY <3>1, <4>1
    <3> QED
      BY <3>2, <3>3, <3>4
  <2>2. CASE buffer # <<>>
    <3>1. /\ ks[2] \in Mark
          /\ \/ /\ Rest[1] = "NL" /\ Rest[2] = "#" /\ Rest[3] \in Range(Digits) /\ Rest[4] = "NL"
                /\ ks[2].o - ks[1].o \in 1..9
                /\ SizeOf(Rest[3]) = ks[2].o - ks[1].o
                /\ ks[2].p = ks[1].p + (4 + SizeOf(Rest[3]))
             \/ /\ Rest[1] = "NL" /\ Rest[2] = "#" /\ Rest[3] = "#" /\ Rest[4] = "NL"
                /\ ks[2].p = ks[1].p + 4
      BY <1>1, <2>2, AtFirstPiece
    <3>2. PICK b \in Nat, q \in Nat, l \in Nat : b = ks[1].p /\ q = ks[2].p /\ l = Len(buffer)
      BY <1>2, <3>1 DEF Mark
    <3>3. CASE Rest[3] \in Range(Digits) /\ l >= 4
      <4>1. 1 \in 1..l /\ 2 \in 1..l /\ 3 \in 1..l /\ 4 \in 1..l
        BY <3>3
      <4>2. Rest[3] # "#"
        BY <3>3, DigitsAre
      <4>3. IsChunkHeader(buffer) /\ buffer[3] = Rest[3]
        BY <1>2, <3>1, <3>2, <3>3, <4>1, <4>2 DEF IsChunkHeader
      <4>4. Len(buffer) < 4 + SizeOf(buffer[3]) /\ at' = "select"
        BY <4>3 DEF AwaitChunk, NoDelimiter
      <4>5. PICK s \in Nat : s = SizeOf(Rest[3]) /\ q = b + (4 + s) /\ l < 4 + s
        BY <3>1, <3>2, <4>2, <4>3, <4>4
      <4>6. q > b + l
        BY <4>5
      <4> QED
        BY <3>2, <4>4, <4>6
    <3>4. CASE Rest[3] \notin Range(Digits) /\ l >= 4
      <4>1. 1 \in 1..l /\ 2 \in 1..l /\ 3 \in 1..l /\ 4 \in 1..l
        BY <3>4
      <4>2. buffer[1] = "NL" /\ buffer[2] = "#" /\ buffer[3] = "#" /\ buffer[4] = "NL"
        BY <1>2, <3>1, <3>2, <3>4, <4>1
      <4>3. IsEnd(buffer)
        <5>1. \A i \in 1..4 : END_DELIM[i] = buffer[i]
          BY <4>2 DEF END_DELIM
        <5> QED
          BY <1>2, <3>2, <3>4, <5>1, DelimIs DEF IsEnd, IsPrefix
      <4>4. ~IsChunkHeader(buffer)
        <5>1. buffer[3] \notin Range(Digits)
          BY <4>2, DigitsAre
        <5> QED
          BY <5>1 DEF IsChunkHeader
      <4> QED
        BY <4>3, <4>4 DEF AwaitChunk, NoDelimiter
    <3>5. CASE l < 4
      <4>1. \A i \in 1..l : buffer[i] \notin {"c1", "c2"}
        <5>1. Rest[1] \notin {"c1", "c2"} /\ Rest[2] \notin {"c1", "c2"} /\ Rest[3] \notin {"c1", "c2"}
          BY <3>1, DigitsAre
        <5>2. \A i \in 1..l : i = 1 \/ i = 2 \/ i = 3
          BY <3>5
        <5>3. \A i \in 1..l : buffer[i] = Rest[i]
          BY <1>2, <3>2
        <5> QED
          BY <5>1, <5>2, <5>3
      <4>2. ~\E i \in 1..Len(buffer) : IsHalf(buffer, i)
        BY <3>2, <4>1 DEF IsHalf
      <4>3. at' = "select"
        BY <4>2 DEF AwaitChunk, NoDelimiter
      <4>4. q >= b + 4
        <5>1. CASE q = b + 4
          BY <5>1
        <5>2. CASE \E s \in 1..9 : q = b + (4 + s)
          BY <5>2
        <5> QED
          BY <3>1, <3>2, <5>1, <5>2
      <4>5. q > b + l
        BY <3>5, <4>4
      <4> QED
        BY <3>2, <4>3, <4>5
    <3> QED
      BY <3>2, <3>3, <3>4, <3>5
  <2> QED
    BY <2>1, <2>2
<1>4. Rest' = Rest
  BY <1>1, <1>3 DEF Rest, server
<1>5. InChunks(ks)'
  BY <1>1, <1>3, <1>4, InChunksStays DEF server
<1>6. Listening'
  BY <1>1, <1>3, <1>4 DEF Listening, connect, server
<1> QED
  BY <1>5, <1>6

\* A reply begins; its first chunk follows.
LEMMA ReplyBegins ==
  ASSUME TypeOK, TypeOK', Chunked, Listening, DispatchedIntact, NEW ks, InChunks(ks), ServerSend
  PROVE  DispatchedIntact' /\ Listening' /\ InChunks(ks)'
<1>1. PICK m \in Payloads : /\ sent' = Append(sent, [msg |-> m, framing |-> 11])
                            /\ unsent' = m /\ wire' = wire
  BY DEF ServerSend, Chunked
<1>2. /\ connecting = "done" /\ unsent = <<>>
      /\ UNCHANGED <<parser, connect, garbage, dispatched, damaged>>
  BY DEF ServerSend
<1>3. PICK n \in Nat : n = Len(sent) /\ 1 <= n /\ Len(dispatched) <= n /\ Len(dispatched) \in Nat
  BY DispatchedWasSent
<1>4. /\ Len(sent') = n + 1 /\ sent'[n + 1] = [msg |-> m, framing |-> 11]
      /\ \A i \in 1..n : sent'[i] = sent[i]
  <2>1. sent \in Seq([msg : Payloads \cup {Hello}, framing : {10, 11}])
        /\ [msg |-> m, framing |-> 11] \in [msg : Payloads \cup {Hello}, framing : {10, 11}]
    BY DEF TypeOK
  <2> QED
    BY <1>1, <1>3, <2>1, AppendProperties
<1>5. Rest' = Rest
  BY <1>1, <1>2 DEF Rest, parser
<1>6. PICK R \in Seq(Bytes) : R = Rest
  BY RestType
<1>7. Marked(ks, R)
  BY <1>6 DEF InChunks
<1>8. Marked(ks, R)'
  BY <1>2, <1>3, <1>4, <1>7, MarkedStays
<1>9. Marked(ks, Rest)'
  BY <1>5, <1>6, <1>8 DEF Marked
<1>10. PICK j \in Nat : j = Len(ks) /\ 1 <= j /\ ks[j] \in Mark /\ IsMark(ks[j])
  <2>1. /\ ks \in Seq(Mark) /\ ks # <<>> /\ \A i \in 1..Len(ks) : IsMark(ks[i])
    BY <1>7 DEF Marked
  <2> QED
    BY <2>1, MarkIs
<1>11. ks[j].m = n + 1 /\ ks[j].o = 0
  <2>1. ks[j].m = n + 1
    BY <1>2, <1>3, <1>10 DEF InChunks, Written
  <2>2. ~(n + 1 <= n)
    BY <1>3
  <2> QED
    BY <1>3, <1>10, <2>1, <2>2 DEF IsMark
<1>12. m \in Seq(Bytes) /\ m # <<>> /\ From(m, 0 + 1) = m
  <2>1. m \in Seq(Bytes) /\ m # <<>>
    BY FrameTypes
  <2>2. SubSeq(m, 1, Len(m)) = m
    BY <2>1, SubSeqFull
  <2> QED
    BY <2>1, <2>2 DEF From
<1>13. Written(ks[Len(ks)])'
  BY <1>1, <1>4, <1>10, <1>11, <1>12 DEF Written, Msg
<1>14. ks[1].m \in Nat /\ 1 < ks[1].m /\ ks[1].m = Len(dispatched) + 1
  <2>1. ks[1] \in Mark /\ IsMark(ks[1])
    BY <1>7, FirstPiece
  <2> QED
    BY <2>1 DEF InChunks, Taken, Mark, IsMark
<1>15. Taken(ks[1])'
  <2>1. ks[1].o > 0 => Msg(ks[1].m)' = Msg(ks[1].m)
    <3> SUFFICES ASSUME ks[1].o > 0 PROVE Msg(ks[1].m)' = Msg(ks[1].m)
      OBVIOUS
    <3>1. IsMark(ks[1]) /\ ~(ks[1].o = 0)
      BY <1>7, FirstPiece
    <3>2. ks[1].m \in 1..n
      BY <1>3, <1>14, <3>1 DEF IsMark
    <3> QED
      BY <1>4, <3>2 DEF Msg
  <2>2. UNCHANGED <<message_list, dispatched, damaged>>
    BY <1>2 DEF parser
  <2>3. Taken(ks[1])
    BY DEF InChunks
  <2> QED
    BY <2>1, <2>2, <2>3 DEF Taken
<1>16. InChunks(ks)'
  <2>1. at' = "select" /\ Len(ks) > 1 => ks[2].p > ks[1].p + Len(buffer')
    BY <1>2 DEF InChunks, parser
  <2> QED
    BY <1>9, <1>13, <1>15, <2>1 DEF InChunks
<1>17. Listening'
  BY <1>2 DEF Listening, parser, connect
<1>18. DispatchedIntact'
  <2>1. negotiated' = negotiated /\ dispatched' = dispatched /\ damaged' = damaged
    BY <1>2 DEF connect
  <2>2. ASSUME NEW i \in 1..(n + 1)
        PROVE  sent'[i].framing = IF i = 1 THEN 10 ELSE negotiated
    <3>1. CASE i \in 1..n
      BY <1>3, <1>4, <3>1 DEF DispatchedIntact
    <3>2. CASE i = n + 1
      <4>1. i # 1
        BY <1>3, <3>2
      <4> QED
        BY <1>4, <3>2, <4>1 DEF Chunked
    <3> QED
      BY <3>1, <3>2
  <2>3. ASSUME NEW i \in 1..Len(dispatched), i \notin damaged
        PROVE  dispatched[i] = Expected(i) /\ sent'[i] = sent[i]
    <3>1. i \in 1..n
      BY <1>3
    <3> QED
      BY <1>4, <2>3, <3>1 DEF DispatchedIntact
  <2> QED
    BY <1>4, <2>1, <2>2, <2>3 DEF DispatchedIntact, Expected
<1> QED
  BY <1>16, <1>17, <1>18

\* A chunk is a piece.
LEMMA ChunkIsPiece ==
  ASSUME NEW m \in Seq(Bytes), NEW k \in Mark, NEW l \in Mark, NEW n \in 1..9,
         l.m = k.m, l.o = k.o + n, l.p = k.p + 4 + n,
         NEW t \in Seq(Bytes), Len(t) = n, \A i \in 1..n : t[i] = m[k.o + i]
  PROVE  /\ ChunkHeader(n) \o t \in Seq(Bytes) /\ Len(ChunkHeader(n) \o t) = 4 + n
         /\ IsPiece(ChunkHeader(n) \o t, k.p, k, l, m)
<1> DEFINE H == ChunkHeader(n)
           T == H \o t
<1>1. /\ H \in Seq(Bytes) /\ Len(H) = 4
      /\ H[1] = "NL" /\ H[2] = "#" /\ H[3] = Digits[n] /\ H[4] = "NL"
  BY HeaderIs
<1> HIDE DEF H
<1>2. /\ T \in Seq(Bytes) /\ Len(T) = 4 + n
      /\ \A i \in 1..4 : T[i] = H[i]
      /\ \A i \in 1..n : T[4 + i] = t[i]
  <2>1. /\ T \in Seq(Bytes) /\ Len(T) = Len(H) + Len(t)
        /\ \A i \in 1..Len(H) : T[i] = H[i]
        /\ \A i \in 1..Len(t) : T[Len(H) + i] = t[i]
    BY <1>1, Joined
  <2> HIDE DEF T
  <2> QED
    BY <1>1, <2>1
<1> HIDE DEF T
<1>3. PICK p \in Nat, o \in Nat, u \in Nat : p = k.p /\ o = k.o /\ u = l.o /\ u = o + n
  BY DEF Mark
<1>4. o < u /\ u - o = n /\ n <= 9
  BY <1>3
<1>5. l.o - k.o = n /\ k.o < l.o
  BY <1>3, <1>4
<1>6. k.p - k.p + 1 = 1 /\ k.p - k.p + 2 = 2 /\ k.p - k.p + 3 = 3 /\ k.p - k.p + 4 = 4
  <2>1. p - p + 1 = 1 /\ p - p + 2 = 2 /\ p - p + 3 = 3 /\ p - p + 4 = 4
    OBVIOUS
  <2> QED
    BY <1>3, <2>1
<1>7. T[1] = "NL" /\ T[2] = "#" /\ T[3] = Digits[n] /\ T[4] = "NL"
  BY <1>1, <1>2
<1>8. \A i \in 1..n : T[4 + i] = m[k.o + i]
  BY <1>2
<1>9. IsChunk(T, k.p, k, l, m)
  <2>1. l.p = k.p + 4 + (l.o - k.o) /\ l.o - k.o <= 9
    BY <1>4, <1>5
  <2> QED
    BY <1>5, <1>6, <1>7, <1>8, <2>1 DEF IsChunk
<1> QED
  BY <1>2, <1>9 DEF IsPiece, T, H

LEMMA EndIsPiece ==
  ASSUME NEW m, NEW k \in Mark, NEW l \in Mark,
         l.m = k.m + 1, k.o = Len(m), l.o = 0, l.p = k.p + 4
  PROVE  IsPiece(END_DELIM, k.p, k, l, m)
<1>1. PICK p \in Nat : p = k.p
  BY DEF Mark
<1>2. p - p + 1 = 1 /\ p - p + 2 = 2 /\ p - p + 3 = 3 /\ p - p + 4 = 4
  OBVIOUS
<1>3. END_DELIM[1] = "NL" /\ END_DELIM[2] = "#" /\ END_DELIM[3] = "#" /\ END_DELIM[4] = "NL"
  BY DEF END_DELIM
<1> QED
  BY <1>1, <1>2, <1>3 DEF IsPiece, IsLast

LEMMA JoinedType == \A a, b \in Seq(Bytes) : a \o b \in Seq(Bytes)
  BY Joined

LEMMA JoinedTwice == \A a, b, c \in Seq(Bytes) : (a \o b) \o c = a \o (b \o c)
  BY ConcatAssociative

\* The next chunk of a reply, and the end behind the last one.
LEMMA ReplyGoesOn ==
  ASSUME TypeOK, TypeOK', Chunked, Listening, DispatchedIntact, NEW ks, InChunks(ks), ServerChunk
  PROVE  DispatchedIntact' /\ Listening' /\ \E ls : InChunks(ls)'
<1>1. PICK n \in 1..Min({9, Len(unsent)}) :
        /\ wire' = wire \o ChunkHeader(n) \o SubSeq(unsent, 1, n)
                        \o (IF n = Len(unsent) THEN END_DELIM ELSE <<>>)
        /\ unsent' = From(unsent, n + 1)
        /\ damaged' = IF unsent[n] = "c1" THEN damaged \cup {Len(sent)} ELSE damaged
  BY DEF ServerChunk
<1>2. /\ unsent # <<>> /\ unsent \in Seq(Bytes) /\ connecting = "done"
      /\ UNCHANGED <<parser, connect, sent, garbage, dispatched>>
  BY DEF ServerChunk, TypeOK, Listening
<1>3. n \in 1..9 /\ n \in 1..Len(unsent) /\ Len(unsent) \in Nat
  BY <1>1, <1>2, ChunkSize
<1>4. PICK R \in Seq(Bytes) : R = Rest
  BY RestType
<1>5. Marked(ks, R)
  BY <1>4 DEF InChunks
<1>6. PICK j \in Nat : j = Len(ks) /\ 1 <= j /\ ks[j] \in Mark /\ IsMark(ks[j])
  <2>1. /\ ks \in Seq(Mark) /\ ks # <<>> /\ \A i \in 1..Len(ks) : IsMark(ks[i])
    BY <1>5 DEF Marked
  <2> QED
    BY <2>1, MarkIs
<1>7. PICK k \in Mark, M \in Seq(Bytes) :
        /\ k = ks[j] /\ IsMark(k) /\ k.m = Len(sent) /\ M = Msg(k.m)
        /\ unsent = From(M, k.o + 1) /\ k.o <= Len(M)
        /\ k.p \in Nat /\ k.m \in Nat /\ k.o \in Nat /\ 1 < k.m
  <2>1. ks[j].m = Len(sent) /\ unsent = From(Msg(ks[j].m), ks[j].o + 1)
    BY <1>2, <1>6 DEF InChunks, Written
  <2>2. /\ ks[j].p \in Nat /\ ks[j].m \in Nat /\ ks[j].o \in Nat
        /\ 1 < ks[j].m /\ ks[j].o <= Len(Msg(ks[j].m))
    <3>1. Len(sent) <= Len(sent)
      BY DEF TypeOK
    <3> QED
      BY <1>6, <2>1, <3>1 DEF Mark, IsMark
  <2>3. ks[j].m \in 1..Len(sent)
    BY <2>1, <2>2
  <2>4. Msg(ks[j].m) \in Seq(Bytes)
    BY <2>3, SentIs DEF Msg
  <2> QED
    BY <1>6, <2>1, <2>2, <2>4
<1>8. PICK o \in Nat, v \in Nat, p \in Nat :
        /\ o = k.o /\ p = k.p /\ v = Len(unsent) /\ n <= v /\ v = Len(M) - o
        /\ \A i \in 1..v : unsent[i] = M[o + i]
        /\ unsent' = From(M, (o + n) + 1)
  <2>1. n \in Nat /\ n <= Len(From(M, k.o + 1))
    BY <1>3, <1>7
  <2>2. /\ Len(From(M, k.o + 1)) = Len(M) - k.o
        /\ \A i \in 1..(Len(M) - k.o) : From(M, k.o + 1)[i] = M[k.o + i]
        /\ From(From(M, k.o + 1), n + 1) = From(M, (k.o + n) + 1)
    BY <1>7, <2>1, FromFrom
  <2>3. unsent = From(M, k.o + 1)
    BY <1>7
  <2>4. Len(unsent) = Len(M) - k.o /\ \A i \in 1..Len(unsent) : unsent[i] = M[k.o + i]
    BY <2>2, <2>3
  <2>5. unsent' = From(M, (k.o + n) + 1)
    BY <1>1, <2>2, <2>3
  <2>6. n <= Len(unsent) /\ Len(unsent) \in Nat
    BY <1>3
  <2> QED
    BY <1>7, <2>4, <2>5, <2>6
<1>9. PICK t \in Seq(Bytes) : /\ t = SubSeq(unsent, 1, n) /\ Len(t) = n
                              /\ \A i \in 1..n : t[i] = M[k.o + i]
  <2> DEFINE s == SubSeq(unsent, 1, n)
  <2>1. 1 \in 1..(Len(unsent) + 1) /\ n \in (1 - 1)..Len(unsent)
    BY <1>3
  <2>2. /\ s \in Seq(Bytes) /\ Len(s) = n - 1 + 1
        /\ \A i \in 1..(n - 1 + 1) : s[i] = unsent[1 + i - 1]
    BY <1>2, <2>1, PieceIs
  <2> HIDE DEF s
  <2>3. n - 1 + 1 = n /\ \A i \in 1..n : 1 + i - 1 = i /\ i \in 1..v
    BY <1>3, <1>8
  <2>4. Len(s) = n /\ \A i \in 1..n : s[i] = unsent[i]
    BY <2>2, <2>3
  <2>5. \A i \in 1..n : s[i] = M[k.o + i]
    BY <1>8, <2>3, <2>4
  <2> QED
    BY <2>2, <2>4, <2>5 DEF s
<1>10. PICK l \in Mark : l.m = k.m /\ l.o = k.o + n /\ l.p = k.p + 4 + n
  <2>1. [p |-> k.p + 4 + n, m |-> k.m, o |-> k.o + n] \in Mark
    <3>1. p + 4 + n \in Nat /\ o + n \in Nat
      BY <1>3
    <3>2. k.p + 4 + n \in Nat /\ k.o + n \in Nat /\ k.m \in Nat
      BY <1>7, <1>8, <3>1
    <3> QED
      BY <3>2 DEF Mark
  <2> QED
    BY <2>1
<1>11. IsMark(l)'
  <2>1. sent' = sent /\ k.m <= Len(sent)
    BY <1>2, <1>7
  <2>2. o + n <= Len(M)
    BY <1>7, <1>8
  <2>3. k.m \notin damaged' => M[o + n] # "c1"
    <3>1. unsent[n] = M[o + n]
      BY <1>3, <1>8
    <3> QED
      BY <1>1, <1>7, <3>1
  <2> QED
    BY <1>7, <1>8, <1>10, <2>1, <2>2, <2>3 DEF IsMark, Msg
<1>12. Marked(ks, R)'
  <2>1. sent' = sent /\ damaged \subseteq damaged'
    BY <1>1, <1>2
  <2> QED
    BY <1>5, <2>1, MarkedStays
<1>13. PICK T \in Seq(Bytes) : /\ T = ChunkHeader(n) \o t /\ Len(T) = 4 + n
                               /\ IsPiece(T, k.p, k, l, M)
  BY <1>3, <1>9, <1>10, ChunkIsPiece
<1>14. PICK ls : /\ Marked(ls, R \o T)'
                 /\ Len(ls) = j + 1 /\ ls[1] = ks[1] /\ ls[Len(ls)] = l
                 /\ j > 1 => ls[2] = ks[2]
  <2>1. l.p = k.p + (4 + n)
    <3>1. p + 4 + n = p + (4 + n)
      BY <1>3
    <3> QED
      BY <1>8, <1>10, <3>1
  <2>2. /\ l.p = ks[Len(ks)].p + Len(T) /\ ks[Len(ks)].m <= Len(sent')
        /\ IsPiece(T, ks[Len(ks)].p, ks[Len(ks)], l, sent'[ks[Len(ks)].m].msg)
    BY <1>2, <1>6, <1>7, <1>13, <2>1 DEF Msg
  <2>3. \E ls : /\ Marked(ls, R \o T)'
                /\ Len(ls) = Len(ks) + 1 /\ ls[1] = ks[1] /\ ls[Len(ls)] = l
                /\ Len(ks) > 1 => ls[2] = ks[2]
    BY <1>11, <1>12, <2>2, MarkAppended
  <2> QED
    BY <1>6, <2>3
<1>15. PICK b \in Seq(Bytes) : b = (IF at = "rest10" THEN remaining ELSE buffer) /\ R = b \o wire
  BY <1>4 DEF TypeOK, Rest
<1>16. Rest' = (R \o T) \o (IF n = v THEN END_DELIM ELSE <<>>)
  <2>1. PICK e \in Seq(Bytes) : e = IF n = v THEN END_DELIM ELSE <<>>
    BY DelimIs, EmptySeq
  <2>2. wire \in Seq(Bytes) /\ ChunkHeader(n) \in Seq(Bytes)
    BY <1>3, HeaderIs DEF TypeOK
  <2>3. wire' = ((wire \o ChunkHeader(n)) \o t) \o e
    BY <1>1, <1>8, <1>9, <2>1
  <2>4. b \o (((wire \o ChunkHeader(n)) \o t) \o e)
          = ((b \o wire) \o (ChunkHeader(n) \o t)) \o e
    <3>1. /\ b \in Seq(Bytes) /\ wire \in Seq(Bytes) /\ ChunkHeader(n) \in Seq(Bytes)
          /\ t \in Seq(Bytes) /\ e \in Seq(Bytes)
      BY <2>2
    <3>2. PICK w, h : w = wire /\ h = ChunkHeader(n) /\ w \in Seq(Bytes) /\ h \in Seq(Bytes)
      BY <2>2
    <3>3. h \o t \in Seq(Bytes) /\ w \o (h \o t) \in Seq(Bytes)
      BY <3>1, <3>2, JoinedType, Zenon
    <3>4. \A c, d \in Seq(Bytes) : (w \o c) \o d = w \o (c \o d)
      BY <3>2, JoinedTwice, Zenon
    <3>5. \A c, d \in Seq(Bytes) : (b \o c) \o d = b \o (c \o d)
      BY JoinedTwice, Zenon
    <3>6. (w \o h) \o t = w \o (h \o t)
      BY <3>1, <3>2, <3>4, Zenon
    <3>7. (b \o w) \o (h \o t) = b \o (w \o (h \o t))
      BY <3>2, <3>3, <3>5, Zenon
    <3>8. (b \o (w \o (h \o t))) \o e = b \o ((w \o (h \o t)) \o e)
      BY <3>1, <3>3, <3>5, Zenon
    <3>9. b \o (((w \o h) \o t) \o e) = ((b \o w) \o (h \o t)) \o e
      BY <3>6, <3>7, <3>8, Zenon
    <3> QED
      BY <3>2, <3>9
  <2>5. Rest' = b \o wire'
    BY <1>2, <1>15 DEF Rest, parser
  <2> QED
    BY <1>13, <1>15, <2>1, <2>3, <2>4, <2>5
<1>17. Taken(ks[1])'
  BY <1>1, <1>2 DEF InChunks, Taken, parser, Msg
<1>18. at' = "select" => ls[2].p > ks[1].p + Len(buffer')
  <2> SUFFICES ASSUME at = "select" PROVE ls[2].p > ks[1].p + Len(buffer)
    BY <1>2 DEF parser
  <2>1. CASE j > 1
    BY <1>6, <1>14, <2>1 DEF InChunks
  <2>2. CASE j = 1
    <3>1. Len(buffer) = 0
      <4>1. R = <<>> /\ Len(R) = 0
        BY <1>5, <1>6, <2>2, FirstPiece, EmptySeq
      <4>2. b = buffer /\ Len(b \o wire) = Len(b) + Len(wire) /\ Len(b) \in Nat /\ Len(wire) \in Nat
        BY <1>15, Joined DEF TypeOK
      <4> QED
        BY <1>15, <4>1, <4>2
    <3>2. ls[2] = l
      BY <1>14, <2>2
    <3>3. p + 4 + n > p + 0
      BY <1>3
    <3> QED
      BY <1>7, <1>8, <1>10, <2>2, <3>1, <3>2, <3>3
  <2> QED
    BY <1>6, <2>1, <2>2
<1>19. R \o T \in Seq(Bytes)
  BY Joined
<1>20. \E us : InChunks(us)'
  <2>1. CASE n = v
    <3>1. PICK l2 \in Mark : l2.m = l.m + 1 /\ l2.o = 0 /\ l2.p = l.p + 4 /\ l.o = Len(M)
      <4>1. l.p \in Nat /\ l.m \in Nat
        BY DEF Mark
      <4>2. [p |-> l.p + 4, m |-> l.m + 1, o |-> 0] \in Mark
        BY <4>1 DEF Mark
      <4>3. l.o = Len(M)
        <5>1. PICK x \in Int : x = Len(M) /\ v = x - o
          <6>1. Len(M) \in Int
            OBVIOUS
          <6>2. v = Len(M) - o
            BY <1>8
          <6> QED
            BY <6>1, <6>2
        <5>2. o + n = x
          BY <2>1, <5>1
        <5> QED
          BY <1>8, <1>10, <5>1, <5>2
      <4> QED
        BY <4>2, <4>3
    <3>2. IsMark(l2)'
      <4>1. l2.m = Len(sent') + 1 /\ 1 < l2.m /\ ~(l2.m <= Len(sent'))
        BY <1>2, <1>7, <1>10, <3>1
      <4> QED
        BY <3>1, <4>1 DEF IsMark
    <3>3. IsPiece(END_DELIM, l.p, l, l2, M)
      BY <3>1, EndIsPiece
    <3>4. PICK us : /\ Marked(us, (R \o T) \o END_DELIM)'
                    /\ Len(us) = Len(ls) + 1 /\ us[1] = ls[1] /\ us[Len(us)] = l2
                    /\ Len(ls) > 1 => us[2] = ls[2]
      <4>1. /\ l2.p = ls[Len(ls)].p + Len(END_DELIM) /\ ls[Len(ls)].m <= Len(sent')
            /\ IsPiece(END_DELIM, ls[Len(ls)].p, ls[Len(ls)], l2, sent'[ls[Len(ls)].m].msg)
        <5>1. ls[Len(ls)] = l
          BY <1>14
        <5>2. l2.p = l.p + Len(END_DELIM)
          BY <3>1, DelimIs
        <5>3. l.m <= Len(sent') /\ sent'[l.m].msg = M
          <6>1. l.m = Len(sent) /\ Len(sent) \in Nat
            BY <1>7, <1>10 DEF TypeOK
          <6> QED
            BY <1>2, <1>7, <1>10, <6>1 DEF Msg
        <5> QED
          BY <3>3, <5>1, <5>2, <5>3
      <4>2. END_DELIM \in Seq(Bytes) /\ R \o T \in Seq(Bytes) /\ Marked(ls, R \o T)'
        BY <1>14, <1>19, DelimIs
      <4>3. PICK S \in Seq(Bytes), E \in Seq(Bytes) : S = R \o T /\ E = END_DELIM
        BY <4>2
      <4>4. /\ l2.p = ls[Len(ls)].p + Len(E) /\ ls[Len(ls)].m <= Len(sent')
            /\ IsPiece(E, ls[Len(ls)].p, ls[Len(ls)], l2, sent'[ls[Len(ls)].m].msg)
            /\ Marked(ls, S)'
        BY <4>1, <4>2, <4>3 DEF Marked
      <4>5. \E us : /\ Marked(us, S \o E)'
                    /\ Len(us) = Len(ls) + 1 /\ us[1] = ls[1] /\ us[Len(us)] = l2
                    /\ Len(ls) > 1 => us[2] = ls[2]
        BY <3>2, <4>4, MarkAppended
      <4> QED
        BY <4>3, <4>5 DEF Marked
    <3>5. Marked(us, Rest)'
      BY <1>16, <2>1, <3>4 DEF Marked
    <3>6. us[1] = ks[1] /\ us[2] = ls[2]
      BY <1>6, <1>14, <3>4
    <3>7. Written(us[Len(us)])'
      <4>1. unsent' = <<>>
        <5>1. v + 1 \in 1..(v + 1) /\ v - (v + 1) + 1 = 0
          OBVIOUS
        <5>2. unsent \in Seq(Bytes) /\ v + 1 \in 1..(Len(unsent) + 1) /\ Len(unsent) = v
          BY <1>2, <1>8, <5>1
        <5>3. From(unsent, v + 1) \in Seq(Bytes)
              /\ Len(From(unsent, v + 1)) = Len(unsent) - (v + 1) + 1
          BY <5>2, FromIs
        <5>4. Len(unsent') = 0 /\ unsent' \in Seq(Bytes)
          BY <1>1, <2>1, <5>1, <5>2, <5>3
        <5> QED
          BY <5>4, EmptySeq
      <4> QED
        BY <1>2, <1>7, <1>10, <3>1, <3>4, <4>1 DEF Written
    <3>8. Taken(us[1])'
      BY <1>17, <3>6 DEF Taken, Msg
    <3>9. InChunks(us)'
      BY <1>18, <3>5, <3>6, <3>7, <3>8 DEF InChunks
    <3> QED
      BY <3>9
  <2>2. CASE n # v
    <3>1. Marked(ls, Rest)'
      <4>1. (R \o T) \o <<>> = R \o T
        BY <1>19, ConcatEmptySeq
      <4>2. Rest' = R \o T
        BY <1>16, <2>2, <4>1
      <4> QED
        BY <1>14, <4>2 DEF Marked
    <3>2. Written(ls[Len(ls)])'
      <4>1. unsent' # <<>>
        <5>0. n <= v /\ n \in Nat
          BY <1>3, <1>8
        <5>1. n + 1 \in 1..(v + 1) /\ v - (n + 1) + 1 # 0
          BY <2>2, <5>0
        <5>2. unsent \in Seq(Bytes) /\ n + 1 \in 1..(Len(unsent) + 1) /\ Len(unsent) = v
          BY <1>2, <1>8, <5>1
        <5>3. Len(From(unsent, n + 1)) = Len(unsent) - (n + 1) + 1
          BY <5>2, FromIs
        <5>4. Len(unsent') # 0
          BY <1>1, <5>1, <5>2, <5>3
        <5> QED
          BY <5>4
      <4>2. Msg(l.m)' = M /\ l.o = o + n
        BY <1>2, <1>7, <1>8, <1>10 DEF Msg
      <4> QED
        BY <1>2, <1>7, <1>8, <1>10, <1>14, <4>1, <4>2 DEF Written, Msg
    <3>3. Taken(ls[1])'
      BY <1>14, <1>17 DEF Taken, Msg
    <3>4. InChunks(ls)'
      BY <1>14, <1>18, <3>1, <3>2, <3>3 DEF InChunks
    <3> QED
      BY <3>4
  <2> QED
    BY <2>1, <2>2
<1>21. Listening'
  BY <1>2 DEF Listening, parser, connect
<1>22. DispatchedIntact'
  <2>1. UNCHANGED <<sent, dispatched, negotiated>> /\ damaged \subseteq damaged'
    BY <1>1, <1>2 DEF connect
  <2> QED
    BY <2>1, IntactStays
<1> QED
  BY <1>20, <1>21, <1>22

\* A step while messages come in chunks.
LEMMA ChunkedNext ==
  ASSUME TypeOK, TypeOK', Agreed, Chunked, Listening, DispatchedIntact, NEW ks, InChunks(ks),
         Next, garbage' = garbage
  PROVE  Chunked' /\ DispatchedIntact' /\ Listening' /\ \E ls : InChunks(ls)'
<1>1. CASE Read
  <2>1. UNCHANGED <<sent, dispatched, negotiated, damaged>>
    BY <1>1 DEF Read, connect
  <2> QED
    BY <1>1, <2>1, ReadsOn, IntactStays DEF Chunked
<1>2. CASE Dispatch10 \/ KeepPosition10
  BY <1>2 DEF Dispatch10, KeepPosition10, Listening
<1>3. CASE Rest10
  <2>1. UNCHANGED <<sent, dispatched, negotiated, damaged>>
    BY <1>3 DEF Rest10, connect, server
  <2> QED
    BY <1>3, <2>1, Rest10Listens, IntactStays DEF Chunked
<1>4. CASE TakeChunk
  <2>1. UNCHANGED <<dispatched, negotiated>>
    BY <1>4 DEF TakeChunk, connect
  <2> QED
    BY <1>4, <2>1, TakeChunkNext DEF Chunked
<1>5. CASE AwaitChunk \/ NoDelimiter
  <2>1. UNCHANGED <<sent, dispatched, negotiated, damaged>>
    BY <1>5 DEF AwaitChunk, NoDelimiter, connect, server
  <2> QED
    BY <1>5, <2>1, AwaitsOn, IntactStays DEF Chunked
<1>6. CASE EndOfMessage
  <2>1. negotiated' = negotiated /\ dispatched' # <<>>
    <3>1. Parse
      BY <1>6 DEF Parse
    <3> QED
      BY <3>1, ParseKeeps DEF connect, Chunked
  <2> QED
    BY <1>6, <2>1, EndOfMessageNext DEF Chunked
<1>7. CASE SelectBase \/ ReplaceParser
  <2>1. UNCHANGED <<sent, dispatched, negotiated, damaged>>
    BY <1>7 DEF SelectBase, ReplaceParser, server
  <2> QED
    BY <1>7, <2>1, ConnectListens, IntactStays DEF Chunked
<1>8. CASE ServerHello
  <2>1. Len(sent) = 0
    BY <1>8 DEF ServerHello
  <2> QED
    BY <2>1, DispatchedWasSent
<1>9. CASE ServerSend
  <2>1. UNCHANGED <<dispatched, negotiated>>
    BY <1>9 DEF ServerSend, connect
  <2> QED
    BY <1>9, <2>1, ReplyBegins DEF Chunked
<1>10. CASE ServerChunk
  <2>1. UNCHANGED <<dispatched, negotiated>>
    BY <1>10 DEF ServerChunk, connect
  <2> QED
    BY <1>10, <2>1, ReplyGoesOn DEF Chunked
<1>11. CASE ServerGarbage
  <2>1. garbage' = garbage + 1 /\ garbage \in Nat
    BY <1>11, FramingAssumption DEF ServerGarbage, TypeOK
  <2> QED
    BY <2>1
<1> QED
  BY <1>1, <1>2, <1>3, <1>4, <1>5, <1>6, <1>7, <1>8, <1>9, <1>10, <1>11 DEF Next, Parse

-----------------------------------------------------------------------------
(* The invariant holds in every state                                       *)

LEMMA StreamInit == Init => StreamInv
<1> SUFFICES ASSUME Init PROVE StreamInv
  OBVIOUS
<1>1. TypeOK
  BY InitTypes
<1>2. /\ sent = <<>> /\ dispatched = <<>> /\ Len(sent) = 0 /\ Len(dispatched) = 0
      /\ buffer = <<>> /\ wire = <<>> /\ parsing_pos10 = 0 /\ Len(buffer) = 0
      /\ message_list = <<>> /\ unsent = <<>> /\ at = "select" /\ base = 10
      /\ connecting = "hello"
  BY DEF Init
<1>3. Agreed /\ PositionValid
  BY <1>2 DEF Agreed, PositionValid
<1>4. DispatchedIntact
  BY <1>2 DEF DispatchedIntact
<1>5. Searching
  BY <1>2 DEF Searching
<1>6. Rest = <<>> /\ Len(Rest) = 0
  BY <1>2 DEF Rest
<1>7. Delimited([j \in {0} |-> 0])
  <2> DEFINE p == [j \in {0} |-> 0]
  <2>1. 0..0 = {0} /\ (0 + 1)..0 = {} /\ 1..(0 - 5) = {}
    OBVIOUS
  <2>2. p \in [{0} -> Nat] /\ p[0] = 0
    OBVIOUS
  <2> HIDE DEF p
  <2>3. Cut(p, 0, 0, Rest)
    BY <1>6, <2>1, <2>2 DEF Cut
  <2>4. Delimited(p)
    BY <1>2, <2>1, <2>3 DEF Delimited
  <2> QED
    BY <2>4 DEF p
<1>8. ~Chunked
  BY <1>2 DEF Chunked
<1>9. Stream
  BY <1>4, <1>5, <1>7, <1>8 DEF Stream
<1> QED
  BY <1>1, <1>3, <1>9 DEF StreamInv

\* Nothing that is no part of a message is ever taken back.
LEMMA GarbageStays ==
  ASSUME TypeOK, Next, garbage' = 0
  PROVE  garbage = 0 /\ garbage' = garbage
<1>0. garbage \in Nat
  BY FramingAssumption DEF TypeOK
<1>1. CASE ServerGarbage
  BY <1>0, <1>1 DEF ServerGarbage
<1>2. CASE Parse
  BY <1>2, ParseKeeps DEF server
<1>3. CASE Read \/ SelectBase \/ ReplaceParser \/ ServerHello \/ ServerSend \/ ServerChunk
  BY <1>3 DEF Read, SelectBase, ReplaceParser, ServerHello, ServerSend, ServerChunk, server
<1> QED
  BY <1>1, <1>2, <1>3 DEF Next

\* Nothing of the stream changes in a step that changes no variable.
LEMMA StreamStutters == Stream /\ UNCHANGED vars => Stream'
<1> SUFFICES ASSUME Stream, UNCHANGED vars PROVE Stream'
  OBVIOUS
<1>1. UNCHANGED <<base, buffer, parsing_pos10, message_list, remaining, at, replaced, connecting,
                  negotiated, wire, sent, unsent, dispatched, garbage, damaged>>
  BY DEF vars, parser, connect, server
<1>2. Rest' = Rest
  BY <1>1 DEF Rest
<1>3. DispatchedIntact'
  BY <1>1, IntactStays DEF Stream
<1>4. CASE Chunked
  <2>1. PICK ks : InChunks(ks)
    BY <1>4 DEF Stream
  <2>2. InChunks(ks)'
    <3>1. at' = "select" /\ Len(ks) > 1 => ks[2].p > ks[1].p + Len(buffer')
      BY <1>1, <2>1 DEF InChunks
    <3> QED
      BY <1>1, <1>2, <2>1, <3>1, InChunksStays
  <2>3. Listening' /\ Chunked'
    BY <1>1, <1>2, <1>4 DEF Stream, Listening, Chunked
  <2> QED
    BY <1>3, <2>2, <2>3 DEF Stream
<1>5. CASE ~Chunked
  <2>1. PICK p : Delimited(p)
    BY <1>5 DEF Stream
  <2>2. Delimited(p)'
    BY <1>1, <1>2, <2>1, DelimitedStays
  <2>3. Searching' /\ ~Chunked'
    BY <1>1, <1>5 DEF Stream, Searching, Chunked
  <2> QED
    BY <1>3, <2>2, <2>3 DEF Stream
<1> QED
  BY <1>4, <1>5

LEMMA StreamNext == StreamInv /\ [Next]_vars => StreamInv'
<1> SUFFICES ASSUME StreamInv, [Next]_vars PROVE StreamInv'
  OBVIOUS
<1>1. TypeOK /\ Agreed /\ PositionValid /\ (garbage = 0 => Stream)
  BY DEF StreamInv
<1>2. TypeOK'
  BY <1>1, NextTypes
<1>3. Agreed'
  BY <1>1, AgreedNext
<1>4. PositionValid'
  BY <1>1, PositionNext
<1>5. ASSUME garbage' = 0 PROVE Stream'
  <2>1. CASE UNCHANGED vars
    BY <1>1, <1>5, <2>1, StreamStutters DEF vars, server
  <2>2. CASE Next
    <3>1. garbage = 0 /\ garbage' = garbage
      BY <1>1, <1>5, <2>2, GarbageStays
    <3>2. Stream /\ DispatchedIntact
      BY <1>1, <3>1 DEF Stream
    <3>3. CASE Chunked
      <4>1. PICK ks : InChunks(ks)
        BY <3>2, <3>3 DEF Stream
      <4>2. Listening
        BY <3>2, <3>3 DEF Stream
      <4>3. Chunked' /\ DispatchedIntact' /\ Listening' /\ \E ls : InChunks(ls)'
        BY <1>1, <1>2, <2>2, <3>1, <3>2, <3>3, <4>1, <4>2, ChunkedNext
      <4> QED
        BY <4>3 DEF Stream
    <3>4. CASE ~Chunked
      <4>1. PICK p : Delimited(p)
        BY <3>2, <3>4 DEF Stream
      <4>2. Searching
        BY <3>2, <3>4 DEF Stream
      <4>3. /\ DispatchedIntact'
            /\ IF Chunked' THEN Listening' /\ \E ks : InChunks(ks)'
               ELSE Searching' /\ \E q : Delimited(q)'
        BY <1>1, <2>2, <3>1, <3>2, <3>4, <4>1, <4>2, SearchingNext
      <4> QED
        BY <4>3 DEF Stream
    <3> QED
      BY <3>3, <3>4
  <2> QED
    BY <2>1, <2>2
<1> QED
  BY <1>2, <1>3, <1>4, <1>5 DEF StreamInv

\* Whatever was dispatched had been sent as a whole.
LEMMA StreamIntact == StreamInv => MessagesIntact
<1> SUFFICES ASSUME StreamInv PROVE MessagesIntact
  OBVIOUS
<1>1. TypeOK /\ PositionValid /\ (garbage = 0 => Stream)
  BY DEF StreamInv
<1>2. ASSUME garbage = 0
      PROVE  /\ Len(dispatched) <= Complete
             /\ \A i \in 1..Len(dispatched) : i \notin damaged => dispatched[i] = Expected(i)
  <2>1. Stream
    BY <1>1, <1>2
  <2>2. DispatchedIntact
    BY <2>1 DEF Stream
  <2>3. Len(dispatched) <= Complete
    <3>1. CASE ~Chunked
      BY <2>1, <3>1 DEF Stream, Searching, Complete
    <3>2. CASE Chunked
      <4>1. PICK ks : InChunks(ks)
        BY <2>1, <3>2 DEF Stream
      <4>2. PICK n \in Nat : n = Len(ks) /\ 1 <= n /\ ks[1] \in Mark /\ ks[n] \in Mark
                             /\ ks[1].m <= ks[n].m
        <5>1. /\ ks \in Seq(Mark) /\ ks # <<>>
              /\ \A i, j \in 1..Len(ks) : i <= j => ks[i].p <= ks[j].p /\ ks[i].m <= ks[j].m
          BY <4>1 DEF InChunks, Marked
        <5>2. Len(ks) \in Nat /\ 1 <= Len(ks) /\ 1 \in 1..Len(ks) /\ Len(ks) \in 1..Len(ks)
          BY <5>1, EmptySeq
        <5>3. ks[1] \in Mark /\ ks[Len(ks)] \in Mark
          BY <5>1, <5>2, ElementOfSeq
        <5> QED
          BY <5>1, <5>2, <5>3
      <4>3. /\ ks[1].m = Len(dispatched) + 1
            /\ IF unsent = <<>> THEN ks[n].m = Len(sent) + 1 ELSE ks[n].m = Len(sent)
        BY <4>1, <4>2 DEF InChunks, Taken, Written
      <4>4. Len(dispatched) \in Nat /\ Len(sent) \in Nat
        BY <1>1 DEF TypeOK
      <4> QED
        BY <4>2, <4>3, <4>4 DEF Complete
    <3> QED
      BY <3>1, <3>2
  <2> QED
    BY <2>2, <2>3 DEF DispatchedIntact
<1> QED
  BY <1>1, <1>2 DEF MessagesIntact

\* When nothing is in flight, what is left in the buffer is the beginning of a message.
LEMMA StreamHandsOver == StreamInv => NothingHeldBack
<1> SUFFICES ASSUME StreamInv, garbage = 0, at = "select", wire = <<>>
             PROVE  Len(dispatched) = Complete
  BY DEF NothingHeldBack
<1>1. TypeOK /\ Stream
  BY DEF StreamInv
<1>2. buffer \in Seq(Bytes) /\ Len(buffer) \in Nat /\ Len(dispatched) \in Nat /\ Len(sent) \in Nat
  BY <1>1 DEF TypeOK
<1>3. Rest = buffer
  BY <1>2, ConcatEmptySeq DEF Rest
<1>4. CASE ~Chunked
  <2>1. PICK p : Delimited(p)
    BY <1>1, <1>4 DEF Stream
  <2>2. /\ Len(dispatched) <= Len(sent) /\ unsent = <<>>
        /\ \A i \in 1..(Len(buffer) - 5) : ~DelimAt(buffer, i)
    BY <1>1, <1>4 DEF Stream, Searching
  <2>3. PICK d \in Nat, n \in Nat, r \in Nat :
          d = Len(dispatched) /\ n = Len(sent) /\ r = Len(buffer) /\ d <= n
    BY <1>2, <2>2
  <2>4. /\ p \in [d..n -> Nat] /\ p[n] = p[d] + r
        /\ \A i, j \in d..n : i < j => p[i] + 6 <= p[j]
        /\ \A i \in 1..(r - 5) :
             DelimAt(buffer, i) <=> \E j \in (d + 1)..n : i = p[j] - p[d] - 5
    BY <1>3, <2>1, <2>3 DEF Delimited, Cut
  <2>5. ASSUME d < n PROVE FALSE
    <3>1. d \in d..n /\ n \in d..n /\ n \in (d + 1)..n
      BY <2>3, <2>5
    <3>2. PICK x \in Nat, y \in Nat : x = p[d] /\ y = p[n] /\ y = x + r /\ x + 6 <= y
      BY <2>4, <2>5, <3>1
    <3>3. r - 5 \in 1..(r - 5) /\ r - 5 = y - x - 5
      BY <2>3, <3>2
    <3>4. DelimAt(buffer, r - 5)
      BY <2>4, <3>1, <3>2, <3>3
    <3> QED
      BY <2>2, <2>3, <3>3, <3>4
  <2> QED
    BY <2>2, <2>3, <2>5 DEF Complete
<1>5. CASE Chunked
  <2>1. PICK ks : InChunks(ks)
    BY <1>1, <1>5 DEF Stream
  <2>2. Marked(ks, buffer)
    BY <1>3, <2>1 DEF InChunks
  <2>3. PICK n \in Nat : n = Len(ks) /\ 1 <= n
    BY <1>2, <2>2, FirstPiece
  <2>4. n = 1
    <3> SUFFICES ASSUME n > 1 PROVE FALSE
      BY <2>3
    <3>1. ks[1] \in Mark /\ ks[2] \in Mark /\ ks[2].p <= ks[1].p + Len(buffer)
      <4>1. n # 1
        OBVIOUS
      <4>2. Len(ks) # 1
        BY <2>3, <4>1
      <4> QED
        BY <1>2, <2>2, <4>2, FirstPiece
    <3>2. ks[2].p > ks[1].p + Len(buffer)
      BY <2>1, <2>3 DEF InChunks
    <3>3. PICK x \in Nat, y \in Nat, r \in Nat : x = ks[1].p /\ y = ks[2].p /\ r = Len(buffer)
      BY <1>2, <3>1 DEF Mark
    <3> QED
      BY <3>1, <3>2, <3>3
  <2>5. /\ ks[1].m = Len(dispatched) + 1
        /\ IF unsent = <<>> THEN ks[1].m = Len(sent) + 1 ELSE ks[1].m = Len(sent)
    BY <2>1, <2>3, <2>4 DEF InChunks, Taken, Written
  <2> QED
    BY <1>2, <2>5 DEF Complete
<1> QED
  BY <1>4, <1>5

LEMMA StreamHolds == Spec => []StreamInv
  BY StreamInit, StreamNext, PTL DEF Spec

\* The messages that come out of the parser are those the server sent, in order
\* and each once, for every way to cut the stream into reads and every message
\* into chunks, and while the base and the parser change under the session
\* thread.  Only a message in which a character was decoded in halves may differ.
THEOREM MessagesComeOutIntact == Spec => []MessagesIntact
  BY StreamHolds, StreamIntact, PTL

\* No message stays in the buffer until the next read: when everything was read
\* and the thread waits, all that was sent as a whole has been dispatched, also
\* when its delimiter or its chunk header came in two reads.
THEOREM NothingIsHeldBack == Spec => []NothingHeldBack
  BY StreamHolds, StreamHandsOver, PTL
=============================================================================
