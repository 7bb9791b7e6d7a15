----------------------------- MODULE TlvProofs -----------------------------
(***************************************************************************)
(* Proofs about the payloads of protocol.cpp: the parsers accept what they *)
(* should, whatever the bytes, and what a builder makes of names and texts *)
(* of any length comes back from the parser of the other side.             *)
(*                                                                         *)
(* The loop of the parsers is a recursive function of the offset.  It is   *)
(* well defined because every round moves on, and what it computes is      *)
(* proved from the end of the payload backwards (Downward).                *)
(***************************************************************************)
EXTENDS TlvCases, SequenceTheorems, WellFoundedInduction, TLAPS

(* Induction from the end of 0 .. N to its start, for a set: the greatest  *)
(* number that is not in it would have all the greater ones in it.         *)
LEMMA Downward ==
  ASSUME NEW N \in Nat, NEW S,
         \A o \in 0 .. N : (\A q \in o + 1 .. N : q \in S) => o \in S
  PROVE  \A o \in 0 .. N : o \in S
<1> DEFINE Less == {ss \in Nat \X Nat : ss[1] < ss[2]}
           T == {n \in 0 .. N : N - n \notin S}
<1>1. IsWellFoundedOn(Less, Nat)
  BY NatLessThanWellFounded, Zenon DEF OpToRel
<1>2. ASSUME T # {} PROVE FALSE
  <2>1. T \subseteq Nat
    OBVIOUS
  <2>2. PICK x \in T : \A y \in T : ~ (<<y, x>> \in Less)
    <3> HIDE DEF Less, T
    <3> QED BY <1>1, <1>2, <2>1, WFMin
  <2>3. x \in 0 .. N /\ N - x \in 0 .. N /\ N - x \notin S
    OBVIOUS
  <2>4. ASSUME NEW q \in (N - x) + 1 .. N
        PROVE  q \in S
    <3>1. N - q \in 0 .. N /\ <<N - q, x>> \in Less /\ N - (N - q) = q
      BY <2>3
    <3>2. N - q \notin T
      BY <2>2, <3>1
    <3>3. QED
      BY <3>1, <3>2
  <2>5. QED
    BY <2>3, <2>4
<1>3. ASSUME NEW o \in 0 .. N
      PROVE  o \in S
  <2>1. N - o \in 0 .. N /\ N - (N - o) = o
    OBVIOUS
  <2>2. QED
    BY <1>2, <2>1
<1>4. QED
  BY <1>3

-----------------------------------------------------------------------------
(* The loop of the parsers. *)

(* Bytes as numbers. *)
LEMMA ByteIsNat == Uint8 \subseteq Nat
  BY DEF Uint8

LEMMA FitsInByte == \A n \in Nat : n =< 255 => n \in Uint8 /\ n % 256 = n
  BY DEF Uint8

(* What the loop comes to at ptr, if f says what it comes to after that. *)
Round(fields, p, f, ptr) ==
  IF ptr = Len(p) THEN [malformed |-> FALSE, found |-> NoValues]
  ELSE IF IsMalformed(fields, p, ptr)
       THEN [malformed |-> TRUE, found |-> NoValues]
       ELSE ParseTlv(fields, p, ptr, f[TlvEnd(p, ptr)])

(* A TLV that is not malformed lies inside the payload and takes two bytes *)
(* or more.                                                                *)
LEMMA TlvInside ==
  ASSUME NEW p \in Seq(Uint8), NEW ptr \in 0 .. Len(p) - 1, ptr + 2 =< Len(p),
         TlvEnd(p, ptr) =< Len(p)
  PROVE  /\ p[ptr + 1] \in Uint8 /\ p[ptr + 2] \in Uint8
         /\ TlvEnd(p, ptr) \in ptr + 2 .. Len(p)
<1>1. Len(p) \in Nat
  BY LenProperties
<1>2. ptr + 1 \in 1 .. Len(p) /\ ptr + 2 \in 1 .. Len(p)
  BY <1>1
<1>3. p[ptr + 1] \in Uint8 /\ p[ptr + 2] \in Uint8
  BY <1>2, ElementOfSeq
<1>4. PICK n \in Nat : n = p[ptr + 2]
  BY <1>3, ByteIsNat
<1>5. TlvEnd(p, ptr) = ptr + 2 + n
  BY <1>4 DEF TlvEnd
<1>6. TlvEnd(p, ptr) \in ptr + 2 .. Len(p)
  BY <1>1, <1>5
<1>7. QED
  BY <1>3, <1>6

(* A round looks only at what comes after it. *)
LEMMA RoundAhead ==
  ASSUME NEW fields, NEW p \in Seq(Uint8), NEW ptr \in 0 .. Len(p), NEW g, NEW h,
         \A q \in ptr + 1 .. Len(p) : g[q] = h[q]
  PROVE  Round(fields, p, g, ptr) = Round(fields, p, h, ptr)
<1>1. Len(p) \in Nat
  BY LenProperties
<1>2. CASE ptr # Len(p) /\ ~IsMalformed(fields, p, ptr)
  <2>1. ptr \in 0 .. Len(p) - 1
    BY <1>1, <1>2
  <2>2. TlvEnd(p, ptr) \in ptr + 2 .. Len(p)
    <3>1. Len(p) < ptr + 2 \/ ptr + 2 =< Len(p)
      BY <1>1
    <3>2. ptr + 2 =< Len(p)
      BY <1>1, <1>2, <3>1 DEF IsMalformed
    <3>3. p[ptr + 2] \in Uint8
      <4>1. ptr + 2 \in 1 .. Len(p)
        BY <1>1, <3>2
      <4>2. QED
        BY <4>1, ElementOfSeq
    <3>4. TlvEnd(p, ptr) =< Len(p)
      <4>1. PICK n \in Nat : n = p[ptr + 2]
        BY <3>3, ByteIsNat
      <4>2. TlvEnd(p, ptr) \in Nat
        BY <4>1 DEF TlvEnd
      <4>3. ~(TlvEnd(p, ptr) > Len(p))
        BY <1>2 DEF IsMalformed
      <4>4. QED
        BY <1>1, <4>2, <4>3
    <3>5. QED
      BY <2>1, <3>2, <3>4, TlvInside
  <2>3. TlvEnd(p, ptr) \in ptr + 1 .. Len(p)
    BY <1>1, <2>2
  <2>4. g[TlvEnd(p, ptr)] = h[TlvEnd(p, ptr)]
    BY <2>3
  <2>5. QED
    BY <2>4 DEF Round
<1>3. CASE ~(ptr # Len(p) /\ ~IsMalformed(fields, p, ptr))
  BY <1>3 DEF Round
<1>4. QED
  BY <1>2, <1>3

(* The recursion of ParseFrom is well-defined. *)
LEMMA ParseFromRound ==
  ASSUME NEW fields, NEW p \in Seq(Uint8), NEW ptr \in 0 .. Len(p)
  PROVE  ParseFrom(fields, p)[ptr] = Round(fields, p, ParseFrom(fields, p), ptr)
<1> DEFINE N == Len(p)
           R(g, q) == Round(fields, p, g, q)
           S == {o \in 0 .. N : \E g : \A q \in o .. N : g[q] = R(g, q)}
           F(g) == [q \in 0 .. N |-> R(g, q)]
<1>1. N \in Nat
  BY LenProperties
<1>2. ASSUME NEW o \in 0 .. N, \A q \in o + 1 .. N : q \in S
      PROVE  o \in S
  <2>1. PICK g : \A q \in o + 1 .. N : g[q] = R(g, q)
    <3>1. CASE o = N
      <4>1. o + 1 .. N = {}
        BY <1>1, <3>1
      <4>2. QED
        BY <4>1
    <3>2. CASE o # N
      <4>1. o + 1 \in o + 1 .. N
        BY <1>1, <3>2
      <4>2. o + 1 \in S
        BY <1>2, <4>1
      <4> HIDE DEF R
      <4>3. QED
        BY <4>2
    <3>3. QED
      BY <3>1, <3>2
  <2>2. PICK h : h = [q \in 0 .. N |-> IF q = o THEN R(g, o) ELSE g[q]]
    OBVIOUS
  <2>3. h[o] = R(g, o) /\ \A q \in o + 1 .. N : h[q] = g[q]
    <3> HIDE DEF R
    <3> QED BY <1>1, <2>2
  <2>4. ASSUME NEW q \in o .. N
        PROVE  h[q] = R(h, q)
    <3>1. q \in 0 .. N /\ \A r \in q + 1 .. N : r \in o + 1 .. N
      BY <1>1
    <3>2. \A r \in q + 1 .. N : g[r] = h[r]
      BY <2>3, <3>1
    <3>3. R(g, q) = R(h, q)
      BY <3>1, <3>2, RoundAhead
    <3>4. q = o \/ q \in o + 1 .. N
      BY <1>1
    <3> HIDE DEF R
    <3>5. QED
      BY <2>1, <2>3, <3>3, <3>4
  <2> HIDE DEF R
  <2>5. QED
    BY <2>4
<1>3. 0 \in S
  <2>1. 0 \in 0 .. N
    BY <1>1
  <2> HIDE DEF S
  <2>2. \A o \in 0 .. N : o \in S
    BY <1>1, <1>2, Downward
  <2>3. QED
    BY <2>1, <2>2
<1>4. PICK g : \A q \in 0 .. N : g[q] = R(g, q)
  <2> HIDE DEF R
  <2> QED BY <1>3
<1>5. PICK h : h = [q \in 0 .. N |-> g[q]]
  OBVIOUS
<1>6. \A q \in 0 .. N : h[q] = g[q]
  BY <1>5
<1>7. ASSUME NEW q \in 0 .. N
      PROVE  h[q] = R(h, q)
  <2>1. \A r \in q + 1 .. N : r \in 0 .. N
    BY <1>1
  <2>2. \A r \in q + 1 .. N : g[r] = h[r]
    BY <1>6, <2>1
  <2>3. R(g, q) = R(h, q)
    BY <2>2, RoundAhead
  <2> HIDE DEF R
  <2>4. QED
    BY <1>4, <1>6, <2>3
<1>8. h = F(h)
  <2> HIDE DEF R
  <2>1. QED
    BY <1>5, <1>6, <1>7
<1>9. ParseFrom(fields, p) = CHOOSE f : f = F(f)
  BY DEF ParseFrom, Round
<1>10. ParseFrom(fields, p) = F(ParseFrom(fields, p))
  <2> HIDE DEF F
  <2> QED BY <1>8, <1>9
<1>11. PICK f : f = ParseFrom(fields, p) /\ f = F(f)
  BY <1>10
<1>12. f[ptr] = R(f, ptr)
  <2> HIDE DEF R
  <2> QED BY <1>11
<1>13. QED
  BY <1>11, <1>12

-----------------------------------------------------------------------------
(* What the builders write. *)

(* p has a TLV with this tag and this value at ptr. *)
HasTlv(p, ptr, tag, value) ==
  /\ ptr + 2 + Len(value) =< Len(p)
  /\ p[ptr + 1] = tag /\ p[ptr + 2] = Len(value)
  /\ \A i \in 1 .. Len(value) : p[ptr + 2 + i] = value[i]

(* Two payloads one after the other. *)
LEMMA Joined ==
  ASSUME NEW a \in Seq(Uint8), NEW b \in Seq(Uint8)
  PROVE  /\ a \o b \in Seq(Uint8) /\ Len(a) \in Nat /\ Len(b) \in Nat
         /\ Len(a \o b) = Len(a) + Len(b)
         /\ \A i \in 1 .. Len(a) : (a \o b)[i] = a[i]
         /\ \A i \in 1 .. Len(b) : (a \o b)[Len(a) + i] = b[i]
<1>1. Len(a) \in Nat /\ Len(b) \in Nat
  BY LenProperties
<1>2. /\ a \o b \in Seq(Uint8) /\ Len(a \o b) = Len(a) + Len(b)
      /\ \A i \in 1 .. Len(a) + Len(b) :
           (a \o b)[i] = IF i =< Len(a) THEN a[i] ELSE b[i - Len(a)]
  BY ConcatProperties
<1>3. ASSUME NEW i \in 1 .. Len(a)
      PROVE  (a \o b)[i] = a[i]
  <2>1. i \in 1 .. Len(a) + Len(b) /\ i =< Len(a)
    BY <1>1
  <2>2. QED
    BY <1>2, <2>1
<1>4. ASSUME NEW i \in 1 .. Len(b)
      PROVE  (a \o b)[Len(a) + i] = b[i]
  <2>1. /\ Len(a) + i \in 1 .. Len(a) + Len(b) /\ ~(Len(a) + i =< Len(a))
        /\ (Len(a) + i) - Len(a) = i
    BY <1>1
  <2>2. QED
    BY <1>2, <2>1
<1>5. QED
  BY <1>1, <1>2, <1>3, <1>4

(* A value that fits in a length byte is written as it is. *)
LEMMA TlvWritten ==
  ASSUME NEW tag \in Uint8, NEW value \in Seq(Uint8), Len(value) =< 255
  PROVE  /\ write_tlv(tag, value) \in Seq(Uint8)
         /\ Len(write_tlv(tag, value)) = 2 + Len(value)
         /\ HasTlv(write_tlv(tag, value), 0, tag, value)
<1>1. Len(value) \in Nat /\ Len(value) % 256 = Len(value) /\ Len(value) \in Uint8
  <2>1. PICK n \in Nat : n = Len(value)
    BY LenProperties
  <2>2. n % 256 = n /\ n \in Uint8
    BY <2>1, FitsInByte
  <2>3. QED
    BY <2>1, <2>2
<1>2. SubSeq(value, 1, Len(value)) = value
  BY SubSeqFull
<1>3. PICK h \in Seq(Uint8) :
        h = <<tag, Len(value)>> /\ Len(h) = 2 /\ h[1] = tag /\ h[2] = Len(value)
  <2>1. PICK n \in Uint8 : n = Len(value)
    BY <1>1
  <2>2. <<tag, n>> \in Seq(Uint8)
    OBVIOUS
  <2>3. PICK h \in Seq(Uint8) : h = <<tag, n>>
    BY <2>2
  <2>4. Len(h) = 2 /\ h[1] = tag /\ h[2] = n
    BY <2>3
  <2>5. QED
    BY <2>1, <2>3, <2>4
<1>4. write_tlv(tag, value) = h \o value
  BY <1>1, <1>2, <1>3 DEF write_tlv
<1>5. PICK w \in Seq(Uint8) : w = h \o value
  BY Joined
<1>6. /\ Len(w) = 2 + Len(value)
      /\ \A i \in 1 .. 2 : w[i] = h[i]
      /\ \A i \in 1 .. Len(value) : w[2 + i] = value[i]
  BY <1>3, <1>5, Joined
<1>7. w[1] = tag /\ w[2] = Len(value)
  BY <1>3, <1>6
<1>8. HasTlv(w, 0, tag, value)
  BY <1>1, <1>6, <1>7 DEF HasTlv
<1>9. QED
  BY <1>4, <1>5, <1>6, <1>8

(* A TLV stays where it is when more is written behind it ... *)
LEMMA TlvBefore ==
  ASSUME NEW a \in Seq(Uint8), NEW b \in Seq(Uint8), NEW ptr \in Nat, NEW tag,
         NEW value \in Seq(Uint8), HasTlv(a, ptr, tag, value)
  PROVE  HasTlv(a \o b, ptr, tag, value)
<1>1. Len(value) \in Nat /\ Len(a) \in Nat /\ Len(b) \in Nat
  BY LenProperties
<1>2. PICK p \in Seq(Uint8) : p = a \o b
  BY Joined
<1>3. Len(p) = Len(a) + Len(b) /\ \A i \in 1 .. Len(a) : p[i] = a[i]
  BY <1>2, Joined
<1>4. ptr + 2 + Len(value) =< Len(a)
  BY DEF HasTlv
<1>5. /\ ptr + 1 \in 1 .. Len(a) /\ ptr + 2 \in 1 .. Len(a)
      /\ \A i \in 1 .. Len(value) : ptr + 2 + i \in 1 .. Len(a)
  BY <1>1, <1>4
<1>6. HasTlv(p, ptr, tag, value)
  BY <1>1, <1>3, <1>4, <1>5 DEF HasTlv
<1>7. QED
  BY <1>2, <1>6

(* ... and moves with what is written before it. *)
LEMMA TlvBehind ==
  ASSUME NEW a \in Seq(Uint8), NEW b \in Seq(Uint8), NEW tag,
         NEW value \in Seq(Uint8), HasTlv(b, 0, tag, value)
  PROVE  HasTlv(a \o b, Len(a), tag, value)
<1>1. Len(value) \in Nat /\ Len(a) \in Nat /\ Len(b) \in Nat
  BY LenProperties
<1>2. PICK p \in Seq(Uint8) : p = a \o b
  BY Joined
<1>3. Len(p) = Len(a) + Len(b) /\ \A i \in 1 .. Len(b) : p[Len(a) + i] = b[i]
  BY <1>2, Joined
<1>4. 2 + Len(value) =< Len(b)
  BY <1>1 DEF HasTlv
<1>5. p[Len(a) + 1] = b[1] /\ p[Len(a) + 2] = b[2]
  <2>1. 1 \in 1 .. Len(b) /\ 2 \in 1 .. Len(b)
    BY <1>1, <1>4
  <2>2. QED
    BY <1>3, <2>1
<1>6. b[1] = tag /\ b[2] = Len(value)
  BY DEF HasTlv
<1>7. ASSUME NEW i \in 1 .. Len(value)
      PROVE  p[Len(a) + 2 + i] = value[i]
  <2>1. 2 + i \in 1 .. Len(b) /\ Len(a) + 2 + i = Len(a) + (2 + i) /\ 0 + 2 + i = 2 + i
    BY <1>1, <1>4
  <2>2. b[2 + i] = value[i]
    BY <2>1 DEF HasTlv
  <2>3. QED
    BY <1>3, <2>1, <2>2
<1>8. HasTlv(p, Len(a), tag, value)
  BY <1>1, <1>3, <1>4, <1>5, <1>6, <1>7 DEF HasTlv
<1>9. QED
  BY <1>2, <1>8

(* f is a function. *)
IsFcn(f) == f = [t \in DOMAIN f |-> f[t]]

(* The values found, and one more. *)
With(found, tag, value) ==
  [t \in DOMAIN found \cup {tag} |-> IF t = tag THEN value ELSE found[t]]

IsWith(f, found, tag, value) ==
  /\ f = With(found, tag, value)
  /\ DOMAIN f = DOMAIN found \cup {tag} /\ IsFcn(f)
  /\ f[tag] = value
  /\ \A t \in DOMAIN found : t # tag => f[t] = found[t]

LEMMA WithFound ==
  ASSUME NEW found, NEW tag, NEW value
  PROVE  \E f : IsWith(f, found, tag, value)
<1>1. PICK f : f = With(found, tag, value)
  OBVIOUS
<1>2. f = [t \in DOMAIN found \cup {tag} |-> IF t = tag THEN value ELSE found[t]]
  BY <1>1 DEF With
<1>3. /\ DOMAIN f = DOMAIN found \cup {tag}
      /\ f[tag] = value
      /\ \A t \in DOMAIN found : t # tag => f[t] = found[t]
  BY <1>2
<1>4. IsFcn(f)
  BY <1>2 DEF IsFcn
<1>5. QED
  BY <1>1, <1>3, <1>4 DEF IsWith

(* From ptr on the parser meets nothing malformed and finds these values. *)
Finds(fields, p, ptr, found) ==
  ParseFrom(fields, p)[ptr] = [malformed |-> FALSE, found |-> found]

(* At the end it finds nothing more. *)
LEMMA FindsNothing ==
  ASSUME NEW fields, NEW p \in Seq(Uint8)
  PROVE  Finds(fields, p, Len(p), NoValues)
<1>1. Len(p) \in 0 .. Len(p)
  BY LenProperties
<1>2. QED
  BY <1>1, ParseFromRound DEF Round, Finds

(* What the parser reads where it meets a TLV that it knows. *)
LEMMA TlvRead ==
  ASSUME NEW fields, NEW p \in Seq(Uint8), NEW ptr \in Nat, NEW tag \in DOMAIN fields,
         NEW value \in Seq(Uint8), HasTlv(p, ptr, tag, value),
         fields[tag] \in Nat, Len(value) =< fields[tag]
  PROVE  /\ ptr \in 0 .. Len(p) /\ ptr # Len(p) /\ ~IsMalformed(fields, p, ptr)
         /\ p[ptr + 1] = tag
         /\ TlvValue(p, ptr) = value /\ TlvEnd(p, ptr) = ptr + 2 + Len(value)
<1>1. Len(value) \in Nat /\ Len(p) \in Nat
  BY LenProperties
<1>2. /\ ptr + 2 + Len(value) =< Len(p)
      /\ p[ptr + 1] = tag /\ p[ptr + 2] = Len(value)
      /\ \A i \in 1 .. Len(value) : p[ptr + 2 + i] = value[i]
  BY DEF HasTlv
<1>3. TlvEnd(p, ptr) = ptr + 2 + Len(value)
  BY <1>2 DEF TlvEnd
<1>4. ptr \in 0 .. Len(p) /\ ptr # Len(p) /\ ~(ptr + 2 > Len(p))
  BY <1>1, <1>2
<1>5. ~IsMalformed(fields, p, ptr)
  <2>1. ~TooLong(fields, p[ptr + 1], p[ptr + 2])
    BY <1>1, <1>2 DEF TooLong
  <2>2. ~(TlvEnd(p, ptr) > Len(p))
    BY <1>1, <1>2, <1>3
  <2>3. QED
    BY <1>4, <2>1, <2>2 DEF IsMalformed
<1>6. TlvValue(p, ptr) = value
  <2>1. PICK n \in Nat : n = Len(value)
    BY <1>1
  <2>2. TlvValue(p, ptr) = SubSeq(p, ptr + 3, ptr + 2 + n)
    BY <1>3, <2>1 DEF TlvValue
  <2>3. \A i \in ptr + 3 .. ptr + 2 + n : p[i] \in Uint8
    <3>1. ASSUME NEW i \in ptr + 3 .. ptr + 2 + n
          PROVE  i \in 1 .. Len(p)
      <4>1. ptr + 2 + n =< Len(p)
        BY <1>2, <2>1
      <4>2. QED
        BY <1>1, <4>1
    <3>2. QED
      BY <3>1, ElementOfSeq
  <2>4. PICK a \in Int, b \in Int : a = ptr + 3 /\ b = ptr + 2 + n
    OBVIOUS
  <2>5. /\ SubSeq(p, a, b) \in Seq(Uint8)
        /\ Len(SubSeq(p, a, b)) = IF a =< b THEN b - a + 1 ELSE 0
        /\ \A i \in 1 .. b - a + 1 : SubSeq(p, a, b)[i] = p[a + i - 1]
    <3>1. \A i \in a .. b : p[i] \in Uint8
      BY <2>3, <2>4
    <3>2. QED
      BY <3>1, SubSeqProperties
  <2>6. PICK v \in Seq(Uint8) :
          /\ v = SubSeq(p, a, b)
          /\ Len(v) = IF a =< b THEN b - a + 1 ELSE 0
          /\ \A i \in 1 .. b - a + 1 : v[i] = p[a + i - 1]
    BY <2>5
  <2>7. Len(v) = n
    BY <2>4, <2>6
  <2>8. ASSUME NEW i \in 1 .. n
        PROVE  v[i] = value[i]
    <3>1. i \in 1 .. b - a + 1 /\ a + i - 1 = ptr + 2 + i
      BY <2>4
    <3>2. v[i] = p[ptr + 2 + i]
      BY <2>6, <3>1
    <3>3. QED
      BY <1>2, <2>1, <3>2
  <2>9. v = value
    BY <2>1, <2>7, <2>8, SeqEqual
  <2>10. QED
    BY <2>2, <2>4, <2>6, <2>9
<1>7. QED
  BY <1>2, <1>3, <1>4, <1>5, <1>6

(* A TLV with a tag that the parser knows adds its value. *)
LEMMA FindsTlv ==
  ASSUME NEW fields, NEW p \in Seq(Uint8), NEW ptr \in Nat, NEW tag \in DOMAIN fields,
         NEW value \in Seq(Uint8), HasTlv(p, ptr, tag, value),
         fields[tag] \in Nat, Len(value) =< fields[tag],
         NEW found, tag \notin DOMAIN found,
         Finds(fields, p, ptr + 2 + Len(value), found)
  PROVE  Finds(fields, p, ptr, With(found, tag, value))
<1>1. /\ ptr \in 0 .. Len(p) /\ ptr # Len(p) /\ ~IsMalformed(fields, p, ptr)
      /\ p[ptr + 1] = tag
      /\ TlvValue(p, ptr) = value /\ TlvEnd(p, ptr) = ptr + 2 + Len(value)
  BY TlvRead
<1>2. ParseFrom(fields, p)[ptr] =
        ParseTlv(fields, p, ptr, ParseFrom(fields, p)[ptr + 2 + Len(value)])
  BY <1>1, ParseFromRound DEF Round
<1>3. PICK rest : /\ rest = ParseFrom(fields, p)[ptr + 2 + Len(value)]
                  /\ rest = [malformed |-> FALSE, found |-> found]
  BY DEF Finds
<1>4. rest.malformed = FALSE /\ rest.found = found
  BY <1>3
<1>5. ParseTlv(fields, p, ptr, rest) =
         [malformed |-> FALSE,
          found |-> [t \in DOMAIN found \cup ({tag} \cap DOMAIN fields) |->
                       IF t \in DOMAIN found THEN found[t] ELSE value]]
  BY <1>1, <1>4 DEF ParseTlv
<1>6. [t \in DOMAIN found \cup ({tag} \cap DOMAIN fields) |->
          IF t \in DOMAIN found THEN found[t] ELSE value] = With(found, tag, value)
  <2>1. DOMAIN found \cup ({tag} \cap DOMAIN fields) = DOMAIN found \cup {tag}
    OBVIOUS
  <2>2. ASSUME NEW t \in DOMAIN found \cup {tag}
        PROVE  (IF t \in DOMAIN found THEN found[t] ELSE value)
                 = (IF t = tag THEN value ELSE found[t])
    OBVIOUS
  <2>3. QED
    BY <2>1, <2>2 DEF With
<1>7. QED
  BY <1>2, <1>3, <1>5, <1>6 DEF Finds

(* The values of two parts of a payload that have no tag in common. *)
Merge(found, rest) ==
  [t \in DOMAIN found \cup DOMAIN rest |-> IF t \in DOMAIN rest THEN rest[t] ELSE found[t]]

(* p is a row of TLVs in which a parser for fields finds these values,     *)
(* whatever follows it.                                                    *)
Row(fields, p, found) ==
  /\ p \in Seq(Uint8)
  /\ \A b \in Seq(Uint8) : \A rest :
       /\ DOMAIN found \cap DOMAIN rest = {}
       /\ IsFcn(rest)
       /\ Finds(fields, p \o b, Len(p), rest)
       => Finds(fields, p \o b, 0, Merge(found, rest))

(* A row of no TLV. *)
LEMMA RowOfNone ==
  ASSUME NEW fields
  PROVE  Row(fields, << >>, NoValues)
<1>1. << >> \in Seq(Uint8) /\ Len(<< >>) = 0
  BY EmptySeq
<1>2. ASSUME NEW rest, IsFcn(rest)
      PROVE  Merge(NoValues, rest) = rest
  BY <1>2 DEF Merge, NoValues, IsFcn
<1>3. QED
  BY <1>1, <1>2 DEF Row

(* Three pieces of a payload may be put together either way. *)
Regroup(a, b, c) == (a \o b) \o c = a \o (b \o c)

LEMMA AnyGrouping ==
  ASSUME NEW a \in Seq(Uint8), NEW b \in Seq(Uint8), NEW c \in Seq(Uint8)
  PROVE  Regroup(a, b, c)
  BY ConcatAssociative DEF Regroup

(* A builder adds a TLV to a row. *)
LEMMA RowAdded ==
  ASSUME NEW fields, NEW p, NEW found, Row(fields, p, found),
         NEW tag \in Uint8, tag \in DOMAIN fields, tag \notin DOMAIN found,
         NEW value \in Seq(Uint8), Len(value) =< 255,
         fields[tag] \in Nat, Len(value) =< fields[tag]
  PROVE  Row(fields, p \o write_tlv(tag, value), With(found, tag, value))
<1>1. p \in Seq(Uint8) /\ Len(p) \in Nat /\ Len(value) \in Nat
  BY LenProperties DEF Row
<1>2. PICK w \in Seq(Uint8) : /\ w = write_tlv(tag, value) /\ Len(w) = 2 + Len(value)
                              /\ HasTlv(w, 0, tag, value)
  BY TlvWritten
<1>3. p \o w \in Seq(Uint8) /\ Len(p \o w) = Len(p) + 2 + Len(value)
  <2>1. p \o w \in Seq(Uint8) /\ Len(p \o w) = Len(p) + Len(w)
    BY <1>1, Joined
  <2>2. QED
    BY <1>1, <1>2, <2>1
<1>4. ASSUME NEW b \in Seq(Uint8), NEW rest, DOMAIN With(found, tag, value) \cap DOMAIN rest = {},
             IsFcn(rest),
             Finds(fields, (p \o w) \o b, Len(p \o w), rest)
      PROVE  Finds(fields, (p \o w) \o b, 0, Merge(With(found, tag, value), rest))
  <2>1. PICK c \in Seq(Uint8) : c = w \o b /\ HasTlv(c, 0, tag, value)
    <3>1. w \o b \in Seq(Uint8)
      BY Joined
    <3>2. HasTlv(w \o b, 0, tag, value)
      BY <1>2, TlvBefore
    <3>3. QED
      BY <3>1, <3>2
  <2>2. PICK q \in Seq(Uint8) : q = (p \o w) \o b /\ q = p \o c
    <3>1. Regroup(p, w, b)
      BY <1>1, AnyGrouping
    <3>2. p \o c \in Seq(Uint8)
      BY <1>1, Joined
    <3>3. (p \o w) \o b = p \o c
      BY <2>1, <3>1, Zenon DEF Regroup
    <3>4. QED
      BY <3>2, <3>3, Zenon
  <2>3. HasTlv(q, Len(p), tag, value)
    BY <1>1, <2>1, <2>2, TlvBehind
  <2>4. Finds(fields, q, Len(p) + 2 + Len(value), rest)
    BY <1>3, <1>4, <2>2
  <2>5. DOMAIN With(found, tag, value) = DOMAIN found \cup {tag}
    BY DEF With
  <2>6. tag \notin DOMAIN rest /\ DOMAIN found \cap DOMAIN rest = {}
    BY <1>4, <2>5
  <2>7. Finds(fields, q, Len(p), With(rest, tag, value))
    BY <1>1, <2>3, <2>4, <2>6, FindsTlv
  <2>8. PICK r : IsWith(r, rest, tag, value)
    BY WithFound
  <2>9. DOMAIN found \cap DOMAIN r = {}
    BY <2>6, <2>8 DEF IsWith
  <2>10. Finds(fields, q, 0, Merge(found, r))
    BY <2>2, <2>7, <2>8, <2>9 DEF Row, IsWith
  <2>11. Merge(found, r) = Merge(With(found, tag, value), rest)
    BY <2>5, <2>6, <2>8, <2>9 DEF Merge, With, IsWith
  <2>12. QED
    BY <2>2, <2>10, <2>11
<1>5. QED
  BY <1>2, <1>3, <1>4 DEF Row

(* What a parser returns for a row with the values that it requires. *)
LEMMA RowParsed ==
  ASSUME NEW fields, NEW p, NEW found, Row(fields, p, found), DOMAIN found = DOMAIN fields,
         IsFcn(found)
  PROVE  Parse(fields, p) = [ok |-> TRUE, found |-> found]
<1>1. p \in Seq(Uint8) /\ << >> \in Seq(Uint8) /\ p \o << >> = p
  BY ConcatEmptySeq, EmptySeq DEF Row
<1>2. Finds(fields, p, Len(p), NoValues)
  BY <1>1, FindsNothing
<1>3. DOMAIN NoValues = {} /\ IsFcn(NoValues)
  BY DEF NoValues, IsFcn
<1>4. Finds(fields, p, 0, Merge(found, NoValues))
  <2>1. DOMAIN found \cap DOMAIN NoValues = {}
    BY <1>3
  <2>2. QED
    BY <1>1, <1>2, <1>3, <2>1 DEF Row
<1>5. Merge(found, NoValues) = found
  BY <1>3 DEF Merge, IsFcn
<1>6. PICK final : /\ final = ParseFrom(fields, p)[0]
                   /\ final = [malformed |-> FALSE, found |-> found]
  BY <1>4, <1>5 DEF Finds
<1>7. final.malformed = FALSE /\ final.found = found
  BY <1>6
<1>8. QED
  BY <1>6, <1>7 DEF Parse

(* The limits of the parsers. *)
LEMMA Limits ==
  /\ MAX_USERNAME_SIZE \in Nat /\ MAX_USERNAME_SIZE =< 255
  /\ MAX_PASSWORD_SIZE \in Nat /\ MAX_PASSWORD_SIZE =< 255
  /\ MAX_MSG_CONTENT_SIZE \in Nat /\ MAX_MSG_CONTENT_SIZE =< 255
  BY TlvAssumption

LEMMA Tags ==
  /\ TAG_USERNAME \in Uint8 /\ TAG_PASSWORD \in Uint8 /\ TAG_USER_ID \in Uint8
  /\ TAG_WORLD_BROADCAST \in Uint8 /\ TAG_P2P_BROADCAST \in Uint8
  /\ TAG_SENDER_USERNAME \in Uint8 /\ TAG_RECIPIENT_USERNAME \in Uint8
  /\ TAG_MESSAGE_CONTENT \in Uint8
  BY DEF Uint8, TAG_USERNAME, TAG_PASSWORD, TAG_USER_ID, TAG_WORLD_BROADCAST, TAG_P2P_BROADCAST,
         TAG_SENDER_USERNAME, TAG_RECIPIENT_USERNAME, TAG_MESSAGE_CONTENT

(* The first TLV of a payload starts a row. *)
LEMMA RowStarted ==
  ASSUME NEW fields, NEW tag \in Uint8, tag \in DOMAIN fields,
         NEW value \in Seq(Uint8), Len(value) =< 255,
         fields[tag] \in Nat, Len(value) =< fields[tag]
  PROVE  Row(fields, write_tlv(tag, value), With(NoValues, tag, value))
<1>1. write_tlv(tag, value) \in Seq(Uint8)
  BY TlvWritten
<1>2. << >> \o write_tlv(tag, value) = write_tlv(tag, value)
  BY <1>1, ConcatEmptySeq
<1>3. tag \notin DOMAIN NoValues
  BY DEF NoValues
<1>4. Row(fields, << >> \o write_tlv(tag, value), With(NoValues, tag, value))
  BY <1>3, RowOfNone, RowAdded
<1>5. QED
  BY <1>2, <1>4

(* The first byte of a payload is the tag of its first TLV, which is how   *)
(* peek_broadcast_type tells the broadcasts apart.                         *)
LEMMA FirstTag ==
  ASSUME NEW tag \in Uint8, NEW value \in Seq(Uint8), Len(value) =< 255
  PROVE  /\ write_tlv(tag, value) \in Seq(Uint8)
         /\ Len(write_tlv(tag, value)) >= 1
         /\ write_tlv(tag, value)[1] = tag
<1>1. PICK w \in Seq(Uint8) : /\ w = write_tlv(tag, value) /\ Len(w) = 2 + Len(value)
                              /\ HasTlv(w, 0, tag, value)
  BY TlvWritten
<1>2. w[1] = tag
  BY <1>1 DEF HasTlv
<1>3. Len(w) >= 1
  BY <1>1, LenProperties
<1>4. QED
  BY <1>1, <1>2, <1>3

LEMMA FirstStays ==
  ASSUME NEW a \in Seq(Uint8), Len(a) >= 1, NEW b \in Seq(Uint8)
  PROVE  a \o b \in Seq(Uint8) /\ Len(a \o b) >= 1 /\ (a \o b)[1] = a[1]
<1>1. 1 \in 1 .. Len(a)
  BY LenProperties
<1>2. QED
  BY <1>1, Joined

(* r is all that Parse returns when it accepts. *)
IsAccepted(r) == r = [ok |-> TRUE, found |-> r.found] /\ IsFcn(r.found)

(* What build_credentials writes, and UserPayload when its id is bytes. *)
CredentialsPayload(username, password) ==
  write_tlv(TAG_USERNAME, username) \o write_tlv(TAG_PASSWORD, password)
IdPayload(id, username) == write_tlv(TAG_USER_ID, id) \o write_tlv(TAG_USERNAME, username)

(* The credentials of build_register_request and build_login_request. *)
LEMMA CredentialsParsed ==
  ASSUME NEW username \in Seq(Uint8), Len(username) =< MAX_USERNAME_SIZE,
         NEW password \in Seq(Uint8), Len(password) =< MAX_PASSWORD_SIZE,
         NEW r, r = Parse(CredentialFields, CredentialsPayload(username, password))
  PROVE  /\ IsAccepted(r) /\ r.ok /\ DOMAIN r.found = DOMAIN CredentialFields
         /\ r.found[TAG_USERNAME] = username
         /\ r.found[TAG_PASSWORD] = password
<1>0. PICK p : /\ p = CredentialsPayload(username, password)
               /\ p = write_tlv(TAG_USERNAME, username)
                       \o write_tlv(TAG_PASSWORD, password)
  BY DEF CredentialsPayload
<1>1. /\ username \in Seq(Uint8) /\ Len(username) \in Nat /\ Len(username) =< 255
      /\ password \in Seq(Uint8) /\ Len(password) \in Nat /\ Len(password) =< 255
  BY Limits, LenProperties, EmptySeq
<1>2. /\ DOMAIN CredentialFields = {TAG_USERNAME, TAG_PASSWORD}
      /\ TAG_USERNAME \in Uint8 /\ CredentialFields[TAG_USERNAME] \in Nat
      /\ Len(username) =< CredentialFields[TAG_USERNAME]
      /\ TAG_PASSWORD \in Uint8 /\ CredentialFields[TAG_PASSWORD] \in Nat
      /\ Len(password) =< CredentialFields[TAG_PASSWORD]
  <2>1. /\ DOMAIN CredentialFields = {TAG_USERNAME, TAG_PASSWORD}
        /\ CredentialFields[TAG_USERNAME] = MAX_USERNAME_SIZE
        /\ CredentialFields[TAG_PASSWORD] = MAX_PASSWORD_SIZE
    BY DEF CredentialFields, TAG_USERNAME, TAG_PASSWORD
  <2>2. QED
    BY <1>1, <2>1, Limits, Tags
<1>3. /\ TAG_USERNAME # TAG_PASSWORD
  BY DEF TAG_USERNAME, TAG_PASSWORD
<1>4. PICK f : IsWith(f, NoValues, TAG_USERNAME, username)
  BY WithFound
<1>5. DOMAIN f = {TAG_USERNAME} /\ f[TAG_USERNAME] = username
  BY <1>3, <1>4 DEF IsWith, NoValues
<1>6. Row(CredentialFields, write_tlv(TAG_USERNAME, username), f)
  BY <1>1, <1>2, <1>4, RowStarted DEF IsWith
<1>7. PICK g : IsWith(g, f, TAG_PASSWORD, password)
  BY WithFound
<1>8. /\ DOMAIN g = {TAG_USERNAME, TAG_PASSWORD}
      /\ g[TAG_USERNAME] = username /\ g[TAG_PASSWORD] = password
  BY <1>3, <1>7, <1>5 DEF IsWith
<1>9. Row(CredentialFields, p, g)
  <2>1. TAG_PASSWORD \notin DOMAIN f
    BY <1>3, <1>5
  <2>2. QED
    BY <1>0, <1>1, <1>2, <1>7, <1>6, <2>1, RowAdded DEF IsWith
<1>10. r = [ok |-> TRUE, found |-> g]
  BY <1>0, <1>2, <1>7, <1>8, <1>9, RowParsed DEF IsWith
<1>11. r.ok /\ r.found = g
  BY <1>10
<1>12. QED
  BY <1>2, <1>7, <1>8, <1>10, <1>11 DEF IsWith, IsAccepted

(* A world broadcast, as a request and as a notification. *)
LEMMA WorldParsed ==
  ASSUME NEW sender \in Seq(Uint8), Len(sender) =< MAX_USERNAME_SIZE,
         NEW content \in Seq(Uint8), Len(content) =< 255,
         NEW r, r = Parse(WorldFields, WorldPayload(sender, content))
  PROVE  /\ r.ok /\ DOMAIN r.found = DOMAIN WorldFields
         /\ r.found[TAG_WORLD_BROADCAST] = << >>
         /\ r.found[TAG_SENDER_USERNAME] = sender
         /\ r.found[TAG_MESSAGE_CONTENT] = content
<1>0. PICK p : /\ p = WorldPayload(sender, content)
               /\ p = write_tlv(TAG_WORLD_BROADCAST, << >>)
                       \o write_tlv(TAG_SENDER_USERNAME, sender)
                       \o write_tlv(TAG_MESSAGE_CONTENT, content)
  BY DEF WorldPayload
<1>1. /\ << >> \in Seq(Uint8) /\ Len(<< >>) \in Nat /\ Len(<< >>) =< 255
      /\ sender \in Seq(Uint8) /\ Len(sender) \in Nat /\ Len(sender) =< 255
      /\ content \in Seq(Uint8) /\ Len(content) \in Nat /\ Len(content) =< 255
  BY Limits, LenProperties, EmptySeq
<1>2. /\ DOMAIN WorldFields = {TAG_WORLD_BROADCAST, TAG_SENDER_USERNAME, TAG_MESSAGE_CONTENT}
      /\ TAG_WORLD_BROADCAST \in Uint8 /\ WorldFields[TAG_WORLD_BROADCAST] \in Nat
      /\ Len(<< >>) =< WorldFields[TAG_WORLD_BROADCAST]
      /\ TAG_SENDER_USERNAME \in Uint8 /\ WorldFields[TAG_SENDER_USERNAME] \in Nat
      /\ Len(sender) =< WorldFields[TAG_SENDER_USERNAME]
      /\ TAG_MESSAGE_CONTENT \in Uint8 /\ WorldFields[TAG_MESSAGE_CONTENT] \in Nat
      /\ Len(content) =< WorldFields[TAG_MESSAGE_CONTENT]
  <2>1. /\ DOMAIN WorldFields = {TAG_WORLD_BROADCAST, TAG_SENDER_USERNAME, TAG_MESSAGE_CONTENT}
        /\ WorldFields[TAG_WORLD_BROADCAST] = 255
        /\ WorldFields[TAG_SENDER_USERNAME] = MAX_USERNAME_SIZE
        /\ WorldFields[TAG_MESSAGE_CONTENT] = 255
    BY DEF WorldFields, TAG_WORLD_BROADCAST, TAG_SENDER_USERNAME, TAG_MESSAGE_CONTENT
  <2>2. QED
    BY <1>1, <2>1, Limits, Tags
<1>3. /\ TAG_WORLD_BROADCAST # TAG_SENDER_USERNAME
      /\ TAG_WORLD_BROADCAST # TAG_MESSAGE_CONTENT
      /\ TAG_SENDER_USERNAME # TAG_MESSAGE_CONTENT
  BY DEF TAG_WORLD_BROADCAST, TAG_SENDER_USERNAME, TAG_MESSAGE_CONTENT
<1>4. PICK f : IsWith(f, NoValues, TAG_WORLD_BROADCAST, << >>)
  BY WithFound
<1>5. DOMAIN f = {TAG_WORLD_BROADCAST} /\ f[TAG_WORLD_BROADCAST] = << >>
  BY <1>3, <1>4 DEF IsWith, NoValues
<1>6. Row(WorldFields, write_tlv(TAG_WORLD_BROADCAST, << >>), f)
  BY <1>1, <1>2, <1>4, RowStarted DEF IsWith
<1>7. PICK g : IsWith(g, f, TAG_SENDER_USERNAME, sender)
  BY WithFound
<1>8. /\ DOMAIN g = {TAG_WORLD_BROADCAST, TAG_SENDER_USERNAME}
      /\ g[TAG_WORLD_BROADCAST] = << >> /\ g[TAG_SENDER_USERNAME] = sender
  BY <1>3, <1>7, <1>5 DEF IsWith
<1>9. Row(WorldFields,
          write_tlv(TAG_WORLD_BROADCAST, << >>) \o write_tlv(TAG_SENDER_USERNAME, sender), g)
  <2>1. TAG_SENDER_USERNAME \notin DOMAIN f
    BY <1>3, <1>5
  <2>2. QED
    BY <1>0, <1>1, <1>2, <1>7, <1>6, <2>1, RowAdded DEF IsWith
<1>10. PICK h : IsWith(h, g, TAG_MESSAGE_CONTENT, content)
  BY WithFound
<1>11. /\ DOMAIN h = {TAG_WORLD_BROADCAST, TAG_SENDER_USERNAME, TAG_MESSAGE_CONTENT}
       /\ h[TAG_WORLD_BROADCAST] = << >> /\ h[TAG_SENDER_USERNAME] = sender
       /\ h[TAG_MESSAGE_CONTENT] = content
  BY <1>3, <1>10, <1>8 DEF IsWith
<1>12. Row(WorldFields, p, h)
  <2>1. TAG_MESSAGE_CONTENT \notin DOMAIN g
    BY <1>3, <1>8
  <2>2. QED
    BY <1>0, <1>1, <1>2, <1>10, <1>9, <2>1, RowAdded DEF IsWith
<1>13. r = [ok |-> TRUE, found |-> h]
  BY <1>0, <1>2, <1>10, <1>11, <1>12, RowParsed DEF IsWith
<1>14. r.ok /\ r.found = h
  BY <1>13
<1>15. QED
  BY <1>2, <1>10, <1>11, <1>13, <1>14 DEF IsWith

(* A private message, as a request and as a notification. *)
LEMMA P2PParsed ==
  ASSUME NEW sender \in Seq(Uint8), Len(sender) =< MAX_USERNAME_SIZE,
         NEW recipient \in Seq(Uint8), Len(recipient) =< MAX_USERNAME_SIZE,
         NEW content \in Seq(Uint8), Len(content) =< 255,
         NEW r, r = Parse(P2PFields, P2PPayload(sender, recipient, content))
  PROVE  /\ r.ok /\ DOMAIN r.found = DOMAIN P2PFields
         /\ r.found[TAG_P2P_BROADCAST] = << >>
         /\ r.found[TAG_SENDER_USERNAME] = sender
         /\ r.found[TAG_RECIPIENT_USERNAME] = recipient
         /\ r.found[TAG_MESSAGE_CONTENT] = content
<1>0. PICK p : /\ p = P2PPayload(sender, recipient, content)
               /\ p = write_tlv(TAG_P2P_BROADCAST, << >>)
                       \o write_tlv(TAG_SENDER_USERNAME, sender)
                       \o write_tlv(TAG_RECIPIENT_USERNAME, recipient)
                       \o write_tlv(TAG_MESSAGE_CONTENT, content)
  BY DEF P2PPayload
<1>1. /\ << >> \in Seq(Uint8) /\ Len(<< >>) \in Nat /\ Len(<< >>) =< 255
      /\ sender \in Seq(Uint8) /\ Len(sender) \in Nat /\ Len(sender) =< 255
      /\ recipient \in Seq(Uint8) /\ Len(recipient) \in Nat /\ Len(recipient) =< 255
      /\ content \in Seq(Uint8) /\ Len(content) \in Nat /\ Len(content) =< 255
  BY Limits, LenProperties, EmptySeq
<1>2. /\ DOMAIN P2PFields =
              {TAG_P2P_BROADCAST, TAG_SENDER_USERNAME, TAG_RECIPIENT_USERNAME,
               TAG_MESSAGE_CONTENT}
      /\ TAG_P2P_BROADCAST \in Uint8 /\ P2PFields[TAG_P2P_BROADCAST] \in Nat
      /\ Len(<< >>) =< P2PFields[TAG_P2P_BROADCAST]
      /\ TAG_SENDER_USERNAME \in Uint8 /\ P2PFields[TAG_SENDER_USERNAME] \in Nat
      /\ Len(sender) =< P2PFields[TAG_SENDER_USERNAME]
      /\ TAG_RECIPIENT_USERNAME \in Uint8 /\ P2PFields[TAG_RECIPIENT_USERNAME] \in Nat
      /\ Len(recipient) =< P2PFields[TAG_RECIPIENT_USERNAME]
      /\ TAG_MESSAGE_CONTENT \in Uint8 /\ P2PFields[TAG_MESSAGE_CONTENT] \in Nat
      /\ Len(content) =< P2PFields[TAG_MESSAGE_CONTENT]
  <2>1. /\ DOMAIN P2PFields =
                {TAG_P2P_BROADCAST, TAG_SENDER_USERNAME, TAG_RECIPIENT_USERNAME,
                 TAG_MESSAGE_CONTENT}
        /\ P2PFields[TAG_P2P_BROADCAST] = 255
        /\ P2PFields[TAG_SENDER_USERNAME] = MAX_USERNAME_SIZE
        /\ P2PFields[TAG_RECIPIENT_USERNAME] = MAX_USERNAME_SIZE
        /\ P2PFields[TAG_MESSAGE_CONTENT] = 255
    BY DEF P2PFields, TAG_P2P_BROADCAST, TAG_SENDER_USERNAME,
           TAG_RECIPIENT_USERNAME, TAG_MESSAGE_CONTENT
  <2>2. QED
    BY <1>1, <2>1, Limits, Tags
<1>3. /\ TAG_P2P_BROADCAST # TAG_SENDER_USERNAME
      /\ TAG_P2P_BROADCAST # TAG_RECIPIENT_USERNAME
      /\ TAG_P2P_BROADCAST # TAG_MESSAGE_CONTENT
      /\ TAG_SENDER_USERNAME # TAG_RECIPIENT_USERNAME
      /\ TAG_SENDER_USERNAME # TAG_MESSAGE_CONTENT
      /\ TAG_RECIPIENT_USERNAME # TAG_MESSAGE_CONTENT
  BY DEF TAG_P2P_BROADCAST, TAG_SENDER_USERNAME, TAG_RECIPIENT_USERNAME, TAG_MESSAGE_CONTENT
<1>4. PICK f : IsWith(f, NoValues, TAG_P2P_BROADCAST, << >>)
  BY WithFound
<1>5. DOMAIN f = {TAG_P2P_BROADCAST} /\ f[TAG_P2P_BROADCAST] = << >>
  BY <1>3, <1>4 DEF IsWith, NoValues
<1>6. Row(P2PFields, write_tlv(TAG_P2P_BROADCAST, << >>), f)
  BY <1>1, <1>2, <1>4, RowStarted DEF IsWith
<1>7. PICK g : IsWith(g, f, TAG_SENDER_USERNAME, sender)
  BY WithFound
<1>8. /\ DOMAIN g = {TAG_P2P_BROADCAST, TAG_SENDER_USERNAME}
      /\ g[TAG_P2P_BROADCAST] = << >> /\ g[TAG_SENDER_USERNAME] = sender
  BY <1>3, <1>7, <1>5 DEF IsWith
<1>9. Row(P2PFields,
          write_tlv(TAG_P2P_BROADCAST, << >>) \o write_tlv(TAG_SENDER_USERNAME, sender), g)
  <2>1. TAG_SENDER_USERNAME \notin DOMAIN f
    BY <1>3, <1>5
  <2>2. QED
    BY <1>0, <1>1, <1>2, <1>7, <1>6, <2>1, RowAdded DEF IsWith
<1>10. PICK h : IsWith(h, g, TAG_RECIPIENT_USERNAME, recipient)
  BY WithFound
<1>11. /\ DOMAIN h = {TAG_P2P_BROADCAST, TAG_SENDER_USERNAME, TAG_RECIPIENT_USERNAME}
       /\ h[TAG_P2P_BROADCAST] = << >> /\ h[TAG_SENDER_USERNAME] = sender
       /\ h[TAG_RECIPIENT_USERNAME] = recipient
  BY <1>3, <1>10, <1>8 DEF IsWith
<1>12. Row(P2PFields,
           write_tlv(TAG_P2P_BROADCAST, << >>) \o write_tlv(TAG_SENDER_USERNAME, sender)
             \o write_tlv(TAG_RECIPIENT_USERNAME, recipient), h)
  <2>1. TAG_RECIPIENT_USERNAME \notin DOMAIN g
    BY <1>3, <1>8
  <2>2. QED
    BY <1>0, <1>1, <1>2, <1>10, <1>9, <2>1, RowAdded DEF IsWith
<1>13. PICK i : IsWith(i, h, TAG_MESSAGE_CONTENT, content)
  BY WithFound
<1>14. /\ DOMAIN i = {TAG_P2P_BROADCAST, TAG_SENDER_USERNAME, TAG_RECIPIENT_USERNAME,
                      TAG_MESSAGE_CONTENT}
       /\ i[TAG_P2P_BROADCAST] = << >> /\ i[TAG_SENDER_USERNAME] = sender
       /\ i[TAG_RECIPIENT_USERNAME] = recipient /\ i[TAG_MESSAGE_CONTENT] = content
  BY <1>3, <1>13, <1>11 DEF IsWith
<1>15. Row(P2PFields, p, i)
  <2>1. TAG_MESSAGE_CONTENT \notin DOMAIN h
    BY <1>3, <1>11
  <2>2. QED
    BY <1>0, <1>1, <1>2, <1>13, <1>12, <2>1, RowAdded DEF IsWith
<1>16. r = [ok |-> TRUE, found |-> i]
  BY <1>0, <1>2, <1>13, <1>14, <1>15, RowParsed DEF IsWith
<1>17. r.ok /\ r.found = i
  BY <1>16
<1>18. QED
  BY <1>2, <1>13, <1>14, <1>16, <1>17 DEF IsWith

(* The user of build_register_response and build_login_response. *)
LEMMA UserParsed ==
  ASSUME NEW id \in Seq(Uint8), Len(id) =< 255,
         NEW username \in Seq(Uint8), Len(username) =< MAX_USERNAME_SIZE,
         NEW r, r = Parse(UserFields, IdPayload(id, username))
  PROVE  /\ r.ok /\ DOMAIN r.found = DOMAIN UserFields
         /\ r.found[TAG_USER_ID] = id
         /\ r.found[TAG_USERNAME] = username
<1>0. PICK p : /\ p = IdPayload(id, username)
               /\ p = write_tlv(TAG_USER_ID, id)
                       \o write_tlv(TAG_USERNAME, username)
  BY DEF IdPayload
<1>1. /\ id \in Seq(Uint8) /\ Len(id) \in Nat /\ Len(id) =< 255
      /\ username \in Seq(Uint8) /\ Len(username) \in Nat /\ Len(username) =< 255
  BY Limits, LenProperties, EmptySeq
<1>2. /\ DOMAIN UserFields = {TAG_USER_ID, TAG_USERNAME}
      /\ TAG_USER_ID \in Uint8 /\ UserFields[TAG_USER_ID] \in Nat
      /\ Len(id) =< UserFields[TAG_USER_ID]
      /\ TAG_USERNAME \in Uint8 /\ UserFields[TAG_USERNAME] \in Nat
      /\ Len(username) =< UserFields[TAG_USERNAME]
  <2>1. /\ DOMAIN UserFields = {TAG_USER_ID, TAG_USERNAME}
        /\ UserFields[TAG_USER_ID] = 255
        /\ UserFields[TAG_USERNAME] = MAX_USERNAME_SIZE
    BY DEF UserFields, TAG_USER_ID, TAG_USERNAME
  <2>2. QED
    BY <1>1, <2>1, Limits, Tags
<1>3. /\ TAG_USER_ID # TAG_USERNAME
  BY DEF TAG_USER_ID, TAG_USERNAME
<1>4. PICK f : IsWith(f, NoValues, TAG_USER_ID, id)
  BY WithFound
<1>5. DOMAIN f = {TAG_USER_ID} /\ f[TAG_USER_ID] = id
  BY <1>3, <1>4 DEF IsWith, NoValues
<1>6. Row(UserFields, write_tlv(TAG_USER_ID, id), f)
  BY <1>1, <1>2, <1>4, RowStarted DEF IsWith
<1>7. PICK g : IsWith(g, f, TAG_USERNAME, username)
  BY WithFound
<1>8. DOMAIN g = {TAG_USER_ID, TAG_USERNAME} /\ g[TAG_USER_ID] = id /\ g[TAG_USERNAME] = username
  BY <1>3, <1>7, <1>5 DEF IsWith
<1>9. Row(UserFields, p, g)
  <2>1. TAG_USERNAME \notin DOMAIN f
    BY <1>3, <1>5
  <2>2. Row(UserFields, write_tlv(TAG_USER_ID, id) \o write_tlv(TAG_USERNAME, username), g)
    BY <1>1, <1>2, <1>7, <1>6, <2>1, RowAdded DEF IsWith
  <2>3. QED
    BY <1>0, <2>2, Zenon
<1>10. r = [ok |-> TRUE, found |-> g]
  BY <1>0, <1>2, <1>7, <1>8, <1>9, RowParsed DEF IsWith
<1>11. r.ok /\ r.found = g
  BY <1>10
<1>12. QED
  BY <1>2, <1>7, <1>8, <1>10, <1>11 DEF IsWith

-----------------------------------------------------------------------------
(* The memory of the user id. *)

(* What the loop makes of it from ptr on, if f says what it does after that. *)
IdStep(p, f, ptr) ==
  [memory \in IdMemory |->
     IF ptr = Len(p) \/ IsMalformed(UserFields, p, ptr) THEN memory
     ELSE f[TlvEnd(p, ptr)][IF p[ptr + 1] = TAG_USER_ID
                            THEN CopyId(memory, TlvValue(p, ptr)) ELSE memory]]

LEMMA IdIsSeq ==
  ASSUME NEW m \in [1 .. 4 -> Uint8]
  PROVE  m \in Seq(Uint8) /\ Len(m) = 4 /\ m # Smashed
<1>1. m \in Seq(Uint8) /\ DOMAIN m = 1 .. 4
  BY SeqDef
<1>2. PICK n \in Nat : n = Len(m) /\ 1 .. n = 1 .. 4
  BY <1>1, LenProperties
<1>3. n = 4
  <2>1. n \in 1 .. n \/ n = 0
    OBVIOUS
  <2>2. 4 \in 1 .. n
    BY <1>2
  <2>3. QED
    BY <1>2, <2>1, <2>2
<1>4. m # Smashed
  <2>1. Len(Smashed) = 0
    BY EmptySeq DEF Smashed
  <2>2. QED
    BY <1>2, <1>3, <2>1
<1>5. QED
  BY <1>1, <1>2, <1>3, <1>4

(* What memcpy and ntohl leave there. *)
LEMMA IdCopied ==
  ASSUME NEW memory \in IdMemory, NEW value \in Seq(Uint8)
  PROVE  /\ CopyId(memory, value) \in IdMemory
         /\ CopyId(memory, value) = Smashed <=> memory = Smashed \/ Len(value) > 4
         /\ memory # Smashed /\ Len(value) = 4 => CopyId(memory, value) = htonl(value)
<1>1. PICK n \in Nat : n = Len(value)
  BY LenProperties
<1>2. \A m \in [1 .. 4 -> Uint8] : m \in Seq(Uint8) /\ Len(m) = 4 /\ m # Smashed
  BY IdIsSeq
<1>3. CASE memory = Smashed \/ n > 4
  <2>1. memory = Smashed \/ Len(value) > 4
    BY <1>1, <1>3
  <2>2. CopyId(memory, value) = Smashed
    BY <2>1 DEF CopyId
  <2>3. Smashed \in IdMemory
    BY DEF IdMemory
  <2>4. ASSUME memory # Smashed, Len(value) = 4
        PROVE  FALSE
    <3>1. n > 4
      BY <1>3, <2>4
    <3>2. QED
      BY <1>1, <2>4, <3>1
  <2>5. QED
    BY <2>1, <2>2, <2>3, <2>4
<1>4. CASE memory # Smashed /\ n =< 4
  <2>1. memory \in Seq(Uint8) /\ Len(memory) = 4
    BY <1>2, <1>4 DEF IdMemory
  <2>2. PICK a \in Int, b \in Int : a = n + 1 /\ b = 4
    OBVIOUS
  <2>3. \A i \in a .. b : memory[i] \in Uint8
    <3>1. \A i \in a .. b : i \in 1 .. 4
      BY <2>2
    <3>2. QED
      BY <2>1, <3>1, ElementOfSeq
  <2>4. PICK t \in Seq(Uint8) :
          t = SubSeq(memory, a, b) /\ Len(t) = IF a =< b THEN b - a + 1 ELSE 0
    <3>1. /\ SubSeq(memory, a, b) \in Seq(Uint8)
          /\ Len(SubSeq(memory, a, b)) = IF a =< b THEN b - a + 1 ELSE 0
      BY <2>3, SubSeqProperties
    <3>2. QED
      BY <3>1
  <2>5. Len(t) = 4 - n
    BY <1>4, <2>2, <2>4
  <2>6. PICK w \in Seq(Uint8) : w = value \o t /\ Len(w) = Len(value) + Len(t)
    BY Joined
  <2>7. Len(w) = 4
    BY <1>1, <2>5, <2>6
  <2>8. CopyId(memory, value) = htonl(w)
    <3>1. ~(n > 4)
      BY <1>4
    <3>2. QED
      BY <1>1, <1>4, <2>2, <2>4, <2>6, <3>1 DEF CopyId
  <2>9. htonl(w) \in [1 .. 4 -> Uint8]
    <3>1. htonl(w) = [i \in 1 .. 4 |-> w[(4 - i) + 1]]
      BY <2>7 DEF htonl, Reverse
    <3>2. \A i \in 1 .. 4 : w[(4 - i) + 1] \in Uint8
      <4>1. \A i \in 1 .. 4 : (4 - i) + 1 \in 1 .. Len(w)
        BY <2>7
      <4>2. QED
        BY <4>1, ElementOfSeq
    <3>3. QED
      BY <3>1, <3>2
  <2>10. n = 4 => w = value
    <3>1. ASSUME n = 4
          PROVE  w = value
      <4>1. Len(t) = 0
        BY <2>5, <3>1
      <4>2. t = << >>
        BY <4>1, EmptySeq
      <4>3. QED
        BY <2>6, <4>2, ConcatEmptySeq
    <3>2. QED
      BY <3>1
  <2>11. QED
    BY <1>1, <1>2, <1>4, <2>8, <2>9, <2>10 DEF IdMemory
<1>5. QED
  BY <1>1, <1>3, <1>4

LEMMA IdStepAt ==
  ASSUME NEW p, NEW f, NEW ptr, NEW memory \in IdMemory
  PROVE  /\ ptr = Len(p) \/ IsMalformed(UserFields, p, ptr) =>
              IdStep(p, f, ptr)[memory] = memory
         /\ ptr # Len(p) /\ ~IsMalformed(UserFields, p, ptr) /\ p[ptr + 1] = TAG_USER_ID =>
              IdStep(p, f, ptr)[memory] =
                f[TlvEnd(p, ptr)][CopyId(memory, TlvValue(p, ptr))]
         /\ ptr # Len(p) /\ ~IsMalformed(UserFields, p, ptr) /\ p[ptr + 1] # TAG_USER_ID =>
              IdStep(p, f, ptr)[memory] = f[TlvEnd(p, ptr)][memory]
<1>1. PICK next : next = IF p[ptr + 1] = TAG_USER_ID
                         THEN CopyId(memory, TlvValue(p, ptr)) ELSE memory
  OBVIOUS
<1>2. IdStep(p, f, ptr)[memory] =
        IF ptr = Len(p) \/ IsMalformed(UserFields, p, ptr) THEN memory
        ELSE f[TlvEnd(p, ptr)][next]
  BY <1>1 DEF IdStep
<1>3. QED
  BY <1>1, <1>2

(* Such a step looks only at what comes after it. *)
LEMMA IdStepAhead ==
  ASSUME NEW p \in Seq(Uint8), NEW ptr \in 0 .. Len(p), NEW g, NEW h,
         \A q \in ptr + 1 .. Len(p) : g[q] = h[q]
  PROVE  IdStep(p, g, ptr) = IdStep(p, h, ptr)
<1>1. Len(p) \in Nat
  BY LenProperties
<1>2. CASE ptr # Len(p) /\ ~IsMalformed(UserFields, p, ptr)
  <2>1. ptr \in 0 .. Len(p) - 1
    BY <1>1, <1>2
  <2>2. TlvEnd(p, ptr) \in ptr + 2 .. Len(p)
    <3>1. Len(p) < ptr + 2 \/ ptr + 2 =< Len(p)
      BY <1>1
    <3>2. ptr + 2 =< Len(p)
      BY <1>1, <1>2, <3>1 DEF IsMalformed
    <3>3. p[ptr + 2] \in Uint8
      <4>1. ptr + 2 \in 1 .. Len(p)
        BY <1>1, <3>2
      <4>2. QED
        BY <4>1, ElementOfSeq
    <3>4. TlvEnd(p, ptr) =< Len(p)
      <4>1. PICK n \in Nat : n = p[ptr + 2]
        BY <3>3, ByteIsNat
      <4>2. TlvEnd(p, ptr) \in Nat
        BY <4>1 DEF TlvEnd
      <4>3. ~(TlvEnd(p, ptr) > Len(p))
        BY <1>2 DEF IsMalformed
      <4>4. QED
        BY <1>1, <4>2, <4>3
    <3>5. QED
      BY <2>1, <3>2, <3>4, TlvInside
  <2>3. TlvEnd(p, ptr) \in ptr + 1 .. Len(p)
    BY <1>1, <2>2
  <2>4. g[TlvEnd(p, ptr)] = h[TlvEnd(p, ptr)]
    BY <2>3
  <2>5. QED
    BY <2>4 DEF IdStep
<1>3. CASE ~(ptr # Len(p) /\ ~IsMalformed(UserFields, p, ptr))
  BY <1>3 DEF IdStep
<1>4. QED
  BY <1>2, <1>3

(* The recursion of IdAfter is well-defined. *)
LEMMA IdAfterStep ==
  ASSUME NEW p \in Seq(Uint8), NEW ptr \in 0 .. Len(p)
  PROVE  IdAfter(p)[ptr] = IdStep(p, IdAfter(p), ptr)
<1> DEFINE N == Len(p)
           R(g, q) == IdStep(p, g, q)
           S == {o \in 0 .. N : \E g : \A q \in o .. N : g[q] = R(g, q)}
           F(g) == [q \in 0 .. N |-> R(g, q)]
<1>1. N \in Nat
  BY LenProperties
<1>2. ASSUME NEW o \in 0 .. N, \A q \in o + 1 .. N : q \in S
      PROVE  o \in S
  <2>1. PICK g : \A q \in o + 1 .. N : g[q] = R(g, q)
    <3>1. CASE o = N
      <4>1. o + 1 .. N = {}
        BY <1>1, <3>1
      <4>2. QED
        BY <4>1
    <3>2. CASE o # N
      <4>1. o + 1 \in o + 1 .. N
        BY <1>1, <3>2
      <4>2. o + 1 \in S
        BY <1>2, <4>1
      <4> HIDE DEF R
      <4>3. QED
        BY <4>2
    <3>3. QED
      BY <3>1, <3>2
  <2>2. PICK h : h = [q \in 0 .. N |-> IF q = o THEN R(g, o) ELSE g[q]]
    OBVIOUS
  <2>3. h[o] = R(g, o) /\ \A q \in o + 1 .. N : h[q] = g[q]
    <3> HIDE DEF R
    <3> QED BY <1>1, <2>2
  <2>4. ASSUME NEW q \in o .. N
        PROVE  h[q] = R(h, q)
    <3>1. q \in 0 .. N /\ \A r \in q + 1 .. N : r \in o + 1 .. N
      BY <1>1
    <3>2. \A r \in q + 1 .. N : g[r] = h[r]
      BY <2>3, <3>1
    <3>3. R(g, q) = R(h, q)
      BY <3>1, <3>2, IdStepAhead
    <3>4. q = o \/ q \in o + 1 .. N
      BY <1>1
    <3> HIDE DEF R
    <3>5. QED
      BY <2>1, <2>3, <3>3, <3>4
  <2> HIDE DEF R
  <2>5. QED
    BY <2>4
<1>3. 0 \in S
  <2>1. 0 \in 0 .. N
    BY <1>1
  <2> HIDE DEF S
  <2>2. \A o \in 0 .. N : o \in S
    BY <1>1, <1>2, Downward
  <2>3. QED
    BY <2>1, <2>2
<1>4. PICK g : \A q \in 0 .. N : g[q] = R(g, q)
  <2> HIDE DEF R
  <2> QED BY <1>3
<1>5. PICK h : h = [q \in 0 .. N |-> g[q]]
  OBVIOUS
<1>6. \A q \in 0 .. N : h[q] = g[q]
  BY <1>5
<1>7. ASSUME NEW q \in 0 .. N
      PROVE  h[q] = R(h, q)
  <2>1. \A r \in q + 1 .. N : r \in 0 .. N
    BY <1>1
  <2>2. \A r \in q + 1 .. N : g[r] = h[r]
    BY <1>6, <2>1
  <2>3. R(g, q) = R(h, q)
    BY <2>2, IdStepAhead
  <2> HIDE DEF R
  <2>4. QED
    BY <1>4, <1>6, <2>3
<1>8. h = F(h)
  <2> HIDE DEF R
  <2>1. QED
    BY <1>5, <1>6, <1>7
<1>9. IdAfter(p) = CHOOSE f : f = F(f)
  BY DEF IdAfter, IdStep
<1>10. IdAfter(p) = F(IdAfter(p))
  <2> HIDE DEF F
  <2> QED BY <1>8, <1>9
<1>11. PICK f : f = IdAfter(p) /\ f = F(f)
  BY <1>10
<1>12. f[ptr] = R(f, ptr)
  <2> HIDE DEF R
  <2> QED BY <1>11
<1>13. QED
  BY <1>11, <1>12

-----------------------------------------------------------------------------
(* The user id in memory and on the wire. *)

LEMMA FourBytes ==
  ASSUME NEW a, NEW b, NEW c, NEW d
  PROVE  htonl(<<a, b, c, d>>) = <<d, c, b, a>>
  BY DEF htonl, Reverse

LEMMA IdBytes ==
  ASSUME NEW n \in Nat
  PROVE  /\ htonl(HostBytes(n)) \in Seq(Uint8) /\ Len(htonl(HostBytes(n))) = 4
         /\ htonl(htonl(HostBytes(n))) = HostBytes(n)
<1>1. PICK a \in Uint8, b \in Uint8, c \in Uint8, d \in Uint8 :
        HostBytes(n) = <<a, b, c, d>>
  <2>1. /\ n % 256 \in Uint8 /\ (n \div 256) % 256 \in Uint8
        /\ (n \div 65536) % 256 \in Uint8 /\ (n \div 16777216) % 256 \in Uint8
    BY DEF Uint8
  <2>2. QED
    BY <2>1 DEF HostBytes
<1>2. htonl(HostBytes(n)) = <<d, c, b, a>>
  BY <1>1, FourBytes
<1>3. <<d, c, b, a>> \in Seq(Uint8) /\ Len(<<d, c, b, a>>) = 4
  OBVIOUS
<1>4. htonl(<<d, c, b, a>>) = <<a, b, c, d>>
  BY FourBytes
<1>5. QED
  BY <1>1, <1>2, <1>3, <1>4

(* Four bytes hold every uint32_t. *)
IsUint32(n) == n \in Nat /\ n \div 16777216 < 256

LEMMA IdNumber ==
  ASSUME NEW n, IsUint32(n)
  PROVE  n \in Nat /\ HostNumber(HostBytes(n)) = n
<1>1. PICK a \in Nat, b \in Nat, c \in Nat, d \in Nat :
        /\ a = n % 256 /\ b = (n \div 256) % 256
        /\ c = (n \div 65536) % 256 /\ d = (n \div 16777216) % 256
  BY DEF IsUint32
<1>2. n \in Nat /\ n = a + 256 * b + 65536 * c + 16777216 * d
  BY <1>1 DEF IsUint32
<1>3. HostNumber(<<a, b, c, d>>) = a + 256 * b + 65536 * c + 16777216 * d
  BY DEF HostNumber
<1>4. QED
  BY <1>1, <1>2, <1>3 DEF HostBytes

-----------------------------------------------------------------------------
(* The first byte of the payloads, and what they parse to. *)

LEMMA WorldFirst ==
  ASSUME NEW sender \in Seq(Uint8), Len(sender) =< MAX_USERNAME_SIZE,
         NEW content \in Seq(Uint8), Len(content) =< 255
  PROVE  WorldPayload(sender, content)[1] = TAG_WORLD_BROADCAST
<1>1. Len(sender) =< 255 /\ << >> \in Seq(Uint8) /\ Len(<< >>) =< 255
  BY Limits, LenProperties, EmptySeq
<1>2. PICK a \in Seq(Uint8) : /\ a = write_tlv(TAG_WORLD_BROADCAST, << >>) /\ Len(a) >= 1
                              /\ a[1] = TAG_WORLD_BROADCAST
  BY <1>1, Tags, FirstTag
<1>3. PICK b \in Seq(Uint8) : b = write_tlv(TAG_SENDER_USERNAME, sender)
  BY <1>1, Tags, FirstTag
<1>4. PICK c \in Seq(Uint8) : c = write_tlv(TAG_MESSAGE_CONTENT, content)
  BY <1>1, Tags, FirstTag
<1>5. PICK ab \in Seq(Uint8) : ab = a \o b /\ Len(ab) >= 1 /\ ab[1] = a[1]
  BY <1>2, FirstStays
<1>6. (ab \o c)[1] = ab[1]
  BY <1>5, FirstStays
<1>7. QED
  BY <1>2, <1>3, <1>4, <1>5, <1>6 DEF WorldPayload

LEMMA P2PFirst ==
  ASSUME NEW sender \in Seq(Uint8), Len(sender) =< MAX_USERNAME_SIZE,
         NEW recipient \in Seq(Uint8), Len(recipient) =< MAX_USERNAME_SIZE,
         NEW content \in Seq(Uint8), Len(content) =< 255
  PROVE  P2PPayload(sender, recipient, content)[1] = TAG_P2P_BROADCAST
<1>1. /\ Len(sender) =< 255 /\ Len(recipient) =< 255
      /\ << >> \in Seq(Uint8) /\ Len(<< >>) =< 255
  BY Limits, LenProperties, EmptySeq
<1>2. PICK a \in Seq(Uint8) : /\ a = write_tlv(TAG_P2P_BROADCAST, << >>) /\ Len(a) >= 1
                              /\ a[1] = TAG_P2P_BROADCAST
  BY <1>1, Tags, FirstTag
<1>3. PICK b \in Seq(Uint8) : b = write_tlv(TAG_SENDER_USERNAME, sender)
  BY <1>1, Tags, FirstTag
<1>4. PICK c \in Seq(Uint8) : c = write_tlv(TAG_RECIPIENT_USERNAME, recipient)
  BY <1>1, Tags, FirstTag
<1>5. PICK d \in Seq(Uint8) : d = write_tlv(TAG_MESSAGE_CONTENT, content)
  BY <1>1, Tags, FirstTag
<1>6. PICK ab \in Seq(Uint8) : ab = a \o b /\ Len(ab) >= 1 /\ ab[1] = a[1]
  BY <1>2, FirstStays
<1>7. PICK abc \in Seq(Uint8) : abc = ab \o c /\ Len(abc) >= 1 /\ abc[1] = ab[1]
  BY <1>6, FirstStays
<1>8. (abc \o d)[1] = abc[1]
  BY <1>7, FirstStays
<1>9. QED
  BY <1>2, <1>3, <1>4, <1>5, <1>6, <1>7, <1>8 DEF P2PPayload

(* The world broadcast has no recipient. *)
LEMMA NoRecipient == TAG_RECIPIENT_USERNAME \notin DOMAIN WorldFields
  BY DEF WorldFields, TAG_RECIPIENT_USERNAME, TAG_WORLD_BROADCAST, TAG_SENDER_USERNAME,
         TAG_MESSAGE_CONTENT

(* What a parser of a response leaves to its caller. *)
LEMMA UserLeft ==
  ASSUME NEW p, NEW s, s = Parse(UserFields, p), NEW r, r = ParseUser(p)
  PROVE  /\ r.ok = s.ok
         /\ r.user_id = IdAfter(p)[0][Zeroed]
         /\ TAG_USERNAME \in DOMAIN s.found => r.username = s.found[TAG_USERNAME]
<1>1. PICK memory : memory = IdAfter(p)[0][Zeroed]
  OBVIOUS
<1>2. PICK name : name = IF TAG_USERNAME \in DOMAIN s.found
                         THEN s.found[TAG_USERNAME] ELSE << >>
  OBVIOUS
<1>3. r = [ok |-> s.ok, user_id |-> memory, username |-> name]
  BY <1>1, <1>2 DEF ParseUser
<1>4. r.ok = s.ok /\ r.user_id = memory /\ r.username = name
  BY <1>3
<1>5. QED
  BY <1>1, <1>2, <1>4

LEMMA FreshId == Zeroed \in IdMemory /\ Zeroed # Smashed
<1>1. Zeroed \in [1 .. 4 -> Uint8] /\ Len(Zeroed) = 4 /\ Len(Smashed) = 0
  BY DEF Zeroed, Smashed, Uint8
<1>2. QED
  BY <1>1 DEF IdMemory

LEMMA UserLimits ==
  /\ DOMAIN UserFields = {TAG_USER_ID, TAG_USERNAME}
  /\ UserFields[TAG_USER_ID] = 255 /\ UserFields[TAG_USERNAME] = MAX_USERNAME_SIZE
  /\ \A tag \in DOMAIN UserFields : UserFields[tag] \in Nat
  BY Limits DEF UserFields, TAG_USER_ID, TAG_USERNAME

LEMMA UserTlv ==
  ASSUME NEW p \in Seq(Uint8), NEW ptr \in Nat, NEW tag \in DOMAIN UserFields,
         NEW value \in Seq(Uint8), HasTlv(p, ptr, tag, value),
         Len(value) =< UserFields[tag]
  PROVE  /\ ptr \in 0 .. Len(p) /\ ptr # Len(p) /\ ~IsMalformed(UserFields, p, ptr)
         /\ p[ptr + 1] = tag
         /\ TlvValue(p, ptr) = value /\ TlvEnd(p, ptr) = ptr + 2 + Len(value)
<1>1. UserFields[tag] \in Nat
  BY UserLimits
<1>2. QED
  BY <1>1, TlvRead

(* In a row of an id and a name the loop copies the id, once. *)
LEMMA IdOfRow ==
  ASSUME NEW p \in Seq(Uint8), NEW z \in Nat, NEW y \in Nat,
         NEW id \in Seq(Uint8), HasTlv(p, z, TAG_USER_ID, id),
         Len(id) =< UserFields[TAG_USER_ID], z + 2 + Len(id) = y,
         NEW username \in Seq(Uint8), HasTlv(p, y, TAG_USERNAME, username),
         Len(username) =< UserFields[TAG_USERNAME], y + 2 + Len(username) = Len(p),
         NEW memory \in IdMemory
  PROVE  IdAfter(p)[z][memory] = CopyId(memory, id)
<1>1. /\ TAG_USER_ID \in DOMAIN UserFields /\ TAG_USERNAME \in DOMAIN UserFields
      /\ TAG_USERNAME # TAG_USER_ID
  BY DEF UserFields, TAG_USER_ID, TAG_USERNAME
<1>2. /\ z \in 0 .. Len(p) /\ z # Len(p) /\ ~IsMalformed(UserFields, p, z)
      /\ p[z + 1] = TAG_USER_ID
      /\ TlvValue(p, z) = id /\ TlvEnd(p, z) = z + 2 + Len(id)
  BY <1>1, UserTlv
<1>3. /\ y \in 0 .. Len(p) /\ y # Len(p) /\ ~IsMalformed(UserFields, p, y)
      /\ p[y + 1] = TAG_USERNAME /\ TlvEnd(p, y) = y + 2 + Len(username)
  BY <1>1, UserTlv
<1>4. PICK m \in IdMemory : m = CopyId(memory, id)
  BY IdCopied
<1>5. IdAfter(p)[z][memory] = IdAfter(p)[y][m]
  <2>1. IdAfter(p)[z] = IdStep(p, IdAfter(p), z)
    BY <1>2, IdAfterStep
  <2>2. IdStep(p, IdAfter(p), z)[memory] =
          IdAfter(p)[TlvEnd(p, z)][CopyId(memory, TlvValue(p, z))]
    BY <1>2, IdStepAt
  <2>3. QED
    BY <1>2, <1>4, <2>1, <2>2
<1>6. IdAfter(p)[y][m] = IdAfter(p)[Len(p)][m]
  <2>1. IdAfter(p)[y] = IdStep(p, IdAfter(p), y)
    BY <1>3, IdAfterStep
  <2>2. IdStep(p, IdAfter(p), y)[m] = IdAfter(p)[TlvEnd(p, y)][m]
    <3>1. p[y + 1] # TAG_USER_ID
      BY <1>1, <1>3
    <3>2. QED
      BY <1>3, <3>1, IdStepAt
  <2>3. QED
    BY <1>3, <2>1, <2>2
<1>7. IdAfter(p)[Len(p)][m] = m
  <2>1. Len(p) \in 0 .. Len(p)
    BY LenProperties
  <2>2. IdAfter(p)[Len(p)] = IdStep(p, IdAfter(p), Len(p))
    BY <2>1, IdAfterStep
  <2>3. IdStep(p, IdAfter(p), Len(p))[m] = m
    BY IdStepAt
  <2>4. QED
    BY <2>2, <2>3
<1>8. QED
  BY <1>4, <1>5, <1>6, <1>7

(* The builder's four bytes go into the id as they are, from network byte  *)
(* order.                                                                  *)
LEMMA IdReceived ==
  ASSUME NEW id \in Seq(Uint8), Len(id) = 4,
         NEW username \in Seq(Uint8), Len(username) =< MAX_USERNAME_SIZE,
         NEW p, p = IdPayload(id, username)
  PROVE  IdAfter(p)[0][Zeroed] = htonl(id) /\ htonl(id) # Smashed
<1>1. PICK a \in Seq(Uint8) : /\ a = write_tlv(TAG_USER_ID, id) /\ Len(a) = 6
                              /\ HasTlv(a, 0, TAG_USER_ID, id)
  <2>1. Len(id) =< 255 /\ 2 + Len(id) = 6
    OBVIOUS
  <2>2. QED
    BY <2>1, Tags, TlvWritten
<1>2. Len(username) =< 255 /\ Len(username) \in Nat
  BY Limits, LenProperties
<1>3. PICK b \in Seq(Uint8) :
        /\ b = write_tlv(TAG_USERNAME, username) /\ Len(b) = 2 + Len(username)
        /\ HasTlv(b, 0, TAG_USERNAME, username)
  BY <1>2, Tags, TlvWritten
<1>4. p = a \o b /\ p \in Seq(Uint8) /\ Len(p) = 8 + Len(username)
  <2>1. p = a \o b
    BY <1>1, <1>3, Zenon DEF IdPayload
  <2>2. PICK w \in Seq(Uint8) : w = a \o b /\ Len(w) = Len(a) + Len(b)
    BY Joined
  <2>3. Len(w) = 8 + Len(username)
    BY <1>1, <1>2, <1>3, <2>2
  <2>4. QED
    BY <2>1, <2>2, <2>3
<1>5. HasTlv(p, 0, TAG_USER_ID, id)
  BY <1>1, <1>4, TlvBefore
<1>6. HasTlv(p, 6, TAG_USERNAME, username)
  BY <1>1, <1>3, <1>4, TlvBehind
<1>7. /\ Len(id) =< UserFields[TAG_USER_ID] /\ Len(username) =< UserFields[TAG_USERNAME]
      /\ 0 + 2 + Len(id) = 6 /\ 6 + 2 + Len(username) = Len(p)
  BY <1>2, <1>4, UserLimits
<1>8. IdAfter(p)[0][Zeroed] = CopyId(Zeroed, id)
  BY <1>4, <1>5, <1>6, <1>7, FreshId, IdOfRow
<1>9. CopyId(Zeroed, id) = htonl(id) /\ CopyId(Zeroed, id) # Smashed
  <2>1. Len(id) \in Nat /\ ~(Len(id) > 4)
    OBVIOUS
  <2>2. QED
    BY <2>1, FreshId, IdCopied
<1>10. QED
  BY <1>8, <1>9

(* What the client takes out of the answer to its credentials. *)
LEMMA UserReceived ==
  ASSUME NEW user_id, IsUint32(user_id),
         NEW username \in Seq(Uint8), Len(username) =< MAX_USERNAME_SIZE,
         NEW r, r = ParseUser(UserPayload(user_id, username))
  PROVE  /\ r.user_id # Smashed /\ HostNumber(r.user_id) = user_id
         /\ r.username = username
<1>1. PICK n \in Nat : n = user_id /\ HostNumber(HostBytes(n)) = n
  BY IdNumber
<1>2. PICK id \in Seq(Uint8) : id = htonl(HostBytes(n)) /\ Len(id) = 4
  BY IdBytes
<1>3. htonl(id) = HostBytes(n)
  BY <1>2, IdBytes
<1>4. PICK p : p = UserPayload(user_id, username) /\ p = IdPayload(id, username)
  BY <1>1, <1>2 DEF UserPayload, write_tlv_number, IdPayload
<1>5. PICK s : s = Parse(UserFields, p)
  OBVIOUS
<1>6. TAG_USERNAME \in DOMAIN s.found /\ s.found[TAG_USERNAME] = username
  <2>1. Len(id) =< 255
    BY <1>2
  <2>2. TAG_USERNAME \in DOMAIN UserFields
    BY DEF UserFields
  <2>3. QED
    BY <1>4, <1>5, <2>1, <2>2, UserParsed
<1>7. r.user_id = IdAfter(p)[0][Zeroed] /\ r.username = username
  BY <1>4, <1>5, <1>6, UserLeft
<1>8. r.user_id = HostBytes(n) /\ r.user_id # Smashed
  BY <1>2, <1>3, <1>4, <1>7, IdReceived
<1>9. QED
  BY <1>1, <1>7, <1>8

-----------------------------------------------------------------------------
(* The relay: what is known of the payload at every stage. *)

(* The name that answers a registration or a login. *)
AnswerName == IF typed.kind = "/register" THEN typed.username ELSE typed.stored

SentWorld ==
  /\ typed \in ChatLine /\ typed.kind = "/world" /\ typed.content # << >>
  /\ Len(typed.claim) =< MAX_USERNAME_SIZE /\ Len(typed.content) =< MAX_MSG_CONTENT_SIZE
  /\ payload = WorldPayload(typed.claim, typed.content)

SentP2P ==
  /\ typed \in ChatLine /\ typed.kind = "/p2p" /\ typed.content # << >>
  /\ Len(typed.claim) =< MAX_USERNAME_SIZE /\ Len(typed.content) =< MAX_MSG_CONTENT_SIZE
  /\ Len(typed.recipient) =< MAX_USERNAME_SIZE /\ typed.claim # typed.recipient
  /\ payload = P2PPayload(typed.claim, typed.recipient, typed.content)

SentUser ==
  /\ typed \in UserLine
  /\ Len(typed.username) =< MAX_USERNAME_SIZE /\ Len(typed.password) =< MAX_PASSWORD_SIZE
  /\ payload = CredentialsPayload(typed.username, typed.password)

RelayedWorld ==
  /\ typed \in ChatLine /\ typed.kind = "/world"
  /\ Len(typed.content) =< MAX_MSG_CONTENT_SIZE
  /\ payload = WorldPayload(typed.session, typed.content)

RelayedP2P ==
  /\ typed \in ChatLine /\ typed.kind = "/p2p"
  /\ Len(typed.content) =< MAX_MSG_CONTENT_SIZE /\ Len(typed.recipient) =< MAX_USERNAME_SIZE
  /\ payload = P2PPayload(typed.session, typed.recipient, typed.content)

Answered ==
  /\ typed \in UserLine
  /\ Len(AnswerName) =< MAX_USERNAME_SIZE
  /\ payload = UserPayload(typed.user_id, AnswerName)

RelayInv ==
  /\ stage = "typed" => typed \in ChatLine \cup UserLine
  /\ stage = "sent" => SentWorld \/ SentP2P \/ SentUser
  /\ stage = "relayed" => RelayedWorld \/ RelayedP2P
  /\ stage = "answered" => Answered
  /\ stage = "raw" => payload \in Seq(Uint8) /\ typed \in RawLine
  /\ RelayFaithful /\ UserFaithful /\ BuilderParserAgree

(* What the lines are made of. *)
LEMMA ChatTyped ==
  ASSUME NEW t \in ChatLine
  PROVE  /\ t.kind \in {"/world", "/p2p"}
         /\ t.claim \in Seq(Uint8) /\ t.recipient \in Seq(Uint8) /\ t.content \in Seq(Uint8)
         /\ t.session \in Seq(Uint8) /\ Len(t.session) =< MAX_USERNAME_SIZE
  BY RelayAssumption DEF ChatLine, ValidNames

LEMMA UserTyped ==
  ASSUME NEW t \in UserLine
  PROVE  /\ t.kind \in {"/register", "/login"}
         /\ t.username \in Seq(Uint8) /\ t.password \in Seq(Uint8)
         /\ t.kind = "/login" => t.stored \in Seq(Uint8) /\ Len(t.stored) =< MAX_USERNAME_SIZE
         /\ IsUint32(t.user_id)
<1>1. \A n \in UserIds : IsUint32(n)
  BY RelayAssumption, SMT DEF IsUint32
<1>2. Names \subseteq Seq(Uint8)
  BY RelayAssumption, SMT
<1>3. /\ t.kind \in {"/register", "/login"}
      /\ t.username \in Names /\ t.password \in Names /\ t.user_id \in UserIds
      /\ t.kind = "/login" => t.stored \in ValidNames
  BY DEF UserLine
<1>4. QED
  BY <1>1, <1>2, <1>3 DEF ValidNames

LEMMA NotBoth == \A t : ~(t \in ChatLine /\ t \in UserLine)
  BY DEF ChatLine, UserLine

(* A content of a request is one of a notification. *)
LEMMA ContentFits == \A n \in Nat : n =< MAX_MSG_CONTENT_SIZE => n =< 255
  BY Limits

LEMMA RelayStarts == Init => RelayInv
<1>1. << >> \in Seq(Uint8)
  BY EmptySeq
<1>2. QED
  BY <1>1 DEF Init, RelayInit, RelayInv, RelayFaithful, UserFaithful, BuilderParserAgree

LEMMA ClientBuildRelays == RelayInv /\ ClientBuild => RelayInv'
<1> SUFFICES ASSUME RelayInv, ClientBuild PROVE RelayInv'
  OBVIOUS
<1>1. stage = "typed" /\ typed \in ChatLine \cup UserLine /\ typed' = typed
  BY DEF RelayInv, ClientBuild
<1>2. stage' = "refused" \/ (stage' = "sent" /\ (SentWorld \/ SentP2P \/ SentUser)')
  <2>1. CASE typed \in ChatLine /\ typed.kind = "/world"
    <3>1. PICK r : r = build_world_broadcast(typed.claim, typed.content)
      OBVIOUS
    <3>2. \/ stage' = "refused"
          \/ stage' = "sent" /\ typed.content # << >> /\ r.ok /\ payload' = r.payload
      BY <2>1, <3>1 DEF ClientBuild
    <3>3. r.ok => /\ Len(typed.claim) =< MAX_USERNAME_SIZE
                  /\ Len(typed.content) =< MAX_MSG_CONTENT_SIZE
                  /\ r.payload = WorldPayload(typed.claim, typed.content)
      <4>1. Len(typed.claim) \in Nat /\ Len(typed.content) \in Nat
        BY <2>1, ChatTyped, LenProperties
      <4>2. QED
        BY <3>1, <4>1, Limits DEF build_world_broadcast, Refused, Built
    <3>4. QED
      BY <1>1, <2>1, <3>2, <3>3 DEF SentWorld
  <2>2. CASE typed \in ChatLine /\ typed.kind = "/p2p"
    <3>1. PICK r : r = build_p2p_broadcast(typed.claim, typed.recipient, typed.content)
      OBVIOUS
    <3>2. \/ stage' = "refused"
          \/ stage' = "sent" /\ typed.content # << >> /\ r.ok /\ payload' = r.payload
      BY <2>2, <3>1 DEF ClientBuild
    <3>3. r.ok => /\ Len(typed.claim) =< MAX_USERNAME_SIZE
                  /\ Len(typed.content) =< MAX_MSG_CONTENT_SIZE
                  /\ Len(typed.recipient) =< MAX_USERNAME_SIZE /\ typed.claim # typed.recipient
                  /\ r.payload = P2PPayload(typed.claim, typed.recipient, typed.content)
      <4>1. /\ Len(typed.claim) \in Nat /\ Len(typed.content) \in Nat
            /\ Len(typed.recipient) \in Nat
        BY <2>2, ChatTyped, LenProperties
      <4>2. QED
        BY <3>1, <4>1, Limits DEF build_p2p_broadcast, Refused, Built
    <3>4. QED
      BY <1>1, <2>2, <3>2, <3>3 DEF SentP2P
  <2>3. CASE typed \in UserLine
    <3>1. PICK r : r = build_credentials(typed.username, typed.password)
      OBVIOUS
    <3>2. stage' = "refused" \/ (stage' = "sent" /\ r.ok /\ payload' = r.payload)
      <4>1. typed.kind # "/world" /\ typed.kind # "/p2p"
        BY <2>3, UserTyped
      <4>2. QED
        BY <3>1, <4>1 DEF ClientBuild
    <3>3. r.ok => /\ Len(typed.username) =< MAX_USERNAME_SIZE
                  /\ Len(typed.password) =< MAX_PASSWORD_SIZE
                  /\ r.payload = CredentialsPayload(typed.username, typed.password)
      <4>1. Len(typed.username) \in Nat /\ Len(typed.password) \in Nat
        BY <2>3, UserTyped, LenProperties
      <4>2. QED
        BY <3>1, <4>1, Limits DEF build_credentials, CredentialsPayload, Refused, Built
    <3>4. QED
      BY <1>1, <2>3, <3>2, <3>3 DEF SentUser
  <2>4. QED
    BY <1>1, <2>1, <2>2, <2>3, ChatTyped
<1>3. QED
  BY <1>2 DEF RelayInv, RelayFaithful, UserFaithful, BuilderParserAgree

LEMMA ServerRelayRelays == RelayInv /\ ServerRelay => RelayInv'
<1> SUFFICES ASSUME RelayInv, ServerRelay PROVE RelayInv'
  OBVIOUS
<1>1. stage = "sent" /\ typed \in ChatLine /\ typed' = typed
  BY DEF ServerRelay
<1>2. SentWorld \/ SentP2P
  BY <1>1, NotBoth DEF RelayInv, SentUser
<1>3. Len(typed.content) \in Nat
  BY <1>1, ChatTyped, LenProperties
<1>4. CASE SentWorld
  <2>1. Len(typed.content) =< 255
    BY <1>3, <1>4, ContentFits DEF SentWorld
  <2>2. payload[1] = TAG_WORLD_BROADCAST /\ payload[1] # TAG_P2P_BROADCAST
    <3>1. payload[1] = TAG_WORLD_BROADCAST
      BY <1>1, <1>4, <2>1, ChatTyped, WorldFirst DEF SentWorld
    <3>2. QED
      BY <3>1 DEF TAG_WORLD_BROADCAST, TAG_P2P_BROADCAST
  <2>3. PICK r : r = Parse(WorldFields, payload)
    OBVIOUS
  <2>4. r.ok /\ r.found[TAG_MESSAGE_CONTENT] = typed.content
    BY <1>1, <1>4, <2>1, <2>3, ChatTyped, WorldParsed DEF SentWorld
  <2>5. stage' = "relayed" /\ payload' = WorldPayload(typed.session, typed.content)
    BY <1>4, <2>2, <2>3, <2>4 DEF ServerRelay, SentWorld, parse_world_broadcast
  <2>6. RelayedWorld'
    BY <1>1, <1>4, <2>5 DEF SentWorld, RelayedWorld
  <2>7. QED
    BY <2>5, <2>6 DEF RelayInv, RelayFaithful, UserFaithful, BuilderParserAgree
<1>5. CASE SentP2P
  <2>1. Len(typed.content) =< 255
    BY <1>3, <1>5, ContentFits DEF SentP2P
  <2>2. payload[1] = TAG_P2P_BROADCAST
    BY <1>1, <1>5, <2>1, ChatTyped, P2PFirst DEF SentP2P
  <2>3. PICK r : r = Parse(P2PFields, payload)
    OBVIOUS
  <2>4. /\ r.ok /\ r.found[TAG_MESSAGE_CONTENT] = typed.content
        /\ r.found[TAG_RECIPIENT_USERNAME] = typed.recipient
    BY <1>1, <1>5, <2>1, <2>3, ChatTyped, P2PParsed DEF SentP2P
  <2>5. CASE typed.recipient = typed.session
    <3>1. stage' = "malformed"
      BY <1>5, <2>2, <2>3, <2>4, <2>5 DEF ServerRelay, SentP2P, parse_p2p_broadcast
    <3>2. typed.kind = "/p2p" /\ typed.claim # typed.session
      BY <1>5, <2>5 DEF SentP2P
    <3>3. QED
      BY <1>1, <2>5, <3>1, <3>2 DEF RelayInv, RelayFaithful, UserFaithful, BuilderParserAgree
  <2>6. CASE typed.recipient # typed.session
    <3>1. /\ stage' = "relayed"
          /\ payload' = P2PPayload(typed.session, typed.recipient, typed.content)
      BY <1>5, <2>2, <2>3, <2>4, <2>6 DEF ServerRelay, SentP2P, parse_p2p_broadcast
    <3>2. RelayedP2P'
      BY <1>1, <1>5, <3>1 DEF SentP2P, RelayedP2P
    <3>3. QED
      BY <3>1, <3>2 DEF RelayInv, RelayFaithful, UserFaithful, BuilderParserAgree
  <2>7. QED
    BY <2>5, <2>6
<1>6. QED
  BY <1>2, <1>4, <1>5

LEMMA ServerAnswerRelays == RelayInv /\ ServerAnswer => RelayInv'
<1> SUFFICES ASSUME RelayInv, ServerAnswer PROVE RelayInv'
  OBVIOUS
<1>1. stage = "sent" /\ typed \in UserLine /\ typed' = typed
  BY DEF ServerAnswer
<1>2. SentUser
  BY <1>1, NotBoth DEF RelayInv, SentWorld, SentP2P
<1>3. PICK r : r = Parse(CredentialFields, payload)
  OBVIOUS
<1>4. r.ok /\ r.found[TAG_USERNAME] = typed.username
  BY <1>1, <1>2, <1>3, UserTyped, CredentialsParsed DEF SentUser
<1>5. stage' = "answered" /\ payload' = UserPayload(typed.user_id, AnswerName)
  BY <1>3, <1>4 DEF ServerAnswer, AnswerName, parse_register_request, parse_login_request
<1>6. Len(AnswerName) =< MAX_USERNAME_SIZE
  BY <1>1, <1>2, UserTyped DEF SentUser, AnswerName
<1>7. Answered'
  BY <1>1, <1>5, <1>6 DEF Answered, AnswerName
<1>8. QED
  BY <1>5, <1>7 DEF RelayInv, RelayFaithful, UserFaithful, BuilderParserAgree

LEMMA ClientShowRelays == RelayInv /\ ClientShow => RelayInv'
<1> SUFFICES ASSUME RelayInv, ClientShow PROVE RelayInv'
  OBVIOUS
<1>1. /\ stage = "relayed" /\ stage' = "shown" /\ typed' = typed
      /\ RelayedWorld \/ RelayedP2P
  BY DEF ClientShow, RelayInv
<1>2. typed \in ChatLine /\ typed \notin UserLine
  BY <1>1, NotBoth DEF RelayedWorld, RelayedP2P
<1>3. Len(typed.content) =< 255
  <2>1. Len(typed.content) \in Nat
    BY <1>2, ChatTyped, LenProperties
  <2>2. QED
    BY <1>1, <2>1, ContentFits DEF RelayedWorld, RelayedP2P
<1>4. RelayFaithful'
  <2>1. CASE RelayedWorld
    <3>1. payload[1] # TAG_P2P_BROADCAST
      <4>1. payload[1] = TAG_WORLD_BROADCAST
        BY <1>2, <1>3, <2>1, ChatTyped, WorldFirst DEF RelayedWorld
      <4>2. QED
        BY <4>1 DEF TAG_WORLD_BROADCAST, TAG_P2P_BROADCAST
    <3>2. PICK r : r = Parse(WorldFields, payload)
      OBVIOUS
    <3>3. /\ r.found[TAG_MESSAGE_CONTENT] = typed.content
          /\ r.found[TAG_SENDER_USERNAME] = typed.session
          /\ DOMAIN r.found = DOMAIN WorldFields
      BY <1>2, <1>3, <2>1, <3>2, ChatTyped, WorldParsed DEF RelayedWorld
    <3>4. shown' = [tag \in DOMAIN r.found |-> Printed(r.found[tag])]
      BY <3>1, <3>2 DEF ClientShow, parse_world_broadcast
    <3>5. typed.kind # "/p2p"
      BY <2>1 DEF RelayedWorld
    <3>6. DOMAIN shown' = DOMAIN r.found /\ \A tag \in DOMAIN r.found :
                                              shown'[tag] = Printed(r.found[tag])
      BY <3>4
    <3>7. TAG_MESSAGE_CONTENT \in DOMAIN r.found /\ TAG_SENDER_USERNAME \in DOMAIN r.found
      BY <3>3 DEF WorldFields
    <3>8. QED
      BY <1>1, <3>3, <3>5, <3>6, <3>7, NoRecipient DEF RelayFaithful
  <2>2. CASE RelayedP2P
    <3>1. payload[1] = TAG_P2P_BROADCAST
      BY <1>2, <1>3, <2>2, ChatTyped, P2PFirst DEF RelayedP2P
    <3>2. PICK r : r = Parse(P2PFields, payload)
      OBVIOUS
    <3>3. /\ r.found[TAG_MESSAGE_CONTENT] = typed.content
          /\ r.found[TAG_SENDER_USERNAME] = typed.session
          /\ r.found[TAG_RECIPIENT_USERNAME] = typed.recipient
          /\ DOMAIN r.found = DOMAIN P2PFields
      BY <1>2, <1>3, <2>2, <3>2, ChatTyped, P2PParsed DEF RelayedP2P
    <3>4. shown' = [tag \in DOMAIN r.found |-> Printed(r.found[tag])]
      BY <3>1, <3>2 DEF ClientShow, parse_p2p_broadcast
    <3>5. typed.kind = "/p2p"
      BY <2>2 DEF RelayedP2P
    <3>6. \A tag \in DOMAIN r.found : shown'[tag] = Printed(r.found[tag])
      BY <3>4
    <3>7. /\ TAG_MESSAGE_CONTENT \in DOMAIN r.found /\ TAG_SENDER_USERNAME \in DOMAIN r.found
          /\ TAG_RECIPIENT_USERNAME \in DOMAIN r.found
      BY <3>3 DEF P2PFields
    <3>8. QED
      BY <1>1, <3>3, <3>5, <3>6, <3>7 DEF RelayFaithful
  <2>3. QED
    BY <1>1, <2>1, <2>2
<1>5. QED
  BY <1>1, <1>2, <1>4 DEF RelayInv, UserFaithful, BuilderParserAgree

LEMMA ClientUserRelays == RelayInv /\ ClientUser => RelayInv'
<1> SUFFICES ASSUME RelayInv, ClientUser PROVE RelayInv'
  OBVIOUS
<1>1. stage = "answered" /\ stage' = "shown" /\ typed' = typed /\ Answered
  BY DEF ClientUser, RelayInv
<1>2. typed \in UserLine /\ typed \notin ChatLine
  BY <1>1, NotBoth DEF Answered
<1>3. PICK r : r = ParseUser(payload)
  OBVIOUS
<1>4. AnswerName \in Seq(Uint8) /\ IsUint32(typed.user_id)
  BY <1>2, UserTyped DEF AnswerName
<1>5. /\ r.user_id # Smashed /\ HostNumber(r.user_id) = typed.user_id
      /\ r.username = AnswerName
  BY <1>1, <1>3, <1>4, UserReceived DEF Answered
<1>6. shown' = [user_id |-> r.user_id, username |-> r.username]
  BY <1>3 DEF ClientUser, parse_register_response, parse_login_response
<1>7. shown'.user_id = r.user_id /\ shown'.username = AnswerName
  BY <1>5, <1>6
<1>8. UserFaithful'
  BY <1>1, <1>5, <1>7 DEF UserFaithful, AnswerName
<1>9. QED
  BY <1>1, <1>2, <1>8 DEF RelayInv, RelayFaithful, BuilderParserAgree

LEMMA GrowRelays == RelayInv /\ Grow => RelayInv'
<1> SUFFICES ASSUME RelayInv, Grow PROVE RelayInv'
  OBVIOUS
<1>1. payload \in Seq(Uint8) /\ typed \in RawLine /\ stage' = "raw" /\ typed' = typed
  BY DEF RelayInv, Grow
<1>2. typed.bytes \subseteq Uint8
  BY <1>1, CasesAssumption DEF RawLine
<1>3. payload' \in Seq(Uint8)
  BY <1>1, <1>2, AppendProperties DEF Grow
<1>4. QED
  BY <1>1, <1>3 DEF RelayInv, RelayFaithful, UserFaithful, BuilderParserAgree

LEMMA RelayInvariant == Spec => []RelayInv
<1>1. RelayInv /\ UNCHANGED vars => RelayInv'
  BY DEF vars, RelayInv, SentWorld, SentP2P, SentUser, RelayedWorld, RelayedP2P, Answered,
         AnswerName, RelayFaithful, UserFaithful, BuilderParserAgree
<1>2. RelayInv /\ [Next]_vars => RelayInv'
  BY <1>1, ClientBuildRelays, ServerRelayRelays, ServerAnswerRelays, ClientShowRelays,
     ClientUserRelays, GrowRelays DEF Next, RelayNext
<1>3. QED
  BY <1>2, RelayStarts, PTL DEF Spec

(***************************************************************************)
(* A message is shown as it was typed, with the sender's own name: for     *)
(* names and texts of every length, from the builder of one client over    *)
(* the server (handle_broadcast_message) to the parser of another and its  *)
(* print_chat_message, which ends a name or a text at a zero byte in it.   *)
(***************************************************************************)
THEOREM RelayedFaithfully == Spec => []RelayFaithful
  BY RelayInvariant, PTL DEF RelayInv

(* The client learns the id that the user table gave, for every uint32_t,  *)
(* and the name that is stored with it.                                    *)
THEOREM UserToldFaithfully == Spec => []UserFaithful
  BY RelayInvariant, PTL DEF RelayInv

(* The server takes no request for malformed that the client's builders    *)
(* let through, but one to the sender himself.                             *)
THEOREM BuiltIsParsed == Spec => []BuilderParserAgree
  BY RelayInvariant, PTL DEF RelayInv

-----------------------------------------------------------------------------
(* What the parsers make of any payload, against the cuts of TlvCases. *)

(* The TLV at o lies inside p. *)
Fits(p, o) == o + 2 =< Len(p) /\ TlvEnd(p, o) =< Len(p)

(* What is inside p is a number. *)
LEMMA NumberInside ==
  ASSUME NEW p \in Seq(Uint8), NEW o \in Nat, o + 2 =< Len(p)
  PROVE  p[o + 2] \in Nat /\ TlvEnd(p, o) \in Nat /\ TlvEnd(p, o) >= o + 2
<1>1. o + 2 \in 1 .. Len(p)
  BY LenProperties
<1>2. PICK n \in Nat : n = p[o + 2]
  BY <1>1, ElementOfSeq, ByteIsNat
<1>3. QED
  BY <1>2 DEF TlvEnd

(* A cut of the whole, without what comes before the second TLV, cuts the  *)
(* rest ...                                                                *)
LEMMA CutRest ==
  ASSUME NEW p \in Seq(Uint8), NEW o \in 0 .. Len(p), o # Len(p), NEW c \in Cuts(p, o)
  PROVE  /\ o \in c /\ Fits(p, o)
         /\ c \cap (TlvEnd(p, o) .. Len(p)) \in Cuts(p, TlvEnd(p, o))
<1>1. Len(p) \in Nat /\ o \in Nat
  BY LenProperties
<1>2. /\ c \subseteq o .. Len(p) /\ o \in c
      /\ \A q \in c \ {Len(p)} : q + 2 =< Len(p) /\ TlvEnd(p, q) \in c
  BY DEF Cuts, IsCut, TlvEnd
<1>3. o + 2 =< Len(p) /\ TlvEnd(p, o) \in c
  BY <1>2
<1>4. PICK e \in Nat : e = TlvEnd(p, o)
  BY <1>1, <1>3, NumberInside
<1>5. e =< Len(p)
  BY <1>1, <1>2, <1>3, <1>4
<1>6. ASSUME NEW q \in (c \cap (e .. Len(p))) \ {Len(p)}
      PROVE  q + 2 =< Len(p) /\ TlvEnd(p, q) \in c \cap (e .. Len(p))
  <2>1. q \in Nat /\ q + 2 =< Len(p) /\ TlvEnd(p, q) \in c /\ q >= e
    BY <1>1, <1>2
  <2>2. TlvEnd(p, q) >= q + 2 /\ TlvEnd(p, q) \in Nat
    BY <2>1, NumberInside
  <2>3. PICK n \in Nat : n = TlvEnd(p, q)
    BY <2>2
  <2>4. n \in o .. Len(p) /\ n >= q + 2
    BY <1>2, <2>1, <2>2, <2>3
  <2>5. n \in e .. Len(p)
    BY <1>1, <2>1, <2>4
  <2>6. QED
    BY <2>1, <2>3, <2>5
<1>7. e \in e .. Len(p)
  BY <1>1, <1>5
<1>8. c \cap (e .. Len(p)) \in Cuts(p, e)
  BY <1>3, <1>4, <1>6, <1>7 DEF Cuts, IsCut, TlvEnd
<1>9. QED
  BY <1>2, <1>3, <1>4, <1>5, <1>8 DEF Fits

(* ... and a cut of the rest, with the first TLV, cuts the whole. *)
LEMMA CutWhole ==
  ASSUME NEW p \in Seq(Uint8), NEW o \in 0 .. Len(p), o # Len(p), Fits(p, o),
         NEW d \in Cuts(p, TlvEnd(p, o))
  PROVE  {o} \cup d \in Cuts(p, o)
<1>1. Len(p) \in Nat /\ o \in Nat /\ o + 2 =< Len(p)
  BY LenProperties DEF Fits
<1>2. PICK e \in Nat : e = TlvEnd(p, o) /\ e >= o + 2 /\ e =< Len(p)
  BY <1>1, NumberInside DEF Fits
<1>3. /\ d \subseteq e .. Len(p) /\ e \in d
      /\ \A q \in d \ {Len(p)} : q + 2 =< Len(p) /\ TlvEnd(p, q) \in d
  BY <1>2 DEF Cuts, IsCut, TlvEnd
<1>4. {o} \cup d \subseteq o .. Len(p)
  <2>1. e .. Len(p) \subseteq o .. Len(p)
    BY <1>1, <1>2
  <2>2. QED
    BY <1>3, <2>1
<1>5. ASSUME NEW q \in ({o} \cup d) \ {Len(p)}
      PROVE  q + 2 =< Len(p) /\ TlvEnd(p, q) \in {o} \cup d
  BY <1>1, <1>2, <1>3
<1>6. QED
  BY <1>4, <1>5 DEF Cuts, IsCut, TlvEnd

(* The TLVs of what can be cut are the first and those of the rest. *)
LEMMA CutStep ==
  ASSUME NEW p \in Seq(Uint8), NEW o \in 0 .. Len(p), o # Len(p)
  PROVE  /\ Cuts(p, o) # {} <=> Fits(p, o) /\ Cuts(p, TlvEnd(p, o)) # {}
         /\ Cuts(p, o) # {} => Tlvs(p, o) = {o} \cup Tlvs(p, TlvEnd(p, o))
<1>1. Cuts(p, o) # {} <=> Fits(p, o) /\ Cuts(p, TlvEnd(p, o)) # {}
  BY CutRest, CutWhole
<1>2. ASSUME Cuts(p, o) # {}
      PROVE  Tlvs(p, o) = {o} \cup Tlvs(p, TlvEnd(p, o))
  <2>1. Fits(p, o) /\ Cuts(p, TlvEnd(p, o)) # {} /\ Len(p) \in Nat /\ o \in Nat
    BY <1>1, <1>2, LenProperties
  <2>2. PICK e \in Nat : e = TlvEnd(p, o) /\ e >= o + 2 /\ e =< Len(p)
    BY <2>1, NumberInside DEF Fits
  <2>3. o \in Tlvs(p, o)
    <3>1. o \in o .. Len(p) - 1
      BY <2>1
    <3>2. QED
      BY <3>1, CutRest DEF Tlvs
  <2>4. ASSUME NEW q \in Tlvs(p, e)
        PROVE  q \in Tlvs(p, o)
    <3>1. q \in e .. Len(p) - 1 /\ \A d \in Cuts(p, e) : q \in d
      BY DEF Tlvs
    <3>2. q \in o .. Len(p) - 1
      BY <2>1, <2>2, <3>1
    <3>3. \A c \in Cuts(p, o) : q \in c
      BY <2>2, <3>1, CutRest
    <3>4. QED
      BY <3>2, <3>3 DEF Tlvs
  <2>5. ASSUME NEW q \in Tlvs(p, o), q # o
        PROVE  q \in Tlvs(p, e)
    <3>1. q \in o .. Len(p) - 1 /\ \A c \in Cuts(p, o) : q \in c
      BY DEF Tlvs
    <3>2. \A d \in Cuts(p, e) : q \in d
      <4>1. ASSUME NEW d \in Cuts(p, e)
            PROVE  q \in {o} \cup d
        <5>1. {o} \cup d \in Cuts(p, o)
          BY <2>1, <2>2, CutWhole
        <5>2. QED
          BY <3>1, <5>1
      <4>2. QED
        BY <2>5, <4>1
    <3>3. PICK d \in Cuts(p, e) : q \in d
      BY <2>1, <2>2, <3>2
    <3>4. q \in e .. Len(p)
      BY <3>3 DEF Cuts
    <3>5. q \in e .. Len(p) - 1
      BY <2>1, <2>2, <3>1, <3>4
    <3>6. QED
      BY <3>2, <3>5 DEF Tlvs
  <2>6. QED
    BY <2>2, <2>3, <2>4, <2>5
<1>3. QED
  BY <1>1, <1>2

(* At the end there is a cut and no TLV. *)
LEMMA CutEnd ==
  ASSUME NEW p \in Seq(Uint8)
  PROVE  Cuts(p, Len(p)) # {} /\ Tlvs(p, Len(p)) = {}
<1>1. Len(p) \in Nat
  BY LenProperties
<1>2. {Len(p)} \in Cuts(p, Len(p))
  BY <1>1 DEF Cuts, IsCut
<1>3. Len(p) .. Len(p) - 1 = {}
  BY <1>1
<1>4. QED
  BY <1>2, <1>3 DEF Tlvs

(* q is the last TLV with this tag from o on. *)
IsLast(p, o, tag, q) == q \in TlvsOf(p, o, tag) /\ \A y \in TlvsOf(p, o, tag) : y =< q

(* From o on p is a row of whole TLVs, and no known value is too long. *)
IsGood(fields, p, o) ==
  /\ Cuts(p, o) # {}
  /\ \A q \in Tlvs(p, o) : ~TooLong(fields, p[q + 1], p[q + 2])

(* What the loop comes to from o on is right. *)
ParsesFrom(fields, p, o, final) ==
  /\ final.malformed <=> ~IsGood(fields, p, o)
  /\ IsGood(fields, p, o) =>
       /\ IsFcn(final.found)
       /\ DOMAIN final.found = {tag \in DOMAIN fields : TlvsOf(p, o, tag) # {}}
       /\ \A tag \in DOMAIN final.found :
            \E q : IsLast(p, o, tag, q) /\ final.found[tag] = TlvValue(p, q)

LEMMA ParsesEnd ==
  ASSUME NEW fields, NEW p \in Seq(Uint8), NEW final,
         final = [malformed |-> FALSE, found |-> NoValues]
  PROVE  ParsesFrom(fields, p, Len(p), final)
<1>1. final.malformed = FALSE /\ final.found = NoValues
  OBVIOUS
<1>2. DOMAIN NoValues = {} /\ IsFcn(NoValues)
  BY DEF NoValues, IsFcn
<1>3. IsGood(fields, p, Len(p)) /\ \A tag : TlvsOf(p, Len(p), tag) = {}
  BY CutEnd DEF IsGood, TlvsOf
<1>4. QED
  BY <1>1, <1>2, <1>3 DEF ParsesFrom

LEMMA ParsesMalformed ==
  ASSUME NEW fields, NEW p \in Seq(Uint8), NEW o \in 0 .. Len(p), o # Len(p),
         IsMalformed(fields, p, o), NEW final,
         final = [malformed |-> TRUE, found |-> NoValues]
  PROVE  ParsesFrom(fields, p, o, final)
<1>1. final.malformed = TRUE
  OBVIOUS
<1>2. ASSUME IsGood(fields, p, o)
      PROVE  FALSE
  <2>1. Fits(p, o) /\ Tlvs(p, o) = {o} \cup Tlvs(p, TlvEnd(p, o))
    BY <1>2, CutStep DEF IsGood
  <2>2. ~TooLong(fields, p[o + 1], p[o + 2])
    BY <1>2, <2>1 DEF IsGood
  <2>3. ~(o + 2 > Len(p)) /\ ~(TlvEnd(p, o) > Len(p))
    <3>1. o + 2 =< Len(p) /\ TlvEnd(p, o) =< Len(p) /\ Len(p) \in Nat /\ o \in Nat
      BY <2>1, LenProperties DEF Fits
    <3>2. PICK e \in Nat : e = TlvEnd(p, o)
      BY <3>1, NumberInside
    <3>3. QED
      BY <3>1, <3>2
  <2>4. QED
    BY <2>2, <2>3 DEF IsMalformed
<1>3. QED
  BY <1>1, <1>2 DEF ParsesFrom

LEMMA ParsesTlv ==
  ASSUME NEW fields, NEW p \in Seq(Uint8), NEW o \in 0 .. Len(p), o # Len(p),
         ~IsMalformed(fields, p, o), NEW e, e = TlvEnd(p, o),
         NEW rest, ParsesFrom(fields, p, e, rest), NEW final,
         final = ParseTlv(fields, p, o, rest)
  PROVE  ParsesFrom(fields, p, o, final)
<1>1. Len(p) \in Nat /\ o \in Nat
  BY LenProperties
<1>2. /\ o + 2 =< Len(p) /\ Fits(p, o) /\ e \in Nat /\ e >= o + 2
      /\ ~TooLong(fields, p[o + 1], p[o + 2])
  <2>1. /\ ~(o + 2 > Len(p)) /\ ~(TlvEnd(p, o) > Len(p))
        /\ ~TooLong(fields, p[o + 1], p[o + 2])
    BY DEF IsMalformed
  <2>2. o + 2 =< Len(p)
    BY <1>1, <2>1
  <2>3. e \in Nat /\ e >= o + 2
    BY <1>1, <2>2, NumberInside
  <2>4. e =< Len(p)
    BY <1>1, <2>1, <2>3
  <2>5. QED
    BY <2>1, <2>2, <2>3, <2>4 DEF Fits
<1>3. PICK t : t = p[o + 1]
  OBVIOUS
<1>4. PICK value : value = TlvValue(p, o)
  OBVIOUS
<1>5. /\ final.malformed = rest.malformed
      /\ final.found = [tag \in DOMAIN rest.found \cup ({t} \cap DOMAIN fields) |->
                          IF tag \in DOMAIN rest.found THEN rest.found[tag] ELSE value]
  BY <1>3, <1>4 DEF ParseTlv
<1>6. PICK found : found = final.found
  OBVIOUS
<1>7. /\ DOMAIN found = DOMAIN rest.found \cup ({t} \cap DOMAIN fields)
      /\ \A tag \in DOMAIN found :
           found[tag] = IF tag \in DOMAIN rest.found THEN rest.found[tag] ELSE value
  BY <1>5, <1>6
<1>8. IsFcn(found)
  BY <1>5, <1>6 DEF IsFcn
<1>9. Cuts(p, o) # {} <=> Cuts(p, e) # {}
  BY <1>2, CutStep
<1>10. Cuts(p, o) # {} => Tlvs(p, o) = {o} \cup Tlvs(p, e)
  BY CutStep
<1>11. IsGood(fields, p, o) <=> IsGood(fields, p, e)
  BY <1>2, <1>9, <1>10 DEF IsGood
<1>12. ASSUME IsGood(fields, p, o)
       PROVE  /\ DOMAIN found = {tag \in DOMAIN fields : TlvsOf(p, o, tag) # {}}
              /\ \A tag \in DOMAIN found :
                   \E q : IsLast(p, o, tag, q) /\ found[tag] = TlvValue(p, q)
  <2>1. /\ DOMAIN rest.found = {tag \in DOMAIN fields : TlvsOf(p, e, tag) # {}}
        /\ \A tag \in DOMAIN rest.found :
             \E q : IsLast(p, e, tag, q) /\ rest.found[tag] = TlvValue(p, q)
    BY <1>11, <1>12 DEF ParsesFrom
  <2>2. Tlvs(p, o) = {o} \cup Tlvs(p, e)
    BY <1>10, <1>12 DEF IsGood
  <2>3. \A tag : TlvsOf(p, o, tag) = TlvsOf(p, e, tag) \cup {x \in {o} : t = tag}
    BY <1>3, <2>2 DEF TlvsOf
  <2>4. \A tag : \A q \in TlvsOf(p, e, tag) : o =< q /\ q \in Nat
    <3>1. Tlvs(p, e) \subseteq e .. Len(p) - 1
      BY DEF Tlvs
    <3>2. \A q \in e .. Len(p) - 1 : o =< q /\ q \in Nat
      BY <1>1, <1>2
    <3>3. QED
      BY <3>1, <3>2 DEF TlvsOf
  <2>5. DOMAIN found = {tag \in DOMAIN fields : TlvsOf(p, o, tag) # {}}
    BY <1>7, <2>1, <2>3
  <2>6. ASSUME NEW tag \in DOMAIN found
        PROVE  \E q : IsLast(p, o, tag, q) /\ found[tag] = TlvValue(p, q)
    <3>1. CASE tag \in DOMAIN rest.found
      <4>1. PICK q : IsLast(p, e, tag, q) /\ rest.found[tag] = TlvValue(p, q)
        BY <2>1, <3>1
      <4>2. IsLast(p, o, tag, q)
        BY <2>3, <2>4, <4>1 DEF IsLast
      <4>3. QED
        BY <1>7, <3>1, <4>1, <4>2
    <3>2. CASE tag \notin DOMAIN rest.found
      <4>1. t = tag /\ tag \in DOMAIN fields
        BY <1>7, <3>2
      <4>2. TlvsOf(p, o, tag) = {o}
        BY <2>1, <2>3, <3>2, <4>1
      <4>3. IsLast(p, o, tag, o)
        BY <1>1, <4>2 DEF IsLast
      <4>4. QED
        BY <1>4, <1>7, <3>2, <4>3
    <3>3. QED
      BY <3>1, <3>2
  <2>7. QED
    BY <2>5, <2>6
<1>13. rest.malformed <=> ~IsGood(fields, p, e)
  BY DEF ParsesFrom
<1>14. QED
  BY <1>5, <1>6, <1>8, <1>11, <1>12, <1>13 DEF ParsesFrom

LEMMA ParsesAll ==
  ASSUME NEW fields, NEW p \in Seq(Uint8)
  PROVE  ParsesFrom(fields, p, 0, ParseFrom(fields, p)[0])
<1> DEFINE N == Len(p)
           from == ParseFrom(fields, p)
           S == {o \in 0 .. N : ParsesFrom(fields, p, o, from[o])}
<1>1. N \in Nat
  BY LenProperties
<1>2. ASSUME NEW o \in 0 .. N, \A q \in o + 1 .. N : q \in S
      PROVE  o \in S
  <2>1. from[o] = Round(fields, p, from, o)
    BY ParseFromRound
  <2>2. CASE o = N
    BY <2>1, <2>2, ParsesEnd DEF Round
  <2>3. CASE o # N /\ IsMalformed(fields, p, o)
    BY <2>1, <2>3, ParsesMalformed DEF Round
  <2>4. CASE o # N /\ ~IsMalformed(fields, p, o)
    <3>1. PICK e : e = TlvEnd(p, o)
      OBVIOUS
    <3>2. from[o] = ParseTlv(fields, p, o, from[e])
      BY <2>1, <2>4, <3>1 DEF Round
    <3>3. e \in o + 1 .. N
      <4>1. ~(o + 2 > N) /\ ~(TlvEnd(p, o) > N)
        BY <2>4 DEF IsMalformed
      <4>2. o + 2 =< N
        BY <1>1, <4>1
      <4>3. e \in Nat /\ e >= o + 2
        BY <1>1, <3>1, <4>2, NumberInside
      <4>4. QED
        BY <1>1, <3>1, <4>1, <4>3
    <3>4. ParsesFrom(fields, p, e, from[e])
      BY <1>2, <3>3
    <3>5. QED
      BY <2>4, <3>1, <3>2, <3>4, ParsesTlv
  <2>5. QED
    BY <2>2, <2>3, <2>4
<1>3. \A o \in 0 .. N : o \in S
  <2> HIDE DEF S, N
  <2> QED BY <1>1, <1>2, Downward
<1>4. QED
  BY <1>1, <1>3

(* The last of several values, as Max names it. *)
LEMMA LastIsMax ==
  ASSUME NEW p \in Seq(Uint8), NEW tag, NEW q, IsLast(p, 0, tag, q)
  PROVE  Max(TlvsOf(p, 0, tag)) = q
<1>1. TlvsOf(p, 0, tag) \subseteq Nat
  BY LenProperties DEF TlvsOf, Tlvs
<1>2. PICK T : T = TlvsOf(p, 0, tag)
  OBVIOUS
<1>3. q \in T /\ T \subseteq Nat /\ \A y \in T : y =< q
  BY <1>1, <1>2 DEF IsLast
<1>4. \A x \in T : (\A y \in T : x >= y) <=> x = q
  BY <1>3
<1>5. Max(T) = q
  BY <1>3, <1>4 DEF Max
<1>6. QED
  BY <1>2, <1>5

(* A TLV of what can be cut lies inside it. *)
LEMMA TlvFits ==
  ASSUME NEW p \in Seq(Uint8), NEW q \in Tlvs(p, 0), Cuts(p, 0) # {}
  PROVE  q \in Nat /\ Fits(p, q)
<1>1. PICK c \in Cuts(p, 0) : q \in c
  BY DEF Tlvs
<1>2. q \in 0 .. Len(p) - 1 /\ Len(p) \in Nat
  BY LenProperties DEF Tlvs
<1>3. q \in Nat /\ q # Len(p)
  BY <1>2
<1>4. q + 2 =< Len(p) /\ TlvEnd(p, q) \in 0 .. Len(p)
  BY <1>1, <1>3 DEF Cuts, IsCut, TlvEnd
<1>5. QED
  BY <1>2, <1>3, <1>4 DEF Fits

(* Parse looks at what the loop comes to. *)
IsParsed(r, fields, final) ==
  /\ r.ok = (~final.malformed /\ DOMAIN final.found = DOMAIN fields)
  /\ r.found = final.found
  /\ r = [ok |-> r.ok, found |-> r.found]

LEMMA ParseReturns ==
  ASSUME NEW fields, NEW p, NEW final, final = ParseFrom(fields, p)[0]
  PROVE  IsParsed(Parse(fields, p), fields, final)
<1>1. PICK ok : ok = (~final.malformed /\ DOMAIN final.found = DOMAIN fields)
  OBVIOUS
<1>2. PICK r : r = Parse(fields, p) /\ r = [ok |-> ok, found |-> final.found]
  BY <1>1 DEF Parse
<1>3. r.ok = ok /\ r.found = final.found
  BY <1>2
<1>4. QED
  BY <1>1, <1>2, <1>3 DEF IsParsed

(***************************************************************************)
(* A parser that knows the tags of fields accepts exactly the payloads     *)
(* that are a row of whole TLVs in which no known value is too long and    *)
(* none is missing, and returns the last value of each tag: for every      *)
(* table of tags and lengths, and for every payload.                       *)
(***************************************************************************)
THEOREM ParserCorrect ==
  ASSUME NEW fields, \A tag \in DOMAIN fields : fields[tag] \in Nat, NEW p \in Seq(Uint8)
  PROVE  IsParseOf(Parse(fields, p), fields, p)
<1>1. PICK final : final = ParseFrom(fields, p)[0] /\ ParsesFrom(fields, p, 0, final)
  BY ParsesAll
<1>2. PICK r : r = Parse(fields, p) /\ IsParsed(r, fields, final)
  BY <1>1, ParseReturns
<1>3. \A q \in Tlvs(p, 0) : Cuts(p, 0) # {} => p[q + 2] \in Nat
  BY TlvFits, NumberInside DEF Fits
<1>4. r.ok <=> Acceptable(fields, p)
  <2>1. ASSUME Cuts(p, 0) # {}, NEW q \in Tlvs(p, 0)
        PROVE  /\ ~TooLong(fields, p[q + 1], p[q + 2])
                    <=> \A tag \in DOMAIN fields : p[q + 1] = tag => p[q + 2] =< fields[tag]
    <3>1. PICK n \in Nat : n = p[q + 2]
      BY <1>3, <2>1
    <3>2. \A tag \in DOMAIN fields : n > fields[tag] <=> ~(n =< fields[tag])
      OBVIOUS
    <3>3. QED
      BY <3>1, <3>2 DEF TooLong
  <2>2. IsGood(fields, p, 0) <=>
          /\ Cuts(p, 0) # {}
          /\ \A tag \in DOMAIN fields : \A q \in TlvsOf(p, 0, tag) : p[q + 2] =< fields[tag]
    BY <2>1 DEF IsGood, TlvsOf
  <2>3. IsGood(fields, p, 0) =>
          (DOMAIN final.found = DOMAIN fields <=> \A tag \in DOMAIN fields : TlvsOf(p, 0, tag) # {})
    BY <1>1 DEF ParsesFrom
  <2>4. final.malformed <=> ~IsGood(fields, p, 0)
    BY <1>1 DEF ParsesFrom
  <2>5. QED
    BY <1>2, <2>2, <2>3, <2>4 DEF Acceptable, IsParsed
<1>5. ASSUME r.ok
      PROVE  /\ DOMAIN r.found = DOMAIN fields
             /\ \A tag \in DOMAIN fields :
                  r.found[tag] = TlvValue(p, Max(TlvsOf(p, 0, tag)))
  <2>1. DOMAIN r.found = DOMAIN fields /\ IsGood(fields, p, 0)
    BY <1>1, <1>2, <1>5 DEF ParsesFrom, IsParsed
  <2>2. ASSUME NEW tag \in DOMAIN fields
        PROVE  r.found[tag] = TlvValue(p, Max(TlvsOf(p, 0, tag)))
    <3>1. PICK q : IsLast(p, 0, tag, q) /\ final.found[tag] = TlvValue(p, q)
      BY <1>1, <1>2, <2>1 DEF ParsesFrom, IsParsed
    <3>2. QED
      BY <1>2, <3>1, LastIsMax DEF IsParsed
  <2>3. QED
    BY <2>1, <2>2
<1>6. QED
  BY <1>2, <1>4, <1>5 DEF IsParseOf, TlvValue, TlvEnd

(* So the parsers of requests and of notifications are right, whatever     *)
(* bytes the other side sends.                                             *)
THEOREM ParsersCorrect ==
  ASSUME NEW p \in Seq(Uint8)
  PROVE  /\ IsParseOf(parse_register_request(p), CredentialFields, p)
         /\ IsParseOf(parse_login_request(p), CredentialFields, p)
         /\ IsParseOf(parse_world_broadcast(p), WorldFields, p)
         /\ IsParseOf(parse_p2p_broadcast(p), P2PFields, p)
<1>1. /\ \A tag \in DOMAIN CredentialFields : CredentialFields[tag] \in Nat
      /\ \A tag \in DOMAIN WorldFields : WorldFields[tag] \in Nat
      /\ \A tag \in DOMAIN P2PFields : P2PFields[tag] \in Nat
  BY Limits DEF CredentialFields, WorldFields, P2PFields
<1>2. QED
  BY <1>1, ParserCorrect DEF parse_register_request, parse_login_request,
     parse_world_broadcast, parse_p2p_broadcast

(* The values that a parser returns are short enough to be built again. *)
LEMMA ValueInside ==
  ASSUME NEW p \in Seq(Uint8), NEW o \in Nat, Fits(p, o)
  PROVE  /\ TlvValue(p, o) \in Seq(Uint8) /\ Len(TlvValue(p, o)) = p[o + 2]
         /\ \A i \in 1 .. p[o + 2] : TlvValue(p, o)[i] = p[o + 2 + i]
<1>1. Len(p) \in Nat /\ o + 2 =< Len(p)
  BY LenProperties DEF Fits
<1>2. PICK n \in Nat : n = p[o + 2]
  BY <1>1, NumberInside
<1>3. PICK a \in Int, b \in Int : a = o + 3 /\ b = o + 2 + n
  OBVIOUS
<1>4. b =< Len(p) /\ TlvValue(p, o) = SubSeq(p, a, b)
  BY <1>2, <1>3 DEF Fits, TlvValue, TlvEnd
<1>5. \A i \in a .. b : p[i] \in Uint8
  <2>1. \A i \in a .. b : i \in 1 .. Len(p)
    BY <1>1, <1>3, <1>4
  <2>2. QED
    BY <2>1, ElementOfSeq
<1>6. /\ SubSeq(p, a, b) \in Seq(Uint8)
      /\ Len(SubSeq(p, a, b)) = IF a =< b THEN b - a + 1 ELSE 0
      /\ \A i \in 1 .. b - a + 1 : SubSeq(p, a, b)[i] = p[a + i - 1]
  BY <1>5, SubSeqProperties
<1>7. (IF a =< b THEN b - a + 1 ELSE 0) = n
  BY <1>3
<1>8. \A i \in 1 .. n : i \in 1 .. b - a + 1 /\ a + i - 1 = o + 2 + i
  BY <1>3
<1>9. \A i \in 1 .. n : TlvValue(p, o)[i] = p[o + 2 + i]
  BY <1>4, <1>6, <1>8
<1>10. QED
  BY <1>2, <1>4, <1>6, <1>7, <1>9

LEMMA AcceptedValues ==
  ASSUME NEW fields, \A tag \in DOMAIN fields : fields[tag] \in Nat, NEW p \in Seq(Uint8),
         NEW r, r = Parse(fields, p), r.ok
  PROVE  /\ IsAccepted(r) /\ DOMAIN r.found = DOMAIN fields
         /\ \A tag \in DOMAIN fields :
              r.found[tag] \in Seq(Uint8) /\ Len(r.found[tag]) =< fields[tag]
<1>1. PICK final : final = ParseFrom(fields, p)[0] /\ ParsesFrom(fields, p, 0, final)
  BY ParsesAll
<1>2. IsParsed(r, fields, final)
  BY <1>1, ParseReturns
<1>3. r.ok = TRUE /\ ~final.malformed /\ DOMAIN final.found = DOMAIN fields
  BY <1>2 DEF IsParsed
<1>4. IsGood(fields, p, 0) /\ IsFcn(final.found)
  BY <1>1, <1>3 DEF ParsesFrom
<1>5. ASSUME NEW tag \in DOMAIN fields
      PROVE  r.found[tag] \in Seq(Uint8) /\ Len(r.found[tag]) =< fields[tag]
  <2>1. PICK q : IsLast(p, 0, tag, q) /\ final.found[tag] = TlvValue(p, q)
    BY <1>1, <1>3, <1>4 DEF ParsesFrom
  <2>2. q \in Tlvs(p, 0) /\ p[q + 1] = tag
    BY <2>1 DEF IsLast, TlvsOf
  <2>3. q \in Nat /\ Fits(p, q)
    BY <1>4, <2>2, TlvFits DEF IsGood
  <2>4. PICK n \in Nat : n = p[q + 2]
    BY <2>3, NumberInside DEF Fits
  <2>5. n =< fields[tag]
    BY <1>4, <2>2, <2>4 DEF IsGood, TooLong
  <2>6. QED
    BY <1>2, <2>1, <2>3, <2>4, <2>5, ValueInside DEF IsParsed
<1>6. QED
  BY <1>2, <1>3, <1>4, <1>5 DEF IsParsed, IsAccepted

LEMMA CredentialLimits ==
  /\ DOMAIN CredentialFields = {TAG_USERNAME, TAG_PASSWORD}
  /\ CredentialFields[TAG_USERNAME] = MAX_USERNAME_SIZE
  /\ CredentialFields[TAG_PASSWORD] = MAX_PASSWORD_SIZE
  /\ \A tag \in DOMAIN CredentialFields : CredentialFields[tag] \in Nat
  BY Limits DEF CredentialFields, TAG_USERNAME, TAG_PASSWORD

(* What is returned for credentials is built and parsed to the same again. *)
LEMMA Rebuilt ==
  ASSUME NEW p \in Seq(Uint8), NEW r, r = Parse(CredentialFields, p), r.ok,
         NEW b, b = build_credentials(r.found[TAG_USERNAME], r.found[TAG_PASSWORD])
  PROVE  b.ok /\ Parse(CredentialFields, b.payload) = r
<1>1. /\ IsAccepted(r) /\ DOMAIN r.found = {TAG_USERNAME, TAG_PASSWORD}
      /\ \A tag \in {TAG_USERNAME, TAG_PASSWORD} :
           r.found[tag] \in Seq(Uint8) /\ Len(r.found[tag]) =< CredentialFields[tag]
  BY CredentialLimits, AcceptedValues
<1>2. PICK u \in Seq(Uint8), w \in Seq(Uint8) :
        /\ u = r.found[TAG_USERNAME] /\ w = r.found[TAG_PASSWORD]
        /\ Len(u) =< MAX_USERNAME_SIZE /\ Len(w) =< MAX_PASSWORD_SIZE
  BY <1>1, CredentialLimits
<1>3. b = [ok |-> TRUE, payload |-> CredentialsPayload(u, w)]
  <2>1. ~(Len(u) > MAX_USERNAME_SIZE) /\ ~(Len(w) > MAX_PASSWORD_SIZE)
    BY <1>2, Limits, LenProperties
  <2>2. QED
    BY <1>2, <2>1 DEF build_credentials, Built, CredentialsPayload
<1>4. b.ok /\ b.payload = CredentialsPayload(u, w)
  BY <1>3
<1>5. PICK s : s = Parse(CredentialFields, CredentialsPayload(u, w))
  OBVIOUS
<1>6. /\ IsAccepted(s) /\ DOMAIN s.found = {TAG_USERNAME, TAG_PASSWORD}
      /\ s.found[TAG_USERNAME] = u /\ s.found[TAG_PASSWORD] = w
  BY <1>2, <1>5, CredentialsParsed, CredentialLimits
<1>7. s.found = r.found
  <2>1. PICK f, g : f = s.found /\ g = r.found
    OBVIOUS
  <2>2. f = [t \in DOMAIN f |-> f[t]] /\ g = [t \in DOMAIN g |-> g[t]]
    BY <1>1, <1>6, <2>1 DEF IsAccepted, IsFcn
  <2>3. DOMAIN f = DOMAIN g /\ \A t \in DOMAIN f : f[t] = g[t]
    BY <1>1, <1>2, <1>6, <2>1
  <2>4. QED
    BY <2>1, <2>2, <2>3
<1>8. s = r
  BY <1>1, <1>6, <1>7 DEF IsAccepted
<1>9. QED
  BY <1>4, <1>5, <1>8

(***************************************************************************)
(* parse_register_request and parse_login_request are right on every       *)
(* payload that grows byte by byte, and agree with the builders.           *)
(***************************************************************************)
THEOREM PayloadsParsed == Spec => []ParsesTlvs
<1>1. RelayInv => ParsesTlvs
  <2> SUFFICES ASSUME RelayInv, stage = "raw" PROVE ParsesTlvs
    BY DEF ParsesTlvs
  <2>1. payload \in Seq(Uint8)
    BY DEF RelayInv
  <2>2. PICK r : r = Parse(CredentialFields, payload)
    OBVIOUS
  <2>3. IsParseOf(r, CredentialFields, payload)
    BY <2>1, <2>2, CredentialLimits, ParserCorrect
  <2>4. PICK b : b = build_credentials(r.found[TAG_USERNAME], r.found[TAG_PASSWORD])
    OBVIOUS
  <2>5. r.ok => b.ok /\ Parse(CredentialFields, b.payload) = r
    BY <2>1, <2>2, <2>4, Rebuilt
  <2>6. QED
    BY <2>2, <2>3, <2>4, <2>5 DEF ParsesTlvs, parse_register_request, parse_login_request
<1>2. QED
  BY <1>1, RelayInvariant, PTL

-----------------------------------------------------------------------------
(* The id that the parsers of responses leave in its four bytes. *)

(* From o on the loop turns memory into result. *)
IdRight(p, o, memory, result) ==
  IsGood(UserFields, p, o) =>
    /\ result = Smashed
         <=> memory = Smashed \/ \E q \in TlvsOf(p, o, TAG_USER_ID) : p[q + 2] > 4
    /\ memory # Smashed /\ (\A q \in TlvsOf(p, o, TAG_USER_ID) : p[q + 2] = 4) =>
         IF TlvsOf(p, o, TAG_USER_ID) = {} THEN result = memory
         ELSE \E q : IsLast(p, o, TAG_USER_ID, q) /\ result = htonl(TlvValue(p, q))

(* A TLV that is not malformed ends behind its start. *)
LEMMA WholeTlv ==
  ASSUME NEW fields, NEW p \in Seq(Uint8), NEW o \in 0 .. Len(p), o # Len(p),
         ~IsMalformed(fields, p, o)
  PROVE  /\ Fits(p, o) /\ TlvEnd(p, o) \in o + 1 .. Len(p)
         /\ ~TooLong(fields, p[o + 1], p[o + 2])
<1>1. Len(p) \in Nat /\ o \in Nat
  BY LenProperties
<1>2. /\ ~(o + 2 > Len(p)) /\ ~(TlvEnd(p, o) > Len(p))
      /\ ~TooLong(fields, p[o + 1], p[o + 2])
  BY DEF IsMalformed
<1>3. o + 2 =< Len(p)
  BY <1>1, <1>2
<1>4. PICK e \in Nat : e = TlvEnd(p, o) /\ e >= o + 2
  BY <1>1, <1>3, NumberInside
<1>5. e =< Len(p)
  BY <1>1, <1>2, <1>4
<1>6. QED
  BY <1>1, <1>2, <1>3, <1>4, <1>5 DEF Fits

(* One round of the loop, and what it does to the memory. *)
LEMMA IdRightTlv ==
  ASSUME NEW p \in Seq(Uint8), NEW o \in 0 .. Len(p), o # Len(p),
         ~IsMalformed(UserFields, p, o), NEW memory \in IdMemory, NEW next,
         next = IF p[o + 1] = TAG_USER_ID THEN CopyId(memory, TlvValue(p, o)) ELSE memory
  PROVE  /\ next \in IdMemory
         /\ \A result : IdRight(p, TlvEnd(p, o), next, result) => IdRight(p, o, memory, result)
<1>1. o \in Nat /\ Fits(p, o) /\ ~TooLong(UserFields, p[o + 1], p[o + 2])
  BY WholeTlv
<1>2. PICK e \in Nat : e = TlvEnd(p, o) /\ e > o
  BY <1>1, WholeTlv, LenProperties
<1>3. PICK n \in Nat : n = p[o + 2]
  BY <1>1, NumberInside DEF Fits
<1>4. PICK value \in Seq(Uint8) : value = TlvValue(p, o) /\ Len(value) = n
  BY <1>1, <1>3, ValueInside
<1>5. PICK t : t = p[o + 1]
  OBVIOUS
<1>6. next = IF t = TAG_USER_ID THEN CopyId(memory, value) ELSE memory
  BY <1>4, <1>5
<1>7. next \in IdMemory
  BY <1>6, IdCopied
<1>8. /\ t = TAG_USER_ID => (next = Smashed <=> memory = Smashed \/ n > 4)
      /\ t = TAG_USER_ID /\ memory # Smashed /\ n = 4 => next = htonl(value)
  <2>1. PICK m : m = CopyId(memory, value)
    OBVIOUS
  <2>2. /\ m = Smashed <=> memory = Smashed \/ Len(value) > 4
        /\ memory # Smashed /\ Len(value) = 4 => m = htonl(value)
    BY <2>1, IdCopied
  <2>3. QED
    BY <1>4, <1>6, <2>1, <2>2
<1>9. ASSUME NEW result, IdRight(p, e, next, result), IsGood(UserFields, p, o)
      PROVE  /\ result = Smashed
                  <=> memory = Smashed \/ \E q \in TlvsOf(p, o, TAG_USER_ID) : p[q + 2] > 4
             /\ memory # Smashed /\ (\A q \in TlvsOf(p, o, TAG_USER_ID) : p[q + 2] = 4) =>
                  IF TlvsOf(p, o, TAG_USER_ID) = {} THEN result = memory
                  ELSE \E q : IsLast(p, o, TAG_USER_ID, q) /\ result = htonl(TlvValue(p, q))
  <2>1. Cuts(p, e) # {} /\ Tlvs(p, o) = {o} \cup Tlvs(p, e)
    BY <1>2, <1>9, CutStep DEF IsGood
  <2>2. IsGood(UserFields, p, e)
    BY <1>9, <2>1 DEF IsGood
  <2>3. PICK T : T = TlvsOf(p, e, TAG_USER_ID)
    OBVIOUS
  <2>4. TlvsOf(p, o, TAG_USER_ID) = T \cup {x \in {o} : t = TAG_USER_ID}
    BY <1>5, <2>1, <2>3 DEF TlvsOf
  <2>5. \A q \in T : o =< q /\ q \in Nat
    <3>1. T \subseteq e .. Len(p) - 1
      BY <2>3 DEF TlvsOf, Tlvs
    <3>2. \A q \in e .. Len(p) - 1 : o =< q /\ q \in Nat
      BY <1>1, <1>2
    <3>3. QED
      BY <3>1, <3>2
  <2>6. /\ result = Smashed <=> next = Smashed \/ \E q \in T : p[q + 2] > 4
        /\ next # Smashed /\ (\A q \in T : p[q + 2] = 4) =>
             IF T = {} THEN result = next
             ELSE \E q : IsLast(p, e, TAG_USER_ID, q) /\ result = htonl(TlvValue(p, q))
    BY <1>9, <2>2, <2>3 DEF IdRight
  <2>7. \A q : IsLast(p, e, TAG_USER_ID, q) => IsLast(p, o, TAG_USER_ID, q)
    BY <2>3, <2>4, <2>5 DEF IsLast
  <2>8. CASE t # TAG_USER_ID
    <3>1. next = memory /\ TlvsOf(p, o, TAG_USER_ID) = T
      BY <1>6, <2>4, <2>8
    <3>2. QED
      BY <2>6, <2>7, <3>1
  <2>9. CASE t = TAG_USER_ID
    <3>1. TlvsOf(p, o, TAG_USER_ID) = T \cup {o}
      BY <2>4, <2>9
    <3>2. result = Smashed
            <=> memory = Smashed \/ \E q \in TlvsOf(p, o, TAG_USER_ID) : p[q + 2] > 4
      BY <1>3, <1>8, <2>6, <2>9, <3>1
    <3>3. ASSUME memory # Smashed, \A q \in TlvsOf(p, o, TAG_USER_ID) : p[q + 2] = 4
          PROVE  \E q : IsLast(p, o, TAG_USER_ID, q) /\ result = htonl(TlvValue(p, q))
      <4>1. n = 4 /\ \A q \in T : p[q + 2] = 4
        BY <1>3, <3>1, <3>3
      <4>2. ~(n > 4)
        BY <4>1
      <4>3. next # Smashed /\ next = htonl(value)
        BY <1>8, <2>9, <3>3, <4>1, <4>2
      <4>4. CASE T = {}
        <5>1. IsLast(p, o, TAG_USER_ID, o)
          BY <1>1, <3>1, <4>4 DEF IsLast
        <5>2. result = htonl(TlvValue(p, o))
          BY <1>4, <2>6, <4>1, <4>3, <4>4
        <5>3. QED
          BY <5>1, <5>2
      <4>5. CASE T # {}
        BY <2>6, <2>7, <4>1, <4>3, <4>5
      <4>6. QED
        BY <4>4, <4>5
    <3>4. TlvsOf(p, o, TAG_USER_ID) # {}
      BY <3>1
    <3>5. QED
      BY <3>2, <3>3, <3>4
  <2>10. QED
    BY <2>8, <2>9
<1>10. QED
  BY <1>2, <1>7, <1>9 DEF IdRight

LEMMA IdRightAll ==
  ASSUME NEW p \in Seq(Uint8)
  PROVE  \A memory \in IdMemory : IdRight(p, 0, memory, IdAfter(p)[0][memory])
<1> DEFINE N == Len(p)
           after == IdAfter(p)
           S == {o \in 0 .. N : \A m \in IdMemory : IdRight(p, o, m, after[o][m])}
<1>1. N \in Nat
  BY LenProperties
<1>2. ASSUME NEW o \in 0 .. N, \A q \in o + 1 .. N : q \in S
      PROVE  o \in S
  <2>1. after[o] = IdStep(p, after, o)
    BY IdAfterStep
  <2>2. CASE o = N
    <3>1. ASSUME NEW m \in IdMemory
          PROVE  IdRight(p, o, m, after[o][m])
      <4>1. after[o][m] = m
        BY <2>1, <2>2 DEF IdStep
      <4>2. TlvsOf(p, o, TAG_USER_ID) = {}
        BY <2>2, CutEnd DEF TlvsOf
      <4>3. QED
        BY <4>1, <4>2 DEF IdRight
    <3>2. QED
      BY <3>1
  <2>3. CASE o # N /\ IsMalformed(UserFields, p, o)
    <3>1. PICK final : final = [malformed |-> TRUE, found |-> NoValues]
      OBVIOUS
    <3>2. final.malformed = TRUE
      BY <3>1
    <3>3. ~IsGood(UserFields, p, o)
      BY <2>3, <3>1, <3>2, ParsesMalformed DEF ParsesFrom
    <3>4. QED
      BY <3>3 DEF IdRight
  <2>4. CASE o # N /\ ~IsMalformed(UserFields, p, o)
    <3>1. PICK e : e = TlvEnd(p, o) /\ e \in o + 1 .. N
      BY <2>4, WholeTlv
    <3>2. ASSUME NEW m \in IdMemory
          PROVE  IdRight(p, o, m, after[o][m])
      <4>1. PICK next : next = IF p[o + 1] = TAG_USER_ID
                               THEN CopyId(m, TlvValue(p, o)) ELSE m
        OBVIOUS
      <4>2. next \in IdMemory
        BY <2>4, <4>1, IdRightTlv
      <4>3. after[o][m] = after[e][next]
        <5> HIDE DEF after
        <5> QED BY <2>1, <2>4, <3>1, <4>1 DEF IdStep
      <4>4. IdRight(p, e, next, after[e][next])
        BY <1>2, <3>1, <4>2
      <4>5. QED
        BY <2>4, <3>1, <4>1, <4>3, <4>4, IdRightTlv
    <3>3. QED
      BY <3>2
  <2>5. QED
    BY <2>2, <2>3, <2>4
<1>3. \A o \in 0 .. N : o \in S
  <2> HIDE DEF S, N
  <2> QED BY <1>1, <1>2, Downward
<1>4. QED
  BY <1>1, <1>3

LEMMA UserRight ==
  ASSUME NEW p \in Seq(Uint8), NEW r, r = ParseUser(p)
  PROVE  IsUserOf(r, p)
<1> DEFINE ids == TlvsOf(p, 0, TAG_USER_ID)
           names == TlvsOf(p, 0, TAG_USERNAME)
<1>1. PICK s : s = Parse(UserFields, p) /\ IsParseOf(s, UserFields, p)
  BY UserLimits, ParserCorrect
<1>2. /\ r.ok = s.ok /\ r.user_id = IdAfter(p)[0][Zeroed]
      /\ TAG_USERNAME \in DOMAIN s.found => r.username = s.found[TAG_USERNAME]
  BY <1>1, UserLeft
<1>3. r.ok <=> Acceptable(UserFields, p)
  BY <1>1, <1>2 DEF IsParseOf
<1>4. IdRight(p, 0, Zeroed, r.user_id) /\ Zeroed # Smashed
  BY <1>2, FreshId, IdRightAll
<1>5. ASSUME Cuts(p, 0) # {}, \A o \in names : p[o + 2] =< MAX_USERNAME_SIZE
      PROVE  IsGood(UserFields, p, 0)
  <2>1. ASSUME NEW q \in Tlvs(p, 0)
        PROVE  ~TooLong(UserFields, p[q + 1], p[q + 2])
    <3>1. q \in Nat /\ Fits(p, q)
      BY <1>5, TlvFits
    <3>2. p[q + 2] \in Uint8
      <4>1. q + 2 \in 1 .. Len(p)
        BY <3>1, LenProperties DEF Fits
      <4>2. QED
        BY <4>1, ElementOfSeq
    <3>3. PICK n \in Nat : n = p[q + 2] /\ n =< 255
      <4>1. PICK n \in Uint8 : n = p[q + 2]
        BY <3>2
      <4>2. n \in Nat /\ n =< 255
        BY DEF Uint8
      <4>3. QED
        BY <4>1, <4>2
    <3>4. p[q + 1] = TAG_USERNAME => n =< MAX_USERNAME_SIZE
      BY <1>5, <3>3 DEF TlvsOf
    <3>5. QED
      BY <3>3, <3>4, UserLimits, Limits DEF TooLong
  <2>2. QED
    BY <1>5, <2>1 DEF IsGood
<1>6. ASSUME r.ok, \A o \in ids : p[o + 2] = 4
      PROVE  /\ \A i \in 1 .. 4 : r.user_id[i] = p[Max(ids) + 7 - i]
             /\ r.username =
                  SubSeq(p, Max(names) + 3, Max(names) + 2 + p[Max(names) + 2])
  <2>1. /\ Cuts(p, 0) # {} /\ ids # {}
        /\ \A o \in names : p[o + 2] =< MAX_USERNAME_SIZE
    BY <1>3, <1>6, UserLimits DEF Acceptable
  <2>2. IsGood(UserFields, p, 0)
    BY <1>5, <2>1
  <2>3. PICK q : IsLast(p, 0, TAG_USER_ID, q) /\ r.user_id = htonl(TlvValue(p, q))
    BY <1>4, <1>6, <2>1, <2>2 DEF IdRight
  <2>4. Max(ids) = q /\ q \in Tlvs(p, 0) /\ p[q + 2] = 4
    BY <1>6, <2>3, LastIsMax DEF IsLast, TlvsOf
  <2>5. q \in Nat /\ Fits(p, q)
    BY <2>1, <2>4, TlvFits
  <2>6. PICK v \in Seq(Uint8) :
          v = TlvValue(p, q) /\ Len(v) = 4 /\ \A i \in 1 .. 4 : v[i] = p[q + 2 + i]
    <3>1. /\ TlvValue(p, q) \in Seq(Uint8) /\ Len(TlvValue(p, q)) = p[q + 2]
          /\ \A i \in 1 .. p[q + 2] : TlvValue(p, q)[i] = p[q + 2 + i]
      BY <2>5, ValueInside
    <3>2. QED
      BY <2>4, <3>1
  <2>7. htonl(v) = [i \in 1 .. 4 |-> v[(4 - i) + 1]]
    BY <2>6 DEF htonl, Reverse
  <2>8. ASSUME NEW i \in 1 .. 4
        PROVE  r.user_id[i] = p[q + 7 - i]
    <3>1. (4 - i) + 1 \in 1 .. 4 /\ q + 2 + ((4 - i) + 1) = q + 7 - i
      BY <2>5
    <3>2. htonl(v)[i] = v[(4 - i) + 1]
      BY <2>7
    <3>3. v[(4 - i) + 1] = p[q + 2 + ((4 - i) + 1)]
      BY <2>6, <3>1
    <3>4. QED
      BY <2>3, <2>6, <3>1, <3>2, <3>3
  <2>9. /\ TAG_USERNAME \in DOMAIN s.found
        /\ s.found[TAG_USERNAME] =
             SubSeq(p, Max(names) + 3, Max(names) + 2 + p[Max(names) + 2])
    BY <1>1, <1>2, <1>6, UserLimits DEF IsParseOf
  <2>10. QED
    BY <1>2, <2>4, <2>8, <2>9
<1>7. QED
  <2>1. Cuts(p, 0) # {} /\ (\A o \in names : p[o + 2] =< MAX_USERNAME_SIZE) =>
          (r.user_id = Smashed <=> \E o \in ids : p[o + 2] > 4)
    BY <1>4, <1>5 DEF IdRight
  <2>2. QED
    BY <1>3, <1>6, <2>1 DEF IsUserOf

(***************************************************************************)
(* parse_register_response and parse_login_response, on payloads of every  *)
(* length over every byte: the id and the name are right when the ids have *)
(* the four bytes of a uint32_t, and the unchecked memcpy leaves the id's  *)
(* memory exactly when one of them has more.                               *)
(***************************************************************************)
THEOREM UsersParsed == Spec => []ParsesUsers
<1>1. RelayInv => ParsesUsers
  <2> SUFFICES ASSUME RelayInv, stage = "raw" PROVE ParsesUsers
    BY DEF ParsesUsers
  <2>1. payload \in Seq(Uint8)
    BY DEF RelayInv
  <2>2. QED
    BY <2>1, UserRight DEF ParsesUsers, parse_register_response, parse_login_response
<1>2. QED
  BY <1>1, RelayInvariant, PTL

=============================================================================
