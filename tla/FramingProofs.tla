--------------------------- MODULE FramingProofs ---------------------------
(***************************************************************************)
(* The framing of one connection is right for every message, every length  *)
(* and every way to cut the bytes: BytesConserved is an invariant, and     *)
(* both directions implement MessageQueue.                                 *)
(***************************************************************************)
EXTENDS Framing, SequenceTheorems, WellFoundedInduction, TLAPS

(* Induction from k to N, for a set: the least number that is not in it    *)
(* would have its predecessor in it.                                       *)
LEMMA SetInduction ==
  ASSUME NEW k \in Nat, NEW N \in Nat, NEW S, k \in S,
         \A n \in k + 1 .. N : n - 1 \in S => n \in S
  PROVE  \A n \in k .. N : n \in S
<1> DEFINE Less == {ss \in Nat \X Nat : ss[1] < ss[2]}
           T == {n \in k .. N : n \notin S}
<1>1. IsWellFoundedOn(Less, Nat)
  BY NatLessThanWellFounded, Zenon DEF OpToRel
<1>2. SUFFICES ASSUME T # {} PROVE FALSE
  OBVIOUS
<1>3. T \subseteq Nat
  OBVIOUS
<1>4. PICK x \in T : \A y \in T : ~ (<<y, x>> \in Less)
  <2> HIDE DEF Less, T
  <2> QED BY <1>1, <1>2, <1>3, WFMin
<1>5. x \in k + 1 .. N /\ x - 1 \in k .. N /\ <<x - 1, x>> \in Less
  OBVIOUS
<1>6. x - 1 \in S
  <2>1. x - 1 \notin T
    BY <1>4, <1>5
  <2>2. QED
    BY <1>5, <2>1
<1>7. QED
  BY <1>5, <1>6

-----------------------------------------------------------------------------
(* Two pieces of a byte stream. *)
LEMMA Joined ==
  ASSUME NEW a \in Seq(Byte), NEW b \in Seq(Byte)
  PROVE  /\ a \o b \in Seq(Byte) /\ Len(a) \in Nat /\ Len(b) \in Nat
         /\ Len(a \o b) = Len(a) + Len(b)
         /\ \A i \in 1 .. Len(a) : (a \o b)[i] = a[i]
         /\ \A i \in 1 .. Len(b) : (a \o b)[Len(a) + i] = b[i]
<1>1. Len(a) \in Nat /\ Len(b) \in Nat
  BY LenProperties
<1>2. /\ a \o b \in Seq(Byte) /\ Len(a \o b) = Len(a) + Len(b)
      /\ \A i \in 1 .. Len(a) + Len(b) :
           (a \o b)[i] = IF i =< Len(a) THEN a[i] ELSE b[i - Len(a)]
  BY ConcatProperties
<1>3. ASSUME NEW i \in 1 .. Len(a)
      PROVE  (a \o b)[i] = a[i]
  <2>1. i \in 1 .. Len(a) + Len(b) /\ i =< Len(a)
    BY <1>1
  <2>2. QED
    BY <1>2, <2>1
<1>4. ASSUME NEW i \in 1 .. Len(b)
      PROVE  (a \o b)[Len(a) + i] = b[i]
  <2>1. /\ Len(a) + i \in 1 .. Len(a) + Len(b) /\ ~(Len(a) + i =< Len(a))
        /\ (Len(a) + i) - Len(a) = i
    BY <1>1
  <2>2. QED
    BY <1>2, <2>1
<1>5. QED
  BY <1>1, <1>2, <1>3, <1>4

-----------------------------------------------------------------------------
(* The wire format. *)

(* ntohl undoes htonl: for a length below 2^32. *)
LEMMA LengthKept ==
  ASSUME NEW n \in Nat, n \div 2^24 < 256
  PROVE  ntohl(htonl(n)) = n
<1>1. 2^24 = 16777216 /\ 2^16 = 65536 /\ 2^8 = 256
  BY SMT
<1>2. (n \div 2^24) % 256 = n \div 2^24
  BY <1>1, SMT
<1>3. QED
  BY <1>1, <1>2, SMT DEF ntohl, htonl

(* The header and the payload of an encoded message. *)
LEMMA Encoded ==
  ASSUME NEW m \in Message
  PROVE  /\ Encode(m) \in Seq(Byte)
         /\ Len(m.payload) \in Nat /\ Len(Encode(m)) = MSG_HEADER_SIZE + Len(m.payload)
         /\ Encode(m)[2] = m.type /\ Encode(m)[3] = m.rc
         /\ \A i \in 1 .. 4 : Encode(m)[3 + i] = htonl(Len(m.payload))[i]
         /\ \A i \in 1 .. Len(m.payload) : Encode(m)[MSG_HEADER_SIZE + i] = m.payload[i]
<1>1. m.type \in Byte /\ m.rc \in Byte /\ m.payload \in Seq(Byte)
  BY DEF Message
<1>2. PICK n \in Nat : n = Len(m.payload)
  BY <1>1, LenProperties
<1>3. <<1, m.type, m.rc>> \in Seq(Byte)
  BY <1>1 DEF Byte
<1>4. PICK h \in Seq(Byte) :
        h = <<1, m.type, m.rc>> /\ Len(h) = 3 /\ h[2] = m.type /\ h[3] = m.rc
  BY <1>3
<1>5. htonl(n) \in Seq(Byte) /\ Len(htonl(n)) = 4
  <2>1. 2^24 = 16777216 /\ 2^16 = 65536 /\ 2^8 = 256
    BY SMT
  <2>2. /\ (n \div 2^24) % 256 \in Byte /\ (n \div 2^16) % 256 \in Byte
        /\ (n \div 2^8) % 256 \in Byte /\ n % 256 \in Byte
    BY <2>1, SMT DEF Byte
  <2>3. QED
    BY <2>2 DEF htonl
<1>6. PICK l \in Seq(Byte) : l = htonl(n) /\ Len(l) = 4
  BY <1>5
<1>7. PICK hl \in Seq(Byte) : hl = h \o l
  BY Joined
<1>8. PICK p \in Seq(Byte) : p = m.payload
  BY <1>1
<1>9. PICK e \in Seq(Byte) : e = hl \o p
  BY Joined
<1>10. Encode(m) = e
  BY <1>2, <1>4, <1>6, <1>7, <1>8, <1>9 DEF Encode
<1>11. /\ Len(hl) = Len(h) + Len(l)
       /\ \A i \in 1 .. Len(h) : hl[i] = h[i]
       /\ \A i \in 1 .. Len(l) : hl[Len(h) + i] = l[i]
  BY <1>7, Joined
<1>12. /\ Len(e) = Len(hl) + Len(p)
       /\ \A i \in 1 .. Len(hl) : e[i] = hl[i]
       /\ \A i \in 1 .. Len(p) : e[Len(hl) + i] = p[i]
  BY <1>9, Joined
<1>13. Len(h) = 3 /\ Len(l) = 4 /\ Len(p) = n
  BY <1>2, <1>4, <1>6, <1>8
<1>14. Len(hl) = 7 /\ Len(e) = 7 + n
  BY <1>11, <1>12, <1>13
<1>15. e[2] = m.type /\ e[3] = m.rc
  <2>1. e[2] = h[2] /\ e[3] = h[3]
    BY <1>11, <1>12, <1>13, <1>14
  <2>2. QED
    BY <1>4, <2>1
<1>16. \A i \in 1 .. 4 : e[3 + i] = l[i]
  BY <1>11, <1>12, <1>13, <1>14
<1>17. \A i \in 1 .. n : e[7 + i] = p[i]
  BY <1>12, <1>13, <1>14
<1>18. QED
  BY <1>2, <1>6, <1>8, <1>10, <1>14, <1>15, <1>16, <1>17 DEF MSG_HEADER_SIZE

(* Three pieces may be put together either way. *)
Regroup(a, b, c) == (a \o b) \o c = a \o (b \o c)

(* They always may. *)
LEMMA Assoc3 ==
  ASSUME NEW a \in Seq(Byte), NEW b \in Seq(Byte), NEW c \in Seq(Byte)
  PROVE  Regroup(a, b, c)
  BY ConcatAssociative DEF Regroup

(* Four pieces: the last two, or the middle two, may come in other parts. *)
Regroups(a, b, c, d) ==
  /\ a \o b \o c \o d = a \o (b \o (c \o d))
  /\ a \o b \o c \o d = a \o ((b \o c) \o d)

(* They always may. *)
LEMMA Assoc4 ==
  ASSUME NEW a \in Seq(Byte), NEW b \in Seq(Byte), NEW c \in Seq(Byte), NEW d \in Seq(Byte)
  PROVE  Regroups(a, b, c, d)
<1>1. (b \o c) \o d = b \o (c \o d)
  <2>1. Regroup(b, c, d)
    BY Assoc3
  <2>2. QED
    BY <2>1, Zenon DEF Regroup
<1>2. PICK ab \in Seq(Byte) : ab = a \o b
  BY Joined
<1>3. PICK cd \in Seq(Byte) : cd = c \o d
  BY Joined
<1>4. (ab \o c) \o d = ab \o (c \o d)
  <2>1. Regroup(ab, c, d)
    BY Assoc3
  <2>2. QED
    BY <2>1, Zenon DEF Regroup
<1>5. (a \o b) \o cd = a \o (b \o cd)
  <2>1. Regroup(a, b, cd)
    BY Assoc3
  <2>2. QED
    BY <2>1, Zenon DEF Regroup
<1>6. a \o b \o c \o d = a \o (b \o (c \o d))
  BY <1>2, <1>3, <1>4, <1>5
<1>7. QED
  BY <1>1, <1>6, Zenon DEF Regroups

(* read(), write() and recv() move bytes and lose none. *)
LEMMA Moved ==
  ASSUME NEW from \in Seq(Byte), NEW to \in Seq(Byte), NEW n \in 0 .. Len(from)
  PROVE  /\ Transfer(n, from, to) \in Seq(Byte) /\ buf_consume(from, n) \in Seq(Byte)
         /\ Transfer(n, from, to) \o buf_consume(from, n) = to \o from
         /\ Len(Transfer(n, from, to)) = Len(to) + n
<1>1. Len(from) \in Nat /\ \A i \in 1 .. Len(from) : from[i] \in Byte
  BY LenProperties, ElementOfSeq
<1>2. SubSeq(from, 1, n) \in Seq(Byte) /\ Len(SubSeq(from, 1, n)) = n
  BY <1>1, SubSeqProperties
<1>3. SubSeq(from, n + 1, Len(from)) \in Seq(Byte)
  BY <1>1, SubSeqProperties
<1>4. PICK x \in Seq(Byte) : x = SubSeq(from, 1, n) /\ Len(x) = n
  BY <1>2
<1>5. PICK y \in Seq(Byte) : y = SubSeq(from, n + 1, Len(from))
  BY <1>3
<1>6. x \o y = from
  <2>1. 1 \in 1 .. Len(from) + 1 /\ n \in 1 - 1 .. Len(from) /\ Len(from) \in n .. Len(from)
    BY <1>1
  <2>2. SubSeq(from, 1, n) \o SubSeq(from, n + 1, Len(from)) = SubSeq(from, 1, Len(from))
    BY <2>1, ConcatAdjacentSubSeq
  <2>3. QED
    BY <1>4, <1>5, <2>2, SubSeqFull
<1>7. (to \o x) \o y = to \o from
  <2>1. (to \o x) \o y = to \o (x \o y)
    <3>1. Regroup(to, x, y)
      BY Assoc3
    <3>2. QED
      BY <3>1, Zenon DEF Regroup
  <2>2. QED
    BY <1>6, <2>1, Zenon
<1>8. to \o x \in Seq(Byte) /\ Len(to \o x) = Len(to) + Len(x)
  BY <1>4, Joined
<1>9. QED
  BY <1>4, <1>5, <1>7, <1>8 DEF Transfer, buf_consume
-----------------------------------------------------------------------------
(* b[n] is the bytes of the first n messages of ms. *)
PrefixBytes(b, ms) ==
  /\ b \in [0 .. Len(ms) -> Seq(Byte)]
  /\ b[0] = << >>
  /\ \A n \in 1 .. Len(ms) : b[n] = b[n - 1] \o Encode(ms[n])

(* The same for the first N messages, whatever else c is. *)
PrefixesTo(c, N, ms) ==
  c[0] = << >> /\ \A n \in 1 .. N : c[n] = c[n - 1] \o Encode(ms[n])

(* There is such a function, for every sequence of messages. *)
LEMMA PrefixesExist ==
  ASSUME NEW ms \in Seq(Message)
  PROVE  \E b : PrefixBytes(b, ms)
<1> DEFINE N == Len(ms)
           Up(b, n) == /\ b \in [0 .. n -> Seq(Byte)]
                       /\ b[0] = << >>
                       /\ \A i \in 1 .. n : b[i] = b[i - 1] \o Encode(ms[i])
           S == {n \in 0 .. N : \E b : Up(b, n)}
<1>1. N \in Nat /\ \A i \in 1 .. N : ms[i] \in Message
  BY LenProperties, ElementOfSeq
<1>2. 0 \in S
  <2>1. << >> \in Seq(Byte)
    BY EmptySeq
  <2>2. Up([i \in 0 .. 0 |-> << >>], 0)
    BY <2>1
  <2>3. 0 \in 0 .. N
    BY <1>1
  <2> HIDE DEF Up
  <2>4. QED
    BY <2>2, <2>3
<1>3. ASSUME NEW n \in 1 .. N, n - 1 \in S
      PROVE  n \in S
  <2>1. PICK b : Up(b, n - 1)
    BY <1>3
  <2>2. PICK e \in Seq(Byte) : e = b[n - 1] \o Encode(ms[n])
    <3>1. b[n - 1] \in Seq(Byte)
      BY <1>1, <2>1
    <3>2. Encode(ms[n]) \in Seq(Byte)
      BY <1>1, Encoded
    <3>3. QED
      BY <3>1, <3>2, Joined
  <2>3. PICK c : c = [i \in 0 .. n |-> IF i = n THEN e ELSE b[i]]
    OBVIOUS
  <2>4. c[n] = e /\ c[n - 1] = b[n - 1] /\ \A i \in 0 .. n - 1 : c[i] = b[i]
    BY <1>1, <2>3
  <2>5. c \in [0 .. n -> Seq(Byte)] /\ c[0] = << >>
    BY <1>1, <2>1, <2>3, <2>4
  <2>6. ASSUME NEW i \in 1 .. n
        PROVE  c[i] = c[i - 1] \o Encode(ms[i])
    <3>1. CASE i = n
      BY <2>2, <2>4, <3>1
    <3>2. CASE i # n
      <4>1. i \in 1 .. n - 1 /\ i \in 0 .. n - 1 /\ i - 1 \in 0 .. n - 1
        BY <1>1, <3>2
      <4>2. c[i] = b[i] /\ c[i - 1] = b[i - 1]
        BY <2>4, <4>1
      <4>3. b[i] = b[i - 1] \o Encode(ms[i])
        BY <2>1, <4>1
      <4>4. QED
        BY <4>2, <4>3
    <3>3. QED
      BY <3>1, <3>2
  <2>7. Up(c, n)
    BY <2>5, <2>6
  <2>8. n \in 0 .. N
    BY <1>1
  <2> HIDE DEF Up
  <2>9. QED
    BY <2>7, <2>8
<1>4. N \in S
  <2> HIDE DEF S
  <2>1. \A n \in 0 + 1 .. N : n - 1 \in S => n \in S
    BY <1>3
  <2>2. \A n \in 0 .. N : n \in S
    BY <1>1, <1>2, <2>1, SetInduction
  <2>3. QED
    BY <1>1, <2>2
<1>5. QED
  BY <1>4 DEF PrefixBytes

(* There is only one. *)
LEMMA PrefixesUnique ==
  ASSUME NEW ms \in Seq(Message), NEW b, PrefixBytes(b, ms), NEW c, NEW N \in 0 .. Len(ms),
         PrefixesTo(c, N, ms)
  PROVE  \A n \in 0 .. N : b[n] = c[n]
<1> DEFINE S == {n \in 0 .. N : b[n] = c[n]}
<1>1. Len(ms) \in Nat
  BY LenProperties
<1>2. 0 \in S
  BY <1>1 DEF PrefixBytes, PrefixesTo
<1>3. ASSUME NEW n \in 1 .. N, n - 1 \in S
      PROVE  n \in S
  <2>1. n \in 1 .. Len(ms) /\ n \in 0 .. N
    BY <1>1
  <2>2. b[n] = b[n - 1] \o Encode(ms[n]) /\ c[n] = c[n - 1] \o Encode(ms[n])
    BY <2>1 DEF PrefixBytes, PrefixesTo
  <2>3. b[n - 1] = c[n - 1]
    BY <1>3
  <2>4. b[n] = c[n]
    BY <2>2, <2>3
  <2>5. QED
    BY <2>1, <2>4
<1>4. \A n \in 0 .. N : n \in S
  <2> HIDE DEF S
  <2>1. \A n \in 0 + 1 .. N : n - 1 \in S => n \in S
    BY <1>3
  <2>2. N \in Nat /\ 0 \in Nat
    BY <1>1
  <2>3. QED
    BY <1>2, <2>1, <2>2, SetInduction
<1>5. QED
  BY <1>4

(* Bytes is its last value: the recursion is well-defined. *)
LEMMA BytesPrefixes ==
  ASSUME NEW ms \in Seq(Message), NEW b, PrefixBytes(b, ms)
  PROVE  Bytes(ms) = b[Len(ms)]
<1> DEFINE D == 0 .. Len(ms)
           F(g) == [n \in D |-> IF n = 0 THEN << >> ELSE g[n - 1] \o Encode(ms[n])]
           c == CHOOSE g : g = F(g)
<1>1. Len(ms) \in Nat
  BY LenProperties
<1>2. b = F(b)
  <2>1. b = [n \in D |-> b[n]]
    BY DEF PrefixBytes
  <2>2. ASSUME NEW n \in D
        PROVE  b[n] = F(b)[n]
    <3>1. n = 0 \/ n \in 1 .. Len(ms)
      BY <1>1
    <3>2. QED
      BY <3>1 DEF PrefixBytes
  <2>3. QED
    BY <2>1, <2>2
<1>3. c = F(c)
  <2> HIDE DEF F
  <2>1. QED
    BY <1>2
<1>4. Bytes(ms) = c[Len(ms)]
  BY DEF Bytes
<1>5. PICK d : d = c /\ d = F(d)
  BY <1>3
<1>6. PrefixesTo(d, Len(ms), ms)
  <2>1. ASSUME NEW n \in D
        PROVE  d[n] = IF n = 0 THEN << >> ELSE d[n - 1] \o Encode(ms[n])
    BY <1>5
  <2>2. 0 \in D /\ \A n \in 1 .. Len(ms) : n \in D /\ n # 0
    BY <1>1
  <2>3. QED
    BY <2>1, <2>2 DEF PrefixesTo
<1>7. Len(ms) \in 0 .. Len(ms)
  BY <1>1
<1>8. \A n \in 0 .. Len(ms) : b[n] = d[n]
  BY <1>6, <1>7, PrefixesUnique
<1>9. QED
  BY <1>4, <1>5, <1>7, <1>8
(* They are bytes. *)
LEMMA BytesType ==
  ASSUME NEW ms \in Seq(Message)
  PROVE  Bytes(ms) \in Seq(Byte)
<1>1. PICK b : PrefixBytes(b, ms)
  BY PrefixesExist
<1>2. Len(ms) \in 0 .. Len(ms)
  BY LenProperties
<1>3. QED
  BY <1>1, <1>2, BytesPrefixes DEF PrefixBytes

(* The bytes of one message more. *)
LEMMA BytesAppend ==
  ASSUME NEW ms \in Seq(Message), NEW m \in Message
  PROVE  Bytes(Append(ms, m)) = Bytes(ms) \o Encode(m)
<1>1. PICK t \in Seq(Message) : t = Append(ms, m)
  BY AppendProperties
<1>2. Len(ms) \in Nat /\ Len(t) = Len(ms) + 1 /\ t[Len(ms) + 1] = m
      /\ \A i \in 1 .. Len(ms) : t[i] = ms[i]
  BY <1>1, AppendProperties, LenProperties
<1>3. PICK b : PrefixBytes(b, ms)
  BY PrefixesExist
<1>4. PICK c : PrefixBytes(c, t)
  BY PrefixesExist
<1>5. Bytes(ms) = b[Len(ms)] /\ Bytes(t) = c[Len(ms) + 1]
  BY <1>2, <1>3, <1>4, BytesPrefixes
<1>6. PrefixesTo(c, Len(ms), ms)
  <2>1. \A n \in 1 .. Len(ms) : n \in 1 .. Len(t)
    BY <1>2
  <2>2. QED
    BY <1>2, <1>4, <2>1 DEF PrefixBytes, PrefixesTo
<1>7. Len(ms) \in 0 .. Len(ms) /\ Len(ms) + 1 \in 1 .. Len(t)
      /\ (Len(ms) + 1) - 1 = Len(ms)
  BY <1>2
<1>8. b[Len(ms)] = c[Len(ms)]
  BY <1>3, <1>6, <1>7, PrefixesUnique
<1>9. c[Len(ms) + 1] = c[Len(ms)] \o Encode(m)
  BY <1>2, <1>4, <1>7 DEF PrefixBytes
<1>10. QED
  BY <1>1, <1>5, <1>8, <1>9

(* No message, no bytes. *)
LEMMA BytesNothing == Bytes(<< >>) = << >>
<1>1. << >> \in Seq(Message) /\ Len(<< >>) = 0
  BY EmptySeq
<1>2. PICK b : PrefixBytes(b, << >>)
  BY <1>1, PrefixesExist
<1>3. Bytes(<< >>) = b[0]
  BY <1>1, <1>2, BytesPrefixes
<1>4. QED
  BY <1>2, <1>3 DEF PrefixBytes

(* sv is what was taken first of ms. *)
TakenOf(sv, ms) == Len(sv) =< Len(ms) /\ \A i \in 1 .. Len(sv) : sv[i] = ms[i]

(* What follows the bytes of the messages taken is the next message. *)
LEMMA BytesSplit ==
  ASSUME NEW ms \in Seq(Message), NEW sv \in Seq(Message), TakenOf(sv, ms),
         Len(sv) < Len(ms)
  PROVE  \E t \in Seq(Byte) : Bytes(ms) = (Bytes(sv) \o Encode(ms[Len(sv) + 1])) \o t
<1>1. PICK k \in Nat : k = Len(sv)
  BY LenProperties
<1>2. PICK N \in Nat : N = Len(ms) /\ \A i \in 1 .. N : ms[i] \in Message
  BY LenProperties, ElementOfSeq
<1>3. PICK b : PrefixBytes(b, ms)
  BY PrefixesExist
<1>4. PICK c : PrefixBytes(c, sv)
  BY PrefixesExist
<1>5. Bytes(ms) = b[N] /\ Bytes(sv) = c[k]
  BY <1>1, <1>2, <1>3, <1>4, BytesPrefixes
<1>6. b[k] = c[k]
  <2>1. PrefixesTo(c, k, ms)
    BY <1>1, <1>4 DEF TakenOf, PrefixBytes, PrefixesTo
  <2>2. k \in 0 .. Len(ms) /\ k \in 0 .. k
    BY <1>1, <1>2
  <2>3. QED
    BY <1>3, <2>1, <2>2, PrefixesUnique
<1>7. k + 1 \in 1 .. N /\ (k + 1) - 1 = k /\ k + 1 \in 0 .. N
  BY <1>1, <1>2
<1>8. b[k + 1] = Bytes(sv) \o Encode(ms[k + 1]) /\ b[k + 1] \in Seq(Byte)
  BY <1>2, <1>3, <1>5, <1>6, <1>7 DEF PrefixBytes
<1>9. PICK a \in Seq(Byte) : a = b[k + 1]
  BY <1>8
<1> DEFINE S == {n \in k + 1 .. N : \E t \in Seq(Byte) : b[n] = a \o t}
<1>10. k + 1 \in S
  <2>1. << >> \in Seq(Byte) /\ a \o << >> = a
    BY EmptySeq, ConcatEmptySeq
  <2>2. \E t \in Seq(Byte) : b[k + 1] = a \o t
    BY <1>9, <2>1, Zenon
  <2>3. k + 1 \in k + 1 .. N
    BY <1>7
  <2>4. QED
    BY <2>2, <2>3
<1>11. ASSUME NEW n \in (k + 1) + 1 .. N, n - 1 \in S
       PROVE  n \in S
  <2>1. PICK t \in Seq(Byte) : b[n - 1] = a \o t
    BY <1>11
  <2>2. n \in 1 .. N /\ n \in k + 1 .. N
    BY <1>2, <1>7
  <2>3. PICK e \in Seq(Byte) : e = Encode(ms[n])
    BY <1>2, <2>2, Encoded
  <2>4. b[n] = b[n - 1] \o e
    BY <1>2, <1>3, <2>2, <2>3 DEF PrefixBytes
  <2>5. (a \o t) \o e = a \o (t \o e)
    <3>1. Regroup(a, t, e)
      BY Assoc3
    <3>2. QED
      BY <3>1, Zenon DEF Regroup
  <2>6. PICK u \in Seq(Byte) : u = t \o e
    BY Joined
  <2>7. b[n] = a \o u
    BY <2>1, <2>4, <2>5, <2>6
  <2>8. QED
    BY <2>2, <2>7
<1>12. N \in S
  <2> HIDE DEF S
  <2>1. \A n \in (k + 1) + 1 .. N : n - 1 \in S => n \in S
    BY <1>11
  <2>2. k + 1 \in Nat /\ N \in k + 1 .. N
    BY <1>7
  <2>3. \A n \in k + 1 .. N : n \in S
    BY <1>10, <2>1, <2>2, SetInduction
  <2>4. QED
    BY <2>2, <2>3
<1>13. PICK t \in Seq(Byte) : b[N] = a \o t
  BY <1>12
<1>14. QED
  BY <1>1, <1>5, <1>8, <1>9, <1>13
-----------------------------------------------------------------------------
(***************************************************************************)
(* A reader that stands at the start of a message and has at least the     *)
(* bytes that the header calls for finds exactly the next message, and     *)
(* stands at the start of the one after it when it has consumed these.     *)
(***************************************************************************)
LEMMA CutMessage ==
  ASSUME NEW ms \in Seq(Message), NEW sv \in Seq(Message), TakenOf(sv, ms),
         NEW buf \in Seq(Byte), NEW rest \in Seq(Byte),
         Bytes(ms) = Bytes(sv) \o (buf \o rest),
         Len(buf) >= MSG_HEADER_SIZE, Len(buf) >= MSG_HEADER_SIZE + payload_length(buf)
  PROVE  /\ Len(sv) < Len(ms)
         /\ parse_message(buf) = ms[Len(sv) + 1]
         /\ MSG_HEADER_SIZE + payload_length(buf) \in 0 .. Len(buf)
         /\ Bytes(ms) = Bytes(Append(sv, ms[Len(sv) + 1]))
              \o (buf_consume(buf, MSG_HEADER_SIZE + payload_length(buf)) \o rest)
<1>1. /\ Len(sv) \in Nat /\ Len(ms) \in Nat /\ Len(buf) \in Nat /\ Len(rest) \in Nat
      /\ \A i \in 1 .. Len(ms) : ms[i] \in Message
  BY LenProperties, ElementOfSeq
<1>2. PICK B \in Seq(Byte) : B = Bytes(sv)
  BY BytesType
<1>3. PICK r \in Seq(Byte) : r = buf \o rest /\ Len(r) = Len(buf) + Len(rest)
  BY Joined
<1>4. Len(sv) < Len(ms)
  <2>1. SUFFICES ASSUME Len(sv) = Len(ms) PROVE FALSE
    BY <1>1 DEF TakenOf
  <2>2. sv = ms
    BY <2>1, SeqEqual DEF TakenOf
  <2>3. B \o r = B
    BY <1>2, <1>3, <2>2
  <2>4. r = << >>
    BY <2>3, ConcatEqualIffEmpty
  <2>5. QED
    BY <1>1, <1>3, <2>4, EmptySeq DEF MSG_HEADER_SIZE
<1>5. PICK m \in Message : m = ms[Len(sv) + 1]
  BY <1>1, <1>4
<1>6. PICK e \in Seq(Byte) : e = Encode(m)
  BY Encoded
<1>7. PICK t \in Seq(Byte) : Bytes(ms) = (B \o e) \o t
  BY <1>2, <1>4, <1>5, <1>6, BytesSplit
<1>8. r = e \o t
  <2>1. (B \o e) \o t = B \o (e \o t)
    <3>1. Regroup(B, e, t)
      BY Assoc3
    <3>2. QED
      BY <3>1, Zenon DEF Regroup
  <2>2. PICK et \in Seq(Byte) : et = e \o t
    BY Joined
  <2>3. B \o r = B \o et
    BY <1>2, <1>3, <1>7, <2>1, <2>2
  <2>4. r = et
    BY <2>3, ConcatSimplifications
  <2>5. QED
    BY <2>2, <2>4
<1>9. PICK n \in Nat : n = Len(m.payload)
  BY Encoded
<1>10. /\ Len(e) = 7 + n /\ e[2] = m.type /\ e[3] = m.rc
       /\ \A i \in 1 .. 4 : e[3 + i] = htonl(n)[i]
       /\ \A i \in 1 .. n : e[7 + i] = m.payload[i]
  BY <1>6, <1>9, Encoded DEF MSG_HEADER_SIZE
<1>11. /\ \A i \in 1 .. Len(buf) : r[i] = buf[i]
       /\ \A i \in 1 .. Len(e) : r[i] = e[i]
  <2>1. \A i \in 1 .. Len(buf) : r[i] = buf[i]
    BY <1>3, Joined
  <2>2. \A i \in 1 .. Len(e) : r[i] = e[i]
    BY <1>8, Joined
  <2>3. QED
    BY <2>1, <2>2
<1>12. /\ Len(buf) >= 7
       /\ \A i \in 1 .. 7 : buf[i] = e[i] /\ buf[i] \in Byte
  <2>1. Len(buf) >= 7 /\ Len(e) >= 7 /\ Len(e) \in Nat
    <3>1. Len(e) = 7 + n
      BY <1>10
    <3>2. QED
      BY <1>1, <1>9, <3>1 DEF MSG_HEADER_SIZE
  <2>2. \A i \in 1 .. Len(buf) : buf[i] \in Byte
    BY ElementOfSeq
  <2>3. \A i \in 1 .. 7 : i \in 1 .. Len(buf) /\ i \in 1 .. Len(e)
    BY <1>1, <2>1
  <2>4. QED
    BY <1>11, <2>1, <2>2, <2>3
<1>13. payload_length(buf) = n
  <2>1. PICK l : l = SubSeq(buf, 4, 7)
    OBVIOUS
  <2>2. \A i \in 4 .. 7 : buf[i] \in Byte
    <3>1. \A i \in 4 .. 7 : i \in 1 .. 7
      OBVIOUS
    <3>2. QED
      BY <1>12, <3>1, Zenon
  <2>3. \A i \in 1 .. 4 : l[i] = buf[3 + i]
    BY <2>1, <2>2, SubSeqProperties
  <2>4. \A i \in 1 .. 4 : l[i] = htonl(n)[i]
    <3>1. ASSUME NEW i \in 1 .. 4
          PROVE  buf[3 + i] = e[3 + i]
      <4>1. 3 + i \in 1 .. 7
        OBVIOUS
      <4>2. QED
        BY <1>12, <4>1
    <3>2. QED
      BY <1>10, <2>3, <3>1
  <2>5. ntohl(l) = ntohl(htonl(n))
    <3>1. 1 \in 1 .. 4 /\ 2 \in 1 .. 4 /\ 3 \in 1 .. 4 /\ 4 \in 1 .. 4
      OBVIOUS
    <3>2. /\ l[1] = htonl(n)[1] /\ l[2] = htonl(n)[2]
          /\ l[3] = htonl(n)[3] /\ l[4] = htonl(n)[4]
      BY <2>4, <3>1, Zenon
    <3>3. QED
      BY <3>2, Zenon DEF ntohl
  <2>6. ntohl(htonl(n)) = n
    BY <1>9, LengthKept DEF Message
  <2>7. QED
    BY <2>1, <2>5, <2>6 DEF payload_length
<1>14. PICK L \in Nat : L = 7 + n
  BY <1>9
<1>15. /\ MSG_HEADER_SIZE + payload_length(buf) = L /\ L = Len(e) /\ L \in 0 .. Len(buf)
  BY <1>1, <1>10, <1>13, <1>14 DEF MSG_HEADER_SIZE
<1>16. \A i \in 1 .. L : buf[i] = e[i]
  <2>1. \A i \in 1 .. L : i \in 1 .. Len(buf) /\ i \in 1 .. Len(e)
    BY <1>1, <1>15
  <2>2. QED
    BY <1>11, <2>1
<1>17. parse_message(buf) = m
  <2>1. PICK p : p = SubSeq(buf, 8, L)
    OBVIOUS
  <2>2. \A i \in 8 .. L : buf[i] \in Byte
    <3>1. \A i \in 8 .. L : i \in 1 .. Len(buf)
      BY <1>1, <1>15
    <3>2. QED
      BY <3>1, ElementOfSeq
  <2>3. p \in Seq(Byte) /\ Len(p) = n /\ \A i \in 1 .. n : p[i] = buf[7 + i]
    <3>1. /\ SubSeq(buf, 8, L) \in Seq(Byte)
          /\ Len(SubSeq(buf, 8, L)) = IF 8 =< L THEN (L - 8) + 1 ELSE 0
          /\ \A i \in 1 .. (L - 8) + 1 : SubSeq(buf, 8, L)[i] = buf[(8 + i) - 1]
      BY <1>14, <2>2, SubSeqProperties, SMTT(30)
    <3>2. (L - 8) + 1 = n /\ (8 =< L <=> n # 0) /\ \A i \in Nat : (8 + i) - 1 = 7 + i
      BY <1>14
    <3>3. QED
      BY <2>1, <3>1, <3>2, SMTT(30)
  <2>4. \A i \in 1 .. n : p[i] = m.payload[i]
    <3>1. ASSUME NEW i \in 1 .. n
          PROVE  buf[7 + i] = e[7 + i]
      BY <1>14, <1>16
    <3>2. QED
      BY <1>10, <2>3, <3>1
  <2>5. m.payload \in Seq(Byte)
    BY DEF Message
  <2>6. p = m.payload
    BY <1>9, <2>3, <2>4, <2>5, SeqEqual, SMTT(30)
  <2>7. buf[2] = m.type /\ buf[3] = m.rc
    BY <1>10, <1>12
  <2>8. parse_message(buf) = [type |-> m.type, rc |-> m.rc, payload |-> m.payload]
    <3>1. MSG_HEADER_SIZE + 1 = 8
      BY DEF MSG_HEADER_SIZE
    <3>2. SubSeq(buf, MSG_HEADER_SIZE + 1, MSG_HEADER_SIZE + payload_length(buf)) = m.payload
      BY <1>15, <2>1, <2>6, <3>1
    <3>3. QED
      BY <2>7, <3>2 DEF parse_message
  <2>9. QED
    BY <2>8 DEF Message
<1>18. PICK x \in Seq(Byte) : x = buf_consume(buf, L) /\ buf = e \o x
  <2>1. SubSeq(buf, 1, L) = e
    <3>1. \A i \in 1 .. L : buf[i] \in Byte
      BY <1>16, <1>15, ElementOfSeq
    <3>2. PICK q \in Seq(Byte) :
            q = SubSeq(buf, 1, L) /\ Len(q) = L /\ \A i \in 1 .. L : q[i] = buf[i]
      <4>1. /\ SubSeq(buf, 1, L) \in Seq(Byte)
            /\ Len(SubSeq(buf, 1, L)) = IF 1 =< L THEN (L - 1) + 1 ELSE 0
            /\ \A i \in 1 .. (L - 1) + 1 : SubSeq(buf, 1, L)[i] = buf[(1 + i) - 1]
        BY <1>14, <3>1, SubSeqProperties
      <4>2. 1 =< L /\ (L - 1) + 1 = L /\ \A i \in Nat : (1 + i) - 1 = i
        BY <1>14
      <4>3. /\ Len(SubSeq(buf, 1, L)) = L
            /\ \A i \in 1 .. L : SubSeq(buf, 1, L)[i] = buf[i]
        BY <4>1, <4>2
      <4>4. QED
        BY <4>1, <4>3
    <3>3. q = e
      BY <1>15, <1>16, <3>2, SeqEqual
    <3>4. QED
      BY <3>2, <3>3
  <2>2. PICK z \in Seq(Byte) : z = << >>
    BY EmptySeq
  <2>3. /\ Transfer(L, buf, z) \o buf_consume(buf, L) = z \o buf
        /\ buf_consume(buf, L) \in Seq(Byte)
    BY <1>15, Moved
  <2>4. z \o buf = buf /\ z \o e = e
    BY <2>2, ConcatEmptySeq
  <2>5. Transfer(L, buf, z) = e
    BY <2>1, <2>4 DEF Transfer
  <2>6. QED
    BY <2>3, <2>4, <2>5
<1>19. Bytes(ms) = (B \o e) \o (x \o rest)
  <2>1. (e \o x) \o rest = e \o (x \o rest)
    <3>1. Regroup(e, x, rest)
      BY Assoc3
    <3>2. QED
      BY <3>1, Zenon DEF Regroup
  <2>2. PICK y \in Seq(Byte) : y = x \o rest
    BY Joined
  <2>3. r = e \o y
    BY <1>3, <1>18, <2>1, <2>2
  <2>4. e \o y = e \o t
    BY <1>8, <2>3
  <2>5. y = t
    BY <2>4, ConcatSimplifications
  <2>6. QED
    BY <1>7, <2>2, <2>5
<1>20. Bytes(Append(sv, m)) = B \o e
  BY <1>2, <1>6, BytesAppend
<1>21. QED
  BY <1>4, <1>5, <1>15, <1>17, <1>18, <1>19, <1>20
-----------------------------------------------------------------------------
(***************************************************************************)
(* One direction of the connection: ms were sent and sv taken, and the     *)
(* bytes in between are with the reader (a), on the way (b) and with the   *)
(* writer (c).                                                             *)
(***************************************************************************)
Channel(M, ms, sv, a, b, c) ==
  /\ ms \in Seq(M) /\ sv \in Seq(M) /\ TakenOf(sv, ms)
  /\ a \in Seq(Byte) /\ b \in Seq(Byte) /\ c \in Seq(Byte)
  /\ Bytes(ms) = Bytes(sv) \o a \o b \o c

(* The writer's bytes go on their way. *)
LEMMA ChannelWrite ==
  ASSUME NEW M, M \subseteq Message, NEW ms, NEW sv,
         NEW a \in Seq(Byte), NEW b \in Seq(Byte), NEW c \in Seq(Byte),
         Channel(M, ms, sv, a, b, c), NEW n \in 0 .. Len(c)
  PROVE  Channel(M, ms, sv, a, Transfer(n, c, b), buf_consume(c, n))
<1>1. a \in Seq(Byte) /\ b \in Seq(Byte) /\ c \in Seq(Byte) /\ sv \in Seq(Message)
  BY SeqMonotonic DEF Channel
<1>2. PICK B \in Seq(Byte) : B = Bytes(sv)
  BY <1>1, BytesType
<1>3. PICK x \in Seq(Byte) : x = Transfer(n, c, b)
  BY <1>1, Moved
<1>4. PICK y \in Seq(Byte) : y = buf_consume(c, n)
  BY <1>1, Moved
<1>5. x \o y = b \o c
  BY <1>1, <1>3, <1>4, Moved
<1>6. B \o a \o b \o c = B \o (a \o (b \o c))
  <2>1. Regroups(B, a, b, c)
    BY Assoc4
  <2>2. QED
    BY <2>1, Zenon DEF Regroups
<1>7. B \o a \o x \o y = B \o (a \o (x \o y))
  <2>1. Regroups(B, a, x, y)
    BY Assoc4
  <2>2. QED
    BY <2>1, Zenon DEF Regroups
<1>8. B \o a \o x \o y = B \o a \o b \o c
  BY <1>5, <1>6, <1>7, Zenon
<1>9. Bytes(ms) = B \o a \o x \o y
  BY <1>2, <1>8 DEF Channel
<1>10. QED
  BY <1>2, <1>3, <1>4, <1>9 DEF Channel

(* The reader gets some of the bytes on their way. *)
LEMMA ChannelRead ==
  ASSUME NEW M, M \subseteq Message, NEW ms, NEW sv,
         NEW a \in Seq(Byte), NEW b \in Seq(Byte), NEW c \in Seq(Byte),
         Channel(M, ms, sv, a, b, c), NEW n \in 0 .. Len(b)
  PROVE  Channel(M, ms, sv, Transfer(n, b, a), buf_consume(b, n), c)
<1>1. a \in Seq(Byte) /\ b \in Seq(Byte) /\ c \in Seq(Byte) /\ sv \in Seq(Message)
  BY SeqMonotonic DEF Channel
<1>2. PICK B \in Seq(Byte) : B = Bytes(sv)
  BY <1>1, BytesType
<1>3. PICK x \in Seq(Byte) : x = Transfer(n, b, a)
  BY <1>1, Moved
<1>4. PICK y \in Seq(Byte) : y = buf_consume(b, n)
  BY <1>1, Moved
<1>5. x \o y = a \o b
  BY <1>1, <1>3, <1>4, Moved
<1>6. B \o a \o b \o c = B \o (a \o b \o c)
  <2>1. Regroups(B, a, b, c)
    BY Assoc4
  <2>2. QED
    BY <2>1, Zenon DEF Regroups
<1>7. B \o x \o y \o c = B \o (x \o y \o c)
  <2>1. Regroups(B, x, y, c)
    BY Assoc4
  <2>2. QED
    BY <2>1, Zenon DEF Regroups
<1>8. B \o x \o y \o c = B \o a \o b \o c
  BY <1>5, <1>6, <1>7, Zenon
<1>9. Bytes(ms) = B \o x \o y \o c
  BY <1>2, <1>8 DEF Channel
<1>10. QED
  BY <1>1, <1>2, <1>3, <1>4, <1>9 DEF Channel

(* One message more is sent, behind all others. *)
LEMMA ChannelSend ==
  ASSUME NEW M, M \subseteq Message, NEW ms, NEW sv,
         NEW a \in Seq(Byte), NEW b \in Seq(Byte), NEW c \in Seq(Byte),
         Channel(M, ms, sv, a, b, c), NEW m \in M
  PROVE  Channel(M, Append(ms, m), sv, a, b, c \o Encode(m))
<1>1. /\ a \in Seq(Byte) /\ b \in Seq(Byte) /\ c \in Seq(Byte)
      /\ sv \in Seq(Message) /\ ms \in Seq(Message) /\ m \in Message
      /\ sv \in Seq(M) /\ ms \in Seq(M)
  BY SeqMonotonic DEF Channel
<1>2. PICK B \in Seq(Byte) : B = Bytes(sv)
  BY <1>1, BytesType
<1>3. PICK e \in Seq(Byte) : e = Encode(m)
  BY <1>1, Encoded
<1>4. PICK x \in Seq(Byte) : x = B \o a \o b
  <2>1. B \o a \in Seq(Byte)
    BY <1>1, Joined
  <2>2. QED
    BY <1>1, <2>1, Joined
<1>5. Bytes(ms) = x \o c
  BY <1>2, <1>4 DEF Channel
<1>6. Bytes(Append(ms, m)) = (x \o c) \o e
  BY <1>1, <1>3, <1>5, BytesAppend
<1>7. (x \o c) \o e = x \o (c \o e)
  <2>1. Regroup(x, c, e)
    BY <1>1, Assoc3
  <2>2. QED
    BY <2>1, Zenon DEF Regroup
<1>8. PICK y \in Seq(Byte) : y = c \o e
  BY <1>1, Joined
<1>9. PICK t \in Seq(M) : t = Append(ms, m)
  BY <1>1, AppendProperties
<1>10. TakenOf(sv, t)
  <2>1. /\ Len(ms) \in Nat /\ Len(sv) \in Nat /\ Len(t) = Len(ms) + 1
        /\ \A i \in 1 .. Len(ms) : t[i] = ms[i]
    BY <1>1, <1>9, AppendProperties, LenProperties
  <2>2. Len(sv) =< Len(ms) /\ \A i \in 1 .. Len(sv) : sv[i] = ms[i]
    BY DEF Channel, TakenOf
  <2>3. \A i \in 1 .. Len(sv) : i \in 1 .. Len(ms)
    BY <2>1, <2>2
  <2>4. QED
    BY <2>1, <2>2, <2>3 DEF TakenOf
<1>11. Bytes(t) = B \o a \o b \o y
  BY <1>4, <1>6, <1>7, <1>8, <1>9
<1>12. QED
  BY <1>1, <1>2, <1>3, <1>8, <1>9, <1>10, <1>11 DEF Channel

(* The message at the front of the reader's bytes is the next one. *)
LEMMA ChannelTake ==
  ASSUME NEW M, M \subseteq Message, NEW ms, NEW sv,
         NEW a \in Seq(Byte), NEW b \in Seq(Byte), NEW c \in Seq(Byte),
         Channel(M, ms, sv, a, b, c),
         Len(a) >= MSG_HEADER_SIZE, Len(a) >= MSG_HEADER_SIZE + payload_length(a)
  PROVE  /\ Len(sv) < Len(ms) /\ parse_message(a) = ms[Len(sv) + 1]
         /\ Channel(M, ms, Append(sv, parse_message(a)),
                    buf_consume(a, MSG_HEADER_SIZE + payload_length(a)), b, c)
<1>1. /\ a \in Seq(Byte) /\ b \in Seq(Byte) /\ c \in Seq(Byte)
      /\ sv \in Seq(Message) /\ ms \in Seq(Message) /\ sv \in Seq(M) /\ ms \in Seq(M)
      /\ TakenOf(sv, ms)
  BY SeqMonotonic DEF Channel
<1>2. PICK B \in Seq(Byte) : B = Bytes(sv)
  BY <1>1, BytesType
<1>3. PICK r \in Seq(Byte) : r = b \o c
  BY <1>1, Joined
<1>4. Bytes(ms) = B \o (a \o r)
  <2>1. B \o a \o b \o c = B \o (a \o (b \o c))
    <3>1. Regroups(B, a, b, c)
      BY Assoc4
    <3>2. QED
      BY <3>1, Zenon DEF Regroups
  <2>2. QED
    BY <1>2, <1>3, <2>1 DEF Channel
<1>5. PICK m : m = ms[Len(sv) + 1]
  OBVIOUS
<1>6. PICK L : L = MSG_HEADER_SIZE + payload_length(a)
  OBVIOUS
<1>7. /\ Len(sv) < Len(ms) /\ parse_message(a) = m /\ L \in 0 .. Len(a)
      /\ Bytes(ms) = Bytes(Append(sv, m)) \o (buf_consume(a, L) \o r)
  <2>1. Bytes(ms) = Bytes(sv) \o (a \o r)
    BY <1>2, <1>4
  <2>2. /\ Len(sv) < Len(ms)
        /\ parse_message(a) = ms[Len(sv) + 1]
        /\ MSG_HEADER_SIZE + payload_length(a) \in 0 .. Len(a)
        /\ Bytes(ms) = Bytes(Append(sv, ms[Len(sv) + 1]))
             \o (buf_consume(a, MSG_HEADER_SIZE + payload_length(a)) \o r)
    BY <1>1, <2>1, CutMessage, ZenonT(60)
  <2>3. QED
    BY <1>5, <1>6, <2>2, Zenon
<1>8. PICK x \in Seq(Byte) : x = buf_consume(a, L)
  BY <1>1, <1>7, Moved
<1>9. Len(sv) \in Nat /\ Len(ms) \in Nat /\ m \in M
  BY <1>1, <1>5, <1>7, LenProperties, ElementOfSeq
<1>10. PICK s \in Seq(M) : s = Append(sv, m)
  BY <1>1, <1>9, AppendProperties
<1>11. TakenOf(s, ms)
  <2>1. /\ Len(s) = Len(sv) + 1 /\ s[Len(sv) + 1] = m
        /\ \A i \in 1 .. Len(sv) : s[i] = sv[i]
    BY <1>1, <1>9, <1>10, AppendProperties
  <2>2. \A i \in 1 .. Len(s) : i \in 1 .. Len(sv) \/ i = Len(sv) + 1
    BY <1>9, <2>1
  <2>3. \A i \in 1 .. Len(sv) : sv[i] = ms[i]
    BY <1>1 DEF TakenOf
  <2>4. \A i \in 1 .. Len(s) : s[i] = ms[i]
    BY <1>5, <2>1, <2>2, <2>3
  <2>5. QED
    BY <1>7, <1>9, <2>1, <2>4 DEF TakenOf
<1>12. PICK C \in Seq(Byte) : C = Bytes(s)
  <2>1. s \in Seq(Message)
    BY SeqMonotonic
  <2>2. QED
    BY <2>1, BytesType
<1>13. Bytes(ms) = C \o x \o b \o c
  <2>1. C \o x \o b \o c = C \o (x \o (b \o c))
    <3>1. Regroups(C, x, b, c)
      BY Assoc4
    <3>2. QED
      BY <3>1, Zenon DEF Regroups
  <2>2. QED
    BY <1>3, <1>7, <1>8, <1>10, <1>12, <2>1
<1>14. QED
  BY <1>1, <1>5, <1>6, <1>7, <1>8, <1>10, <1>11, <1>12, <1>13 DEF Channel
-----------------------------------------------------------------------------
(***************************************************************************)
(* The inductive invariant: BytesConserved, with the messages taken in the *)
(* order of those sent, which tells whose bytes come next.                 *)
(***************************************************************************)
Up == Channel(Request, requests, served, incoming, up, unsent)
Down == Channel(Answer, answers, received, partial, down, outgoing)

FramingInv == Up /\ Down

(* Messages of either direction are messages. *)
LEMMA Messages == Request \subseteq Message /\ Answer \subseteq Message
  BY FramingAssumption

(* The buffers of both directions hold bytes. *)
LEMMA FramingTypes ==
  ASSUME FramingInv
  PROVE  /\ incoming \in Seq(Byte) /\ up \in Seq(Byte) /\ unsent \in Seq(Byte)
         /\ partial \in Seq(Byte) /\ down \in Seq(Byte) /\ outgoing \in Seq(Byte)
         /\ Len(up) \in Nat /\ Len(unsent) \in Nat /\ Len(incoming) \in Nat
         /\ Len(partial) \in Nat /\ Len(down) \in Nat /\ Len(outgoing) \in Nat
<1>1. /\ incoming \in Seq(Byte) /\ up \in Seq(Byte) /\ unsent \in Seq(Byte)
      /\ partial \in Seq(Byte) /\ down \in Seq(Byte) /\ outgoing \in Seq(Byte)
  BY DEF FramingInv, Up, Down, Channel
<1>2. QED
  BY <1>1, LenProperties

(* The smaller of two numbers. *)
LEMMA MinOfTwo ==
  ASSUME NEW x \in Int, NEW y \in Int
  PROVE  Min({x, y}) \in Int /\ Min({x, y}) =< x /\ Min({x, y}) =< y
  BY DEF Min

(* A length in a header is a number. *)
LEMMA PayloadLengthType ==
  ASSUME NEW buf \in Seq(Byte), Len(buf) >= MSG_HEADER_SIZE
  PROVE  payload_length(buf) \in Nat
<1>1. \A i \in 4 .. 7 : buf[i] \in Byte
  <2>1. \A i \in 4 .. 7 : i \in 1 .. Len(buf)
    BY LenProperties DEF MSG_HEADER_SIZE
  <2>2. QED
    BY <2>1, ElementOfSeq
<1>2. PICK l : l = SubSeq(buf, 4, 7)
  OBVIOUS
<1>3. \A i \in 1 .. 4 : l[i] = buf[3 + i]
  BY <1>1, <1>2, SubSeqProperties
<1>4. l[1] \in Nat /\ l[2] \in Nat /\ l[3] \in Nat /\ l[4] \in Nat
  <2>1. \A i \in 1 .. 4 : 3 + i \in 4 .. 7
    OBVIOUS
  <2>2. \A i \in 1 .. 4 : l[i] \in Byte
    BY <1>1, <1>3, <2>1
  <2>3. Byte \subseteq Nat
    BY DEF Byte
  <2>4. 1 \in 1 .. 4 /\ 2 \in 1 .. 4 /\ 3 \in 1 .. 4 /\ 4 \in 1 .. 4
    OBVIOUS
  <2>5. l[1] \in Byte /\ l[2] \in Byte /\ l[3] \in Byte /\ l[4] \in Byte
    BY <2>2, <2>4, Zenon
  <2>6. QED
    BY <2>3, <2>5, Zenon
<1>5. 2^24 \in Nat /\ 2^16 \in Nat /\ 2^8 \in Nat
  BY SMT
<1>6. ASSUME NEW x \in Nat, NEW y \in Nat, NEW z \in Nat, NEW w \in Nat,
             NEW u \in Nat, NEW v \in Nat, NEW t \in Nat
      PROVE  x * u + y * v + z * t + w \in Nat
  BY SMT
<1>7. ntohl(l) \in Nat
  BY <1>4, <1>5, <1>6, Zenon DEF ntohl
<1>8. QED
  BY <1>2, <1>7 DEF payload_length

(* The initial states. *)
LEMMA FramingInit == Init => FramingInv
<1> SUFFICES ASSUME Init PROVE FramingInv
  OBVIOUS
<1>1. \A S : << >> \in Seq(S)
  BY EmptySeq
<1>2. << >> \o << >> = << >>
  BY <1>1, ConcatEmptySeq
<1>3. TakenOf(<< >>, << >>)
  BY DEF TakenOf
<1>4. QED
  BY <1>1, <1>2, <1>3, BytesNothing DEF Init, FramingInv, Up, Down, Channel

(* What the two queues see of a step. *)
Queued(ms, sv, mst, svt, M) ==
  \/ mst = ms /\ svt = sv
  \/ svt = sv /\ \E m \in M : mst = Append(ms, m)
  \/ mst = ms /\ Len(sv) < Len(ms) /\ svt = Append(sv, ms[Len(sv) + 1])

(* Every step keeps the stream to the server, and sends or takes at most   *)
(* one message of it.                                                      *)
LEMMA UpStep ==
  ASSUME FramingInv, [Next]_vars
  PROVE  Up' /\ Queued(requests, served, requests', served', Request)
<1>0. Up /\ Request \subseteq Message
  BY Messages DEF FramingInv
<1>t. /\ incoming \in Seq(Byte) /\ up \in Seq(Byte) /\ unsent \in Seq(Byte)
      /\ Len(up) \in Nat /\ Len(unsent) \in Nat /\ Len(incoming) \in Nat
  BY FramingTypes
<1>1. CASE UNCHANGED <<requests, served, incoming, up, unsent>>
  BY <1>0, <1>1 DEF Up, Queued
<1>2. ASSUME NEW m \in Request, ClientSend(m)
      PROVE  Up' /\ Queued(requests, served, requests', served', Request)
  <2>1. Channel(Request, Append(requests, m), served, incoming, up, unsent \o Encode(m))
    BY <1>0, <1>t, ChannelSend DEF Up
  <2>2. unsent \o Encode(m) = Encode(m)
    <3>1. Encode(m) \in Seq(Byte)
      BY <1>0, Encoded
    <3>2. QED
      BY <1>2, <3>1, ConcatEmptySeq DEF ClientSend
  <2>3. QED
    BY <1>2, <2>1, <2>2 DEF ClientSend, Up, Queued
<1>3. CASE write_one_message
  <2>1. PICK n \in 1 .. Min({Len(unsent), NetCap - Len(up)}) :
          up' = Transfer(n, unsent, up) /\ unsent' = buf_consume(unsent, n)
    BY <1>3 DEF write_one_message
  <2>2. n \in 0 .. Len(unsent)
    <3>1. NetCap - Len(up) \in Int /\ Len(unsent) \in Int
      BY <1>t, FramingAssumption
    <3>2. PICK k \in Int : k = Min({Len(unsent), NetCap - Len(up)}) /\ k =< Len(unsent)
      BY <3>1, MinOfTwo
    <3>3. QED
      BY <1>t, <3>2
  <2>3. Channel(Request, requests, served, incoming,
                Transfer(n, unsent, up), buf_consume(unsent, n))
    BY <1>0, <1>t, <2>2, ChannelWrite DEF Up
  <2>4. QED
    BY <1>3, <2>1, <2>3 DEF write_one_message, Up, Queued
<1>4. CASE ReadSome
  <2>1. PICK n \in 1 .. Len(up) : incoming' = Transfer(n, up, incoming) /\ up' = buf_consume(up, n)
    BY <1>4 DEF ReadSome
  <2>2. n \in 0 .. Len(up)
    BY <1>t
  <2>3. Channel(Request, requests, served, Transfer(n, up, incoming), buf_consume(up, n), unsent)
    BY <1>0, <1>t, <2>2, ChannelRead DEF Up
  <2>4. QED
    BY <1>4, <2>1, <2>3 DEF ReadSome, Up, Queued
<1>5. CASE TryOneRequest
  <2>1. /\ Len(incoming) >= MSG_HEADER_SIZE
        /\ Len(incoming) >= MSG_HEADER_SIZE + payload_length(incoming)
    <3>1. Len(incoming) >= MSG_HEADER_SIZE
      BY <1>5, <1>t DEF TryOneRequest, Complete, HeaderHere, MSG_HEADER_SIZE
    <3>2. payload_length(incoming) \in Nat
      BY <1>t, <3>1, PayloadLengthType
    <3>3. QED
      BY <1>5, <1>t, <3>1, <3>2 DEF TryOneRequest, Complete, MSG_HEADER_SIZE
  <2>2. /\ Len(served) < Len(requests) /\ parse_message(incoming) = requests[Len(served) + 1]
        /\ Channel(Request, requests, Append(served, parse_message(incoming)),
                   buf_consume(incoming, MSG_HEADER_SIZE + payload_length(incoming)), up, unsent)
    BY <1>0, <1>t, <2>1, ChannelTake DEF Up
  <2>3. QED
    BY <1>5, <2>2 DEF TryOneRequest, upVars, Up, Queued
<1>6. QED
  <2>1. \/ UNCHANGED <<requests, served, incoming, up, unsent>>
        \/ \E m \in Request : ClientSend(m)
        \/ write_one_message \/ ReadSome \/ TryOneRequest
    BY DEF Next, vars, upVars, ServerStep, Wake, ReadAgain, ServeDone, WriteSome, WriteAgain,
           read_one_message, Notify
  <2>2. QED
    BY <1>1, <1>2, <1>3, <1>4, <1>5, <2>1

(* Every step keeps the stream to the client, and sends or takes at most   *)
(* one message of it.                                                      *)
LEMMA DownStep ==
  ASSUME FramingInv, [Next]_vars
  PROVE  Down' /\ Queued(answers, received, answers', received', Answer)
<1>0. Down /\ Answer \subseteq Message
  BY Messages DEF FramingInv
<1>t. /\ partial \in Seq(Byte) /\ down \in Seq(Byte) /\ outgoing \in Seq(Byte)
      /\ Len(partial) \in Nat /\ Len(down) \in Nat /\ Len(outgoing) \in Nat
  BY FramingTypes
<1>1. CASE UNCHANGED <<answers, received, partial, down, outgoing>>
  BY <1>0, <1>1 DEF Down, Queued
<1>2. ASSUME NEW a \in Answer, outgoing' = outgoing \o Encode(a),
             answers' = Append(answers, a), UNCHANGED <<received, partial, down>>
      PROVE  Down' /\ Queued(answers, received, answers', received', Answer)
  <2>1. Channel(Answer, Append(answers, a), received, partial, down, outgoing \o Encode(a))
    BY <1>0, <1>t, ChannelSend DEF Down
  <2>2. QED
    BY <1>2, <2>1 DEF Down, Queued
<1>3. CASE WriteSome
  <2>1. PICK n \in 1 .. Min({Len(outgoing), NetCap - Len(down)}) :
          down' = Transfer(n, outgoing, down) /\ outgoing' = buf_consume(outgoing, n)
    BY <1>3 DEF WriteSome
  <2>2. n \in 0 .. Len(outgoing)
    <3>1. NetCap - Len(down) \in Int /\ Len(outgoing) \in Int
      BY <1>t, FramingAssumption
    <3>2. PICK k \in Int : k = Min({Len(outgoing), NetCap - Len(down)}) /\ k =< Len(outgoing)
      BY <3>1, MinOfTwo
    <3>3. QED
      BY <1>t, <3>2
  <2>3. Channel(Answer, answers, received, partial,
                Transfer(n, outgoing, down), buf_consume(outgoing, n))
    BY <1>0, <1>t, <2>2, ChannelWrite DEF Down
  <2>4. QED
    BY <1>3, <2>1, <2>3 DEF WriteSome, Down, Queued
<1>4. CASE read_one_message
  <2>1. PICK n \in 1 .. Min({Len(down), MessageEnd(partial) - Len(partial)}) :
          LET read == Transfer(n, down, partial) IN
          /\ down' = buf_consume(down, n)
          /\ IF Len(read) = MessageEnd(read)
             THEN partial' = << >> /\ received' = Append(received, parse_message(read))
             ELSE partial' = read /\ UNCHANGED received
    BY <1>4 DEF read_one_message
  <2>2. n \in 0 .. Len(down)
    <3>1. MessageEnd(partial) \in Int
      <4>1. CASE Len(partial) < MSG_HEADER_SIZE
        BY <4>1 DEF MessageEnd, MSG_HEADER_SIZE
      <4>2. CASE ~(Len(partial) < MSG_HEADER_SIZE)
        <5>1. Len(partial) >= MSG_HEADER_SIZE
          BY <1>t, <4>2 DEF MSG_HEADER_SIZE
        <5>2. payload_length(partial) \in Nat
          BY <1>t, <5>1, PayloadLengthType
        <5>3. QED
          BY <4>2, <5>2 DEF MessageEnd, MSG_HEADER_SIZE
      <4>3. QED
        BY <4>1, <4>2
    <3>2. MessageEnd(partial) - Len(partial) \in Int /\ Len(down) \in Int
      BY <1>t, <3>1
    <3>3. PICK k \in Int : /\ k = Min({Len(down), MessageEnd(partial) - Len(partial)})
                           /\ k =< Len(down)
      BY <3>2, MinOfTwo
    <3>4. QED
      BY <1>t, <3>3
  <2>3. PICK read \in Seq(Byte) : read = Transfer(n, down, partial)
    BY <1>t, <2>2, Moved
  <2>4. PICK left \in Seq(Byte) : left = buf_consume(down, n)
    BY <1>t, <2>2, Moved
  <2>5. Channel(Answer, answers, received, read, left, outgoing)
    BY <1>0, <1>t, <2>2, <2>3, <2>4, ChannelRead DEF Down
  <2>6. CASE Len(read) # MessageEnd(read)
    BY <1>4, <2>1, <2>3, <2>4, <2>5, <2>6 DEF read_one_message, Down, Queued
  <2>7. CASE Len(read) = MessageEnd(read)
    <3>1. Len(read) \in Nat
      BY LenProperties
    <3>2. Len(read) >= MSG_HEADER_SIZE /\ Len(read) = MSG_HEADER_SIZE + payload_length(read)
      <4>1. CASE Len(read) < MSG_HEADER_SIZE
        <5>1. Len(read) = MSG_HEADER_SIZE
          BY <2>7, <4>1 DEF MessageEnd
        <5>2. QED
          BY <3>1, <4>1, <5>1
      <4>2. CASE ~(Len(read) < MSG_HEADER_SIZE)
        <5>1. Len(read) = MSG_HEADER_SIZE + payload_length(read)
          BY <2>7, <4>2 DEF MessageEnd
        <5>2. Len(read) >= MSG_HEADER_SIZE
          BY <3>1, <4>2 DEF MSG_HEADER_SIZE
        <5>3. QED
          BY <5>1, <5>2
      <4>3. QED
        BY <4>1, <4>2
    <3>3. Len(read) >= MSG_HEADER_SIZE + payload_length(read)
      BY <3>1, <3>2
    <3>4. /\ Len(received) < Len(answers) /\ parse_message(read) = answers[Len(received) + 1]
          /\ Channel(Answer, answers, Append(received, parse_message(read)),
                     buf_consume(read, MSG_HEADER_SIZE + payload_length(read)), left, outgoing)
      BY <1>0, <1>t, <2>5, <3>2, <3>3, ChannelTake
    <3>5. buf_consume(read, MSG_HEADER_SIZE + payload_length(read)) = << >>
      <4>1. buf_consume(read, Len(read)) = << >>
        BY <3>1, SubSeqEmpty DEF buf_consume
      <4>2. QED
        BY <3>2, <4>1
    <3>6. /\ down' = left /\ partial' = << >>
          /\ received' = Append(received, parse_message(read))
          /\ UNCHANGED <<answers, outgoing>>
      BY <1>4, <2>1, <2>3, <2>4, <2>7 DEF read_one_message
    <3>7. QED
      BY <3>4, <3>5, <3>6 DEF Down, Queued
  <2>8. QED
    BY <2>6, <2>7
<1>5. QED
  <2>1. \/ UNCHANGED <<answers, received, partial, down, outgoing>>
        \/ \E a \in Answer : /\ outgoing' = outgoing \o Encode(a)
                             /\ answers' = Append(answers, a)
                             /\ UNCHANGED <<received, partial, down>>
        \/ WriteSome \/ read_one_message
    BY DEF Next, vars, downVars, ServerStep, Wake, ReadSome, ReadAgain, TryOneRequest, ServeDone,
           WriteAgain, ClientSend, write_one_message, Notify
  <2>2. QED
    BY <1>1, <1>2, <1>3, <1>4, <2>1

(* The invariant is inductive. *)
LEMMA FramingStep == FramingInv /\ [Next]_vars => FramingInv'
  BY UpStep, DownStep DEF FramingInv

(* The invariant about the two streams holds in every behaviour. *)
THEOREM FramingInvariance == Spec => []FramingInv
  BY FramingInit, FramingStep, PTL DEF Spec

(***************************************************************************)
(* write_one_message, the buffers of the server and read_one_message lose, *)
(* repeat and move no byte, for messages of any length below 2^32 and any  *)
(* way in which read() and write() cut them.                               *)
(***************************************************************************)
THEOREM BytesAreConserved == Spec => []BytesConserved
<1>1. FramingInv => BytesConserved
  BY DEF FramingInv, Up, Down, Channel, BytesConserved
<1>2. QED
  BY <1>1, FramingInvariance, PTL

(***************************************************************************)
(* try_one_request cuts off the client's requests, each once and in order: *)
(* the stream to the server implements a queue of messages.                *)
(***************************************************************************)
THEOREM RequestsAreQueued == Spec => RequestsQueue
<1>1. Init => Requests!Init
  BY DEF Init, Requests!Init
<1>2. FramingInv /\ [Next]_vars => [Requests!Next]_<<requests, served>>
  BY UpStep DEF Queued, Requests!Next, Requests!Send, Requests!Take
<1>3. QED
  BY <1>1, <1>2, FramingInvariance, PTL DEF Spec, RequestsQueue, Requests!Spec

(***************************************************************************)
(* read_one_message gets the responses and the notifications that shared   *)
(* outgoing_buffers[fd], each once and in order: the stream to the client  *)
(* implements a queue of messages.                                         *)
(***************************************************************************)
THEOREM AnswersAreQueued == Spec => AnswersQueue
<1>1. Init => Answers!Init
  BY DEF Init, Answers!Init
<1>2. FramingInv /\ [Next]_vars => [Answers!Next]_<<answers, received>>
  BY DownStep DEF Queued, Answers!Next, Answers!Send, Answers!Take
<1>3. QED
  BY <1>1, <1>2, FramingInvariance, PTL DEF Spec, AnswersQueue, Answers!Spec
=============================================================================
