---------------------------- MODULE RtpNal_proof -----------------------------
(***************************************************************************)
(* The frame that UnpackRtpNAL makes of the packets, for every set of      *)
(* valid NAL units, every way to send them and any packets lost.           *)
(***************************************************************************)
EXTENDS RtpNal, SequenceFacts, FiniteSetTheorems

Bytes == 0 .. 255

-----------------------------------------------------------------------------
(* Sequences of bytes put together                                         *)

LEMMA PrefixTyped ==
  /\ h264prefix \in Seq(Bytes) /\ Len(h264prefix) = 4
  /\ h264prefix[1] = 0 /\ h264prefix[2] = 0 /\ h264prefix[3] = 0 /\ h264prefix[4] = 1
BY DEF h264prefix, Bytes

\* A sequence of one byte.
LEMMA OneByte ==
  ASSUME NEW b \in Bytes
  PROVE  <<b>> \in Seq(Bytes) /\ Len(<<b>>) = 1 /\ <<b>>[1] = b
OBVIOUS

\* Bytes can be put together in any order.
Regrouped(a, b, c) == a \o (b \o c) = (a \o b) \o c

LEMMA ThreeJoined ==
  ASSUME NEW a \in Seq(Bytes), NEW b \in Seq(Bytes), NEW c \in Seq(Bytes)
  PROVE  Regrouped(a, b, c)
BY ConcatAssociative DEF Regrouped

\* What the assumptions say about a unit.
LEMMA UnitTyped ==
  ASSUME NEW nal \in Nals
  PROVE  /\ nal \in Seq(Bytes) /\ Len(nal) \in Nat /\ Len(nal) >= 1
         /\ nal[1] \in 1 .. 127 /\ TYPE(nal[1]) \in 1 .. 23
         /\ \A i \in 1 .. Len(nal) : nal[i] \in Bytes
<1>1. nal \in Seq(Bytes) /\ Len(nal) > 0
  BY NalsAssumption DEF Bytes
<1>2. nal[1] \in 1 .. 127 /\ nal[1] % 32 \in 1 .. 23
  BY NalsAssumption
<1>3. TYPE(nal[1]) \in 1 .. 23
  BY <1>2, Zenon DEF TYPE
<1>4. Len(nal) \in Nat /\ \A i \in 1 .. Len(nal) : nal[i] \in Bytes
  BY <1>1
<1>5. Len(nal) >= 1
  BY <1>1, <1>4
<1> QED
  BY <1>1, <1>2, <1>3, <1>4, <1>5

\* The two bytes of a size.
LEMMA SizeBytes ==
  ASSUME NEW nal \in Nals
  PROVE  /\ Len(nal) \div 256 \in Bytes /\ Len(nal) % 256 \in Bytes
         /\ (Len(nal) \div 256) * 256 + (Len(nal) % 256) = Len(nal)
<1>1. PICK n \in Nat : n = Len(nal)
  BY UnitTyped
<1>2. n \div 256 < 256
  BY <1>1, NalsAssumption
<1>3. n \div 256 \in Bytes
  BY <1>2 DEF Bytes
<1>4. n % 256 \in Bytes
  BY DEF Bytes
<1>5. (n \div 256) * 256 + (n % 256) = n
  OBVIOUS
<1> QED
  BY <1>1, <1>3, <1>4, <1>5, Zenon

-----------------------------------------------------------------------------
(* What becomes of each kind of packet                                     *)

\* A single NAL unit gets a start code.
LEMMA SingleUnpacked ==
  ASSUME NEW nal \in Nals
  PROVE  UnpackRtpNAL(nal) = h264prefix \o nal
<1>1. ForbiddenZero(nal[1]) = 0 /\ TYPE(nal[1]) \in 1 .. 23
  <2>1. \A b \in 1 .. 127 : (b \div 128) % 2 = 0
    OBVIOUS
  <2>2. nal[1] \in 1 .. 127 /\ TYPE(nal[1]) \in 1 .. 23
    BY UnitTyped
  <2>3. (nal[1] \div 128) % 2 = 0
    BY <2>1, <2>2, Zenon
  <2> QED
    BY <2>2, <2>3, Zenon DEF ForbiddenZero
<1>2. UnpackRtpNAL(nal) = UnpackRtpSingle_NAL(nal)
  BY <1>1 DEF UnpackRtpNAL
<1> QED
  BY <1>2 DEF UnpackRtpSingle_NAL

\* The bytes of a fragment: the type of its indicator is FU-A, its header holds
\* the type of the unit behind S and E, and both together the unit's first byte.
LEMMA FragmentBytes ==
  ASSUME NEW nal \in Nals, NEW e \in {0, 64, 128}
  PROVE  /\ Indicator(nal) \in Bytes /\ TYPE(Indicator(nal)) = 28
         /\ ForbiddenZero(Indicator(nal)) = 0
         /\ e + TYPE(nal[1]) \in Bytes
         /\ e + TYPE(nal[1]) >= 128 <=> e = 128
         /\ FuaNal(Indicator(nal), e + TYPE(nal[1])) = nal[1]
<1>1. PICK b \in 1 .. 127 : b = nal[1]
  BY UnitTyped
<1>2. PICK t \in 1 .. 23 : t = b % 32
  BY <1>1, UnitTyped DEF TYPE
<1>3. PICK c \in 0 .. 96 : c = b - t /\ c % 32 = 0
  BY <1>2
<1>4. (c + 28) % 32 = 28 /\ ((c + 28) \div 128) % 2 = 0
  BY <1>3
<1>5. (e + t) % 32 = t
  BY <1>2
<1>6. TYPE(nal[1]) = t /\ Indicator(nal) = c + 28 /\ TYPE(Indicator(nal)) = 28
  BY <1>1, <1>2, <1>3, <1>4 DEF Indicator, TYPE
<1>7. ForbiddenZero(Indicator(nal)) = 0
  BY <1>4, <1>6 DEF ForbiddenZero
<1>8. FuaNal(Indicator(nal), e + TYPE(nal[1])) = nal[1]
  <2>1. TYPE(e + TYPE(nal[1])) = t
    BY <1>5, <1>6 DEF TYPE
  <2> QED
    BY <1>1, <1>3, <1>6, <2>1 DEF FuaNal
<1> QED
  BY <1>6, <1>7, <1>8 DEF Bytes

\* A packet of two header bytes and some bytes of a unit.
LEMMA FragmentParts ==
  ASSUME NEW a \in Bytes, NEW b \in Bytes, NEW s \in Seq(Bytes),
         NEW buf, buf = <<a, b>> \o s
  PROVE  buf[1] = a /\ buf[2] = b /\ SubSeq(buf, 3, Len(buf)) = s
<1> DEFINE head == <<a, b>>
<1>1. head \in Seq(Bytes) /\ Len(head) = 2 /\ head[1] = a /\ head[2] = b
  OBVIOUS
<1>2. buf = head \o s
  OBVIOUS
<1> HIDE DEF head
<1>3. /\ buf \in Seq(Bytes) /\ Len(buf) = 2 + Len(s) /\ buf[1] = a /\ buf[2] = b
      /\ \A i \in 1 .. Len(s) : buf[2 + i] = s[i]
  BY <1>1, <1>2
<1> DEFINE t == SubSeq(buf, 3, Len(buf))
<1>4. t \in Seq(Bytes) /\ Len(t) = Len(s) /\ \A i \in 1 .. Len(s) : t[i] = s[i]
  BY <1>3
<1> HIDE DEF t
<1>5. t = s
  BY <1>4
<1> QED
  BY <1>3, <1>5 DEF t

\* The first fragment becomes a start code and the unit's first bytes.
LEMMA FirstUnpacked ==
  ASSUME NEW nal \in Nals, NEW s \in Seq(Bytes)
  PROVE  UnpackRtpNAL(<<Indicator(nal), 128 + TYPE(nal[1])>> \o s)
           = h264prefix \o <<nal[1]>> \o s
<1> DEFINE buf == <<Indicator(nal), 128 + TYPE(nal[1])>> \o s
<1>1. /\ buf[1] = Indicator(nal) /\ buf[2] = 128 + TYPE(nal[1])
      /\ SubSeq(buf, 3, Len(buf)) = s
  BY FragmentBytes, FragmentParts
<1> HIDE DEF buf
<1>2. UnpackRtpNAL(buf) = UnpackRtpFU_A_NAL(buf)
  BY <1>1, FragmentBytes DEF UnpackRtpNAL
<1>3. buf[2] >= 128 /\ FuaNal(buf[1], buf[2]) = nal[1]
  BY <1>1, FragmentBytes
<1>4. UnpackRtpFU_A_NAL(buf) = h264prefix \o <<nal[1]>> \o s
  BY <1>1, <1>3, Zenon DEF UnpackRtpFU_A_NAL
<1> QED
  BY <1>2, <1>4 DEF buf

\* A later fragment becomes its bytes of the unit.
LEMMA FragmentUnpacked ==
  ASSUME NEW nal \in Nals, NEW s \in Seq(Bytes), NEW e \in {0, 64}
  PROVE  UnpackRtpNAL(<<Indicator(nal), e + TYPE(nal[1])>> \o s) = s
<1> DEFINE buf == <<Indicator(nal), e + TYPE(nal[1])>> \o s
<1>1. /\ buf[1] = Indicator(nal) /\ buf[2] = e + TYPE(nal[1])
      /\ SubSeq(buf, 3, Len(buf)) = s
  BY FragmentBytes, FragmentParts
<1> HIDE DEF buf
<1>2. UnpackRtpNAL(buf) = UnpackRtpFU_A_NAL(buf)
  BY <1>1, FragmentBytes DEF UnpackRtpNAL
<1>3. ~(buf[2] >= 128)
  BY <1>1, FragmentBytes
<1>4. UnpackRtpFU_A_NAL(buf) = s
  BY <1>1, <1>3, Zenon DEF UnpackRtpFU_A_NAL
<1> QED
  BY <1>2, <1>4 DEF buf

-----------------------------------------------------------------------------
(* The walk over an aggregated packet                                      *)

Size(q, nidx) == Byte(q, nidx + 1) * 256 + Byte(q, nidx + 2)

\* What one turn of the walk adds, when f says what the later ones add.
Turn(q, length, f, nidx) ==
  IF nidx >= length - 1 THEN <<>>
  ELSE h264prefix \o <<Size(q, nidx) % 256>> \o
       IF Size(q, nidx) = 0 THEN f[nidx + 3]
       ELSE SubSeq(q, nidx + 3, nidx + 2 + Size(q, nidx))
              \o f[nidx + 2 + Size(q, nidx)]

IsWalk(q, length, f) == f = [nidx \in Nat |-> Turn(q, length, f, nidx)]

LEMMA SizeTyped ==
  ASSUME NEW q \in Seq(Bytes), NEW nidx \in Nat
  PROVE  Size(q, nidx) \in Nat
<1>1. \A i \in Nat : i # 0 => Byte(q, i) \in Bytes
  <2>1. 0 \in Bytes
    BY DEF Bytes
  <2> QED
    BY <2>1 DEF Byte
<1>2. Byte(q, nidx + 1) \in Bytes /\ Byte(q, nidx + 2) \in Bytes
  BY <1>1
<1>3. \A a, b \in Bytes : a * 256 + b \in Nat
  BY DEF Bytes
<1> QED
  BY <1>2, <1>3 DEF Size

\* A turn looks at later ones only.
LEMMA TurnAgrees ==
  ASSUME NEW q \in Seq(Bytes), NEW length, NEW f, NEW g, NEW nidx \in Nat,
         \A m \in Nat : m > nidx => f[m] = g[m]
  PROVE  Turn(q, length, f, nidx) = Turn(q, length, g, nidx)
<1>1. PICK size \in Nat : size = Size(q, nidx)
  BY SizeTyped
<1>2. f[nidx + 3] = g[nidx + 3]
  OBVIOUS
<1>3. f[nidx + 2 + size] = g[nidx + 2 + size]
  OBVIOUS
<1> QED
  BY <1>1, <1>2, <1>3, Zenon DEF Turn

\* There is a walk over every packet: each turn goes on further behind.
LEMMA WalkExists ==
  ASSUME NEW q \in Seq(Bytes), NEW length \in Nat
  PROVE  \E f : IsWalk(q, length, f)
<1> DEFINE Right(k, f) ==
             /\ DOMAIN f = Nat
             /\ \A n \in Nat : n + k >= length - 1 => f[n] = Turn(q, length, f, n)
           S == {k \in Nat : \E f : f = [n \in Nat |-> f[n]] /\ Right(k, f)}
<1>1. 0 \in S
  <2> DEFINE f == [n \in Nat |-> <<>>]
  <2>1. \A n \in Nat : n + 0 >= length - 1 => Turn(q, length, f, n) = <<>>
    BY DEF Turn
  <2>2. f = [n \in Nat |-> f[n]] /\ Right(0, f)
    BY <2>1
  <2> QED
    BY <2>2
<1>2. ASSUME NEW k \in Nat, k \in S
      PROVE  k + 1 \in S
  <2>1. PICK f : f = [n \in Nat |-> f[n]] /\ Right(k, f)
    BY <1>2
  <2> DEFINE g == [n \in Nat |-> IF n + k >= length - 1 THEN f[n] ELSE Turn(q, length, f, n)]
  <2>2. ASSUME NEW n \in Nat, n + (k + 1) >= length - 1
        PROVE  g[n] = Turn(q, length, g, n)
    <3>1. g[n] = Turn(q, length, f, n)
      BY <2>1
    <3>2. \A m \in Nat : m > n => f[m] = g[m]
      BY <2>2
    <3> HIDE DEF g
    <3>3. Turn(q, length, f, n) = Turn(q, length, g, n)
      BY <3>2, TurnAgrees
    <3> QED
      BY <3>1, <3>3
  <2>3. DOMAIN g = Nat /\ g = [n \in Nat |-> g[n]]
    OBVIOUS
  <2> HIDE DEF g
  <2>4. Right(k + 1, g)
    BY <2>2, <2>3
  <2> QED
    BY <2>3, <2>4
<1> HIDE DEF S
<1>3. length \in S
  BY <1>1, <1>2, Induction
<1>4. PICK f : f = [n \in Nat |-> f[n]] /\ Right(length, f)
  BY <1>3 DEF S
<1>5. \A n \in Nat : f[n] = Turn(q, length, f, n)
  BY <1>4
<1> QED
  BY <1>4, <1>5 DEF IsWalk

\* A packet is unpacked by a walk over what is behind its first byte.
LEMMA WalkTaken ==
  ASSUME NEW buf, Tail(buf) \in Seq(Bytes), Len(buf) \in Nat
  PROVE  \E f : IsWalk(Tail(buf), Len(buf), f) /\ UnpackRtpSTAP_A_NAL(buf) = f[0]
<1> DEFINE F == CHOOSE f : IsWalk(Tail(buf), Len(buf), f)
<1>1. IsWalk(Tail(buf), Len(buf), F)
  BY WalkExists
<1>2. UnpackRtpSTAP_A_NAL(buf) = F[0]
  BY DEF UnpackRtpSTAP_A_NAL, IsWalk, Turn, Size
<1> HIDE DEF F
<1> QED
  BY <1>1, <1>2

\* A unit behind its size, from position nidx of q on.
StandsAt(q, nal, nidx) ==
  /\ q[nidx + 1] = Len(nal) \div 256 /\ q[nidx + 2] = Len(nal) % 256
  /\ \A i \in 1 .. Len(nal) : q[nidx + 2 + i] = nal[i]

LEMMA SizedTyped ==
  ASSUME NEW nal \in Nals
  PROVE  /\ Sized(nal) \in Seq(Bytes) /\ Len(Sized(nal)) = 2 + Len(nal)
         /\ StandsAt(Sized(nal), nal, 0)
<1> DEFINE high == Len(nal) \div 256
           low == Len(nal) % 256
           head == <<high, low>>
<1>1. nal \in Seq(Bytes) /\ Len(nal) \in Nat
  BY UnitTyped
<1>2. high \in Bytes /\ low \in Bytes
  BY SizeBytes
<1>3. head \in Seq(Bytes) /\ Len(head) = 2 /\ head[1] = high /\ head[2] = low
  <2> HIDE DEF high, low
  <2> QED
    BY <1>2
<1>4. Sized(nal) = head \o nal
  BY DEF Sized
<1> HIDE DEF head
<1>5. head \in Seq(Bytes) /\ Len(head) = 2
  BY <1>3
<1> DEFINE s == head \o nal
<1>6. /\ s \in Seq(Bytes) /\ Len(s) = 2 + Len(nal)
      /\ s[0 + 1] = head[1] /\ s[0 + 2] = head[2]
      /\ \A i \in 1 .. Len(nal) : s[0 + 2 + i] = nal[i]
  <2>1. /\ s \in Seq(Bytes) /\ Len(s) = Len(head) + Len(nal)
        /\ \A i \in 1 .. Len(head) : s[i] = head[i]
        /\ \A i \in 1 .. Len(nal) : s[Len(head) + i] = nal[i]
    BY <1>1, <1>5, Joined
  <2> HIDE DEF s
  <2> QED
    BY <1>1, <1>5, <2>1
<1> HIDE DEF s
<1>7. StandsAt(s, nal, 0)
  BY <1>3, <1>6, Zenon DEF StandsAt
<1> QED
  BY <1>4, <1>6, <1>7, Zenon DEF s

\* Where a sized unit stands in a packet, a turn of the walk takes it.
TurnTakes(q, length, f, nidx, nal) ==
  Turn(q, length, f, nidx)
    = (h264prefix \o <<Len(nal) % 256>>) \o (nal \o f[nidx + 2 + Len(nal)])

LEMMA TurnTakesUnit ==
  ASSUME NEW q \in Seq(Bytes), NEW nal \in Nals, NEW nidx \in Nat, NEW length, NEW f,
         length = Len(q) + 1, nidx + 2 + Len(nal) <= Len(q), StandsAt(q, nal, nidx)
  PROVE  TurnTakes(q, length, f, nidx, nal)
<1>1. Len(nal) \in Nat /\ Len(nal) >= 1
  BY UnitTyped
<1>2. nal \in Seq(Bytes) /\ Len(q) \in Nat
  BY UnitTyped
<1>3. Size(q, nidx) = Len(nal)
  <2>1. (Len(nal) \div 256) * 256 + (Len(nal) % 256) = Len(nal)
    BY SizeBytes
  <2>2. nidx + 1 <= Len(q) /\ nidx + 2 <= Len(q)
    BY <1>1, <1>2
  <2>3. Byte(q, nidx + 1) = Len(nal) \div 256 /\ Byte(q, nidx + 2) = Len(nal) % 256
    BY <2>2, Zenon DEF Byte, StandsAt
  <2> QED
    BY <2>1, <2>3, Zenon DEF Size
<1>4. ~(nidx >= length - 1) /\ Len(nal) # 0
  BY <1>1, <1>2
<1> DEFINE part == SubSeq(q, nidx + 3, nidx + 2 + Len(nal))
<1>5. part = nal
  <2>0. PICK a \in Nat : a = nidx + 3
    OBVIOUS
  <2>1. PICK b \in Nat : a = nidx + 3 /\ b = nidx + 2 + Len(nal)
    BY <1>1, <2>0
  <2>2. \A i \in a .. b : q[i] \in Bytes
    BY <1>1, <1>2, <2>1
  <2>3. /\ SubSeq(q, a, b) \in Seq(Bytes)
        /\ Len(SubSeq(q, a, b)) = IF a <= b THEN b - a + 1 ELSE 0
        /\ \A i \in 1 .. b - a + 1 : SubSeq(q, a, b)[i] = q[a + i - 1]
    BY <2>2, SubSeqProperties
  <2>4. part = SubSeq(q, a, b)
    BY <2>1
  <2> HIDE DEF part
  <2>5. part \in Seq(Bytes) /\ Len(part) = Len(nal)
    BY <1>1, <2>1, <2>3, <2>4
  <2>6. ASSUME NEW i \in 1 .. Len(nal)
        PROVE  part[i] = nal[i]
    <3>1. i \in 1 .. b - a + 1 /\ a + i - 1 = nidx + 2 + i
      BY <1>1, <2>1
    <3>2. part[i] = q[nidx + 2 + i]
      BY <2>3, <2>4, <3>1
    <3> QED
      BY <3>2 DEF StandsAt
  <2> QED
    BY <1>2, <2>5, <2>6
<1> HIDE DEF part
<1>6. SubSeq(q, nidx + 3, nidx + 2 + Size(q, nidx)) = nal
  BY <1>3, <1>5, Zenon DEF part
<1>7. f[nidx + 2 + Size(q, nidx)] = f[nidx + 2 + Len(nal)]
  BY <1>3, Zenon
<1>8. Turn(q, length, f, nidx)
        = h264prefix \o <<Size(q, nidx) % 256>>
            \o (SubSeq(q, nidx + 3, nidx + 2 + Size(q, nidx)) \o f[nidx + 2 + Size(q, nidx)])
  BY <1>3, <1>4, Zenon DEF Turn
<1> QED
  BY <1>3, <1>6, <1>7, <1>8, Zenon DEF TurnTakes

\* The packet behind its first byte.
LEMMA TogetherBytes ==
  ASSUME NEW nal1 \in Nals, NEW nal2 \in Nals
  PROVE  LET q == Sized(nal1) \o Sized(nal2)
         IN  /\ q \in Seq(Bytes) /\ Len(q) = 4 + Len(nal1) + Len(nal2)
             /\ StandsAt(q, nal1, 0) /\ StandsAt(q, nal2, 2 + Len(nal1))
<1> DEFINE s1 == Sized(nal1)
           s2 == Sized(nal2)
           q == s1 \o s2
           l1 == Len(nal1)
           l2 == Len(nal2)
<1>1. /\ s1 \in Seq(Bytes) /\ s2 \in Seq(Bytes) /\ Len(s1) = 2 + l1 /\ Len(s2) = 2 + l2
      /\ l1 \in Nat /\ l2 \in Nat
  BY SizedTyped, UnitTyped
<1>2. StandsAt(s1, nal1, 0) /\ StandsAt(s2, nal2, 0)
  BY SizedTyped
<1> HIDE DEF s1, s2, l1, l2
<1>3. /\ q \in Seq(Bytes) /\ Len(q) = 4 + l1 + l2
      /\ \A i \in 1 .. 2 + l1 : q[i] = s1[i]
      /\ \A i \in 1 .. 2 + l2 : q[2 + l1 + i] = s2[i]
  <2>1. /\ q \in Seq(Bytes) /\ Len(q) = Len(s1) + Len(s2)
        /\ \A i \in 1 .. Len(s1) : q[i] = s1[i]
        /\ \A i \in 1 .. Len(s2) : q[Len(s1) + i] = s2[i]
    <3>1. s1 \in Seq(Bytes) /\ s2 \in Seq(Bytes)
      BY <1>1
    <3> QED
      BY <3>1, Joined
  <2> HIDE DEF q
  <2>2. l1 \in Nat /\ l2 \in Nat /\ Len(s1) = 2 + l1 /\ Len(s2) = 2 + l2
    BY <1>1
  <2> QED
    BY <2>1, <2>2
<1> HIDE DEF q
<1>4. /\ q[0 + 1] = s1[0 + 1] /\ q[0 + 2] = s1[0 + 2]
      /\ \A i \in 1 .. l1 : q[0 + 2 + i] = s1[0 + 2 + i]
  BY <1>1, <1>3
<1>5. /\ q[2 + l1 + 1] = s2[0 + 1] /\ q[2 + l1 + 2] = s2[0 + 2]
      /\ \A i \in 1 .. l2 : q[2 + l1 + 2 + i] = s2[0 + 2 + i]
  <2>1. \A i \in 1 .. l2 : 2 + i \in 1 .. 2 + l2 /\ 2 + l1 + (2 + i) = 2 + l1 + 2 + i
    BY <1>1
  <2> QED
    BY <1>1, <1>3, <2>1
<1>6. StandsAt(q, nal1, 0)
  BY <1>2, <1>4, Zenon DEF StandsAt, l1
<1>7. StandsAt(q, nal2, 2 + l1)
  BY <1>2, <1>5, Zenon DEF StandsAt, l2
<1> QED
  BY <1>3, <1>6, <1>7, Zenon DEF l1, l2, q, s1, s2

\* A start code with the low byte of a size behind it.
LEMMA CodeAndSize ==
  ASSUME NEW n \in Nat
  PROVE  h264prefix \o <<n % 256>> \in Seq(Bytes)
<1>1. n % 256 \in 0 .. 255
  OBVIOUS
<1>2. PICK b \in Bytes : b = n % 256
  BY <1>1, Zenon DEF Bytes
<1>3. <<b>> \in Seq(Bytes) /\ h264prefix \in Seq(Bytes)
  BY PrefixTyped, OneByte
<1>4. \A s, t \in Seq(Bytes) : s \o t \in Seq(Bytes)
  OBVIOUS
<1> QED
  BY <1>2, <1>3, <1>4, Zenon

\* The packet, and what stands before a unit that comes out of it.
PacketOf(nal1, nal2) == <<96 + 24>> \o Sized(nal1) \o Sized(nal2)

CodeOf(nal) == h264prefix \o <<Len(nal) % 256>>

\* Both units of an aggregated packet get a start code, each with the low byte
\* of its size behind it.
LEMMA TogetherUnpacked ==
  ASSUME NEW nal1 \in Nals, NEW nal2 \in Nals
  PROVE  UnpackRtpNAL(PacketOf(nal1, nal2))
           = (CodeOf(nal1) \o nal1) \o (CodeOf(nal2) \o nal2)
<1> DEFINE s1 == Sized(nal1)
           s2 == Sized(nal2)
           q == s1 \o s2
           head == <<96 + 24>>
           buf == head \o s1 \o s2
           l1 == Len(nal1)
           l2 == Len(nal2)
           p1 == h264prefix \o <<Len(nal1) % 256>>
           p2 == h264prefix \o <<Len(nal2) % 256>>
<1>1. s1 \in Seq(Bytes) /\ s2 \in Seq(Bytes) /\ l1 \in Nat /\ l2 \in Nat
  BY SizedTyped, UnitTyped
<1>2. head \in Seq(Bytes) /\ Len(head) = 1 /\ head[1] = 120
  BY DEF Bytes
<1>3. /\ q \in Seq(Bytes) /\ Len(q) = 4 + l1 + l2
      /\ StandsAt(q, nal1, 0) /\ StandsAt(q, nal2, 2 + l1)
  BY TogetherBytes
<1>4. p1 \in Seq(Bytes) /\ p2 \in Seq(Bytes) /\ nal1 \in Seq(Bytes) /\ nal2 \in Seq(Bytes)
  BY CodeAndSize, UnitTyped
<1>5. buf = head \o q
  <2> HIDE DEF s1, s2, head
  <2>1. Regrouped(head, s1, s2)
    BY <1>1, <1>2, ThreeJoined
  <2> QED
    BY <2>1, Zenon DEF Regrouped
<1> HIDE DEF s1, s2, buf, q, head, l1, l2, p1, p2
<1>6. buf[1] = 120 /\ Tail(buf) = q /\ Len(buf) = Len(q) + 1
  <2>1. Len(buf) = Len(q) + 1 /\ buf[1] = 120 /\ buf \in Seq(Bytes) /\ buf # <<>>
        /\ \A i \in 1 .. Len(q) : buf[i + 1] = q[i]
    <3>1. /\ buf \in Seq(Bytes) /\ Len(buf) = Len(head) + Len(q)
          /\ \A i \in 1 .. Len(head) : buf[i] = head[i]
          /\ \A i \in 1 .. Len(q) : buf[Len(head) + i] = q[i]
      <4> DEFINE whole == head \o q
      <4>1. /\ whole \in Seq(Bytes) /\ Len(whole) = Len(head) + Len(q)
            /\ \A i \in 1 .. Len(head) : whole[i] = head[i]
            /\ \A i \in 1 .. Len(q) : whole[Len(head) + i] = q[i]
        <5>1. head \in Seq(Bytes) /\ q \in Seq(Bytes)
          BY <1>2, <1>3
        <5> QED
          BY <5>1, Joined
      <4> QED
        BY <1>5, <4>1, Zenon
    <3> QED
      BY <1>2, <1>3, <3>1
  <2>2. Tail(buf) \in Seq(Bytes) /\ Len(Tail(buf)) = Len(q)
        /\ \A i \in 1 .. Len(q) : Tail(buf)[i] = buf[i + 1]
    BY <1>1, <1>3, <2>1, HeadTailProperties
  <2>3. Tail(buf) = q
    BY <1>3, <2>1, <2>2
  <2> QED
    BY <2>1, <2>3
<1>7. UnpackRtpNAL(buf) = UnpackRtpSTAP_A_NAL(buf)
  <2>1. TYPE(buf[1]) = 24 /\ ForbiddenZero(buf[1]) = 0
    BY <1>6 DEF TYPE, ForbiddenZero
  <2> QED
    BY <2>1 DEF UnpackRtpNAL
<1>8. PICK f : IsWalk(q, Len(buf), f) /\ UnpackRtpSTAP_A_NAL(buf) = f[0]
  <2>1. Tail(buf) \in Seq(Bytes)
    BY <1>3, <1>6, Zenon
  <2>2. Len(q) + 1 \in Nat
    BY <1>3
  <2>3. Len(buf) \in Nat
    BY <1>6, <2>2, Zenon
  <2>4. \E f : IsWalk(Tail(buf), Len(buf), f) /\ UnpackRtpSTAP_A_NAL(buf) = f[0]
    BY <2>1, <2>3, WalkTaken
  <2> QED
    BY <1>6, <2>4, Zenon
<1>9. ASSUME NEW nidx \in Nat
      PROVE  f[nidx] = Turn(q, Len(buf), f, nidx)
  BY <1>8, Zenon DEF IsWalk
<1>10. f[0] = p1 \o (nal1 \o f[2 + l1])
  <2>1. PICK nidx \in Nat : nidx = 0
    OBVIOUS
  <2>2. StandsAt(q, nal1, nidx) /\ nidx + 2 + Len(nal1) <= Len(q)
    BY <1>1, <1>3, <2>1 DEF l1
  <2>3. Turn(q, Len(buf), f, nidx) = p1 \o (nal1 \o f[nidx + 2 + Len(nal1)])
    <3>1. TurnTakes(q, Len(buf), f, nidx, nal1)
      BY <1>3, <1>6, <2>2, TurnTakesUnit
    <3> QED
      BY <3>1, Zenon DEF TurnTakes, p1
  <2>4. nidx + 2 + Len(nal1) = 2 + l1
    BY <1>1, <2>1 DEF l1
  <2> QED
    BY <1>9, <2>1, <2>3, <2>4, Zenon
<1>11. f[2 + l1] = p2 \o (nal2 \o f[4 + l1 + l2])
  <2>1. PICK nidx \in Nat : nidx = 2 + l1
    BY <1>1
  <2>2. StandsAt(q, nal2, nidx) /\ nidx + 2 + Len(nal2) <= Len(q)
    BY <1>1, <1>3, <2>1 DEF l2
  <2>3. Turn(q, Len(buf), f, nidx) = p2 \o (nal2 \o f[nidx + 2 + Len(nal2)])
    <3>1. TurnTakes(q, Len(buf), f, nidx, nal2)
      BY <1>3, <1>6, <2>2, TurnTakesUnit
    <3> QED
      BY <3>1, Zenon DEF TurnTakes, p2
  <2>4. nidx + 2 + Len(nal2) = 4 + l1 + l2
    BY <1>1, <2>1 DEF l2
  <2> QED
    BY <1>9, <2>1, <2>3, <2>4, Zenon
<1>12. f[4 + l1 + l2] = <<>>
  <2>1. PICK nidx \in Nat : nidx = 4 + l1 + l2
    BY <1>1
  <2>2. nidx >= Len(buf) - 1
    BY <1>1, <1>3, <1>6, <2>1
  <2> QED
    BY <1>9, <2>1, <2>2, Zenon DEF Turn
<1>13. UnpackRtpNAL(buf) = p1 \o (nal1 \o (p2 \o (nal2 \o <<>>)))
  BY <1>7, <1>8, <1>10, <1>11, <1>12, Zenon
<1>14. UnpackRtpNAL(buf) = (p1 \o nal1) \o (p2 \o nal2)
  <2>1. nal2 \o <<>> = nal2
    BY <1>4, ConcatEmptySeq, Zenon
  <2> DEFINE r == p2 \o nal2
  <2>2. r \in Seq(Bytes)
    BY <1>4
  <2>3. UnpackRtpNAL(buf) = p1 \o (nal1 \o r)
    BY <1>13, <2>1, Zenon
  <2> HIDE DEF r
  <2>4. Regrouped(p1, nal1, r)
    BY <1>4, <2>2, ThreeJoined
  <2> QED
    BY <2>3, <2>4, Zenon DEF Regrouped, r
<1> QED
  BY <1>14, Zenon DEF PacketOf, CodeOf, buf, p1, p2, head, s1, s2
-----------------------------------------------------------------------------
(* What the units make together                                            *)

\* A unit with its start code, as it stands in the frame.
PieceOf(nal, aggregated) ==
  h264prefix \o (IF aggregated THEN <<Len(nal) % 256>> ELSE <<>>) \o nal

PiecesOf(units, tog) == [i \in 1 .. Len(units) |-> PieceOf(units[i], i \in tog)]

Whole(units, tog) == FlattenSeq(PiecesOf(units, tog))

LEMMA PieceTyped ==
  ASSUME NEW nal \in Nals, NEW aggregated
  PROVE  PieceOf(nal, aggregated) \in Seq(Bytes)
<1> DEFINE mid == IF aggregated THEN <<Len(nal) % 256>> ELSE <<>>
<1>1. mid \in Seq(Bytes)
  <2>1. PICK b \in Bytes : b = Len(nal) % 256
    BY SizeBytes
  <2>2. <<b>> \in Seq(Bytes) /\ <<>> \in Seq(Bytes)
    OBVIOUS
  <2> QED
    BY <2>1, <2>2, Zenon
<1>2. h264prefix \in Seq(Bytes) /\ nal \in Seq(Bytes)
  BY PrefixTyped, UnitTyped
<1> HIDE DEF mid
<1>3. \A s, t \in Seq(Bytes) : s \o t \in Seq(Bytes)
  OBVIOUS
<1> QED
  BY <1>1, <1>2, <1>3, Zenon DEF PieceOf, mid

LEMMA PiecesTyped ==
  ASSUME NEW units \in Seq(Nals), NEW tog
  PROVE  /\ PiecesOf(units, tog) \in Seq(Seq(Bytes))
         /\ Len(PiecesOf(units, tog)) = Len(units)
         /\ \A i \in 1 .. Len(units) : PiecesOf(units, tog)[i] = PieceOf(units[i], i \in tog)
<1> DEFINE T == Seq(Bytes)
<1>1. Len(units) \in Nat /\ \A i \in 1 .. Len(units) : PieceOf(units[i], i \in tog) \in T
  BY PieceTyped
<1> HIDE DEF T
<1>2. PiecesOf(units, tog) \in [1 .. Len(units) -> T]
  BY <1>1 DEF PiecesOf
<1>3. PiecesOf(units, tog) \in Seq(T) /\ Len(PiecesOf(units, tog)) = Len(units)
  BY <1>1, <1>2, SeqDef
<1> QED
  BY <1>3 DEF PiecesOf, T

LEMMA WholeTyped ==
  ASSUME NEW units \in Seq(Nals), NEW tog
  PROVE  Whole(units, tog) \in Seq(Bytes)
BY PiecesTyped, FlattenType DEF Whole

\* One unit more: its piece comes behind the others.
WholeGrows(units, tog, nal, tog2) ==
  Whole(Append(units, nal), tog2)
    = Whole(units, tog) \o PieceOf(nal, Len(units) + 1 \in tog2)

LEMMA WholeAppend ==
  ASSUME NEW units \in Seq(Nals), NEW tog, NEW tog2, NEW nal \in Nals,
         \A i \in 1 .. Len(units) : i \in tog <=> i \in tog2
  PROVE  WholeGrows(units, tog, nal, tog2)
<1> DEFINE n == Len(units)
           more == Append(units, nal)
           old == PiecesOf(units, tog)
           new == PiecesOf(more, tog2)
           e == PieceOf(nal, n + 1 \in tog2)
<1>1. n \in Nat /\ more \in Seq(Nals) /\ Len(more) = n + 1 /\ more[n + 1] = nal
      /\ \A i \in 1 .. n : more[i] = units[i]
  OBVIOUS
<1>2. /\ old \in Seq(Seq(Bytes)) /\ Len(old) = n
      /\ \A i \in 1 .. n : old[i] = PieceOf(units[i], i \in tog)
  BY PiecesTyped
<1>3. /\ new \in Seq(Seq(Bytes)) /\ Len(new) = n + 1
      /\ \A i \in 1 .. n + 1 : new[i] = PieceOf(more[i], i \in tog2)
  <2> HIDE DEF more
  <2>1. /\ new \in Seq(Seq(Bytes)) /\ Len(new) = Len(more)
        /\ \A i \in 1 .. Len(more) : new[i] = PieceOf(more[i], i \in tog2)
    BY <1>1, PiecesTyped
  <2> QED
    BY <1>1, <2>1
<1>4. e \in Seq(Bytes)
  BY PieceTyped
<1> HIDE DEF n, more, old, new, e
<1>5. \A i \in 1 .. n : new[i] = old[i]
  <2>1. ASSUME NEW i \in 1 .. n
        PROVE  new[i] = old[i]
    <3>1. i \in 1 .. n + 1 /\ more[i] = units[i] /\ (i \in tog <=> i \in tog2)
      BY <1>1 DEF n
    <3>2. (i \in tog) = (i \in tog2)
      BY <3>1
    <3>3. new[i] = PieceOf(more[i], i \in tog2) /\ old[i] = PieceOf(units[i], i \in tog)
      BY <1>2, <1>3, <3>1
    <3> QED
      BY <3>1, <3>2, <3>3, Zenon
  <2> QED
    BY <2>1
<1>6. new[n + 1] = e
  <2>1. n + 1 \in 1 .. n + 1
    BY <1>1
  <2> QED
    BY <1>1, <1>3, <2>1, Zenon DEF e
<1>7. new = Append(old, e)
  <2> DEFINE T == Seq(Bytes)
  <2>1. old \in Seq(T) /\ Len(old) = n /\ e \in T /\ new \in Seq(T) /\ Len(new) = n + 1
    BY <1>2, <1>3, <1>4
  <2> HIDE DEF T
  <2> QED
    BY <1>1, <1>5, <1>6, <2>1
<1>8. FlattenSeq(Append(old, e)) = FlattenSeq(old) \o e
  BY <1>2, <1>4, FlattenAppend, Zenon
<1> QED
  BY <1>7, <1>8, Zenon DEF WholeGrows, Whole, old, new, e, more, n

\* The frame that is promised, in these terms.
LEMMA PromisedFrame ==
  FlattenSeq([i \in 1 .. Len(nals) |-> h264prefix \o Between(i) \o nals[i]])
    = Whole(nals, together)
BY DEF Whole, PiecesOf, PieceOf, Between
-----------------------------------------------------------------------------
(* Start codes in a frame                                                  *)

IsCode(f, i) == f[i] = 0 /\ f[i + 1] = 0 /\ f[i + 2] = 0 /\ f[i + 3] = 1

Across(lost, i) == \E g \in lost : i <= g /\ g < i + 3

Codes(f, lost) == {i \in 1 .. Len(f) - 3 : IsCode(f, i) /\ ~Across(lost, i)}

\* The first bytes of a unit in the frame: its start code, the low byte of its
\* size if m is 5, and what the packet holds of it.
IsUnit(c, m, nal) ==
  /\ c \in Seq(Bytes) /\ m \in {4, 5} /\ Len(c) > m /\ Len(c) - m <= Len(nal)
  /\ c[1] = 0 /\ c[2] = 0 /\ c[3] = 0 /\ c[4] = 1
  /\ m = 5 => c[5] = Len(nal) % 256
  /\ \A i \in 1 .. Len(c) - m : c[m + i] = nal[i]

\* A unit adds its own start code and no other.
LEMMA UnitAdds ==
  ASSUME NEW f \in Seq(Bytes), NEW c, NEW m, NEW nal \in Nals, NEW lost,
         NEW i, IsUnit(c, m, nal), i \in Codes(f \o c, lost)
  PROVE  i \in Codes(f, lost) \/ i = Len(f) + 1
<1> DEFINE u == f \o c
           n == Len(f)
<1>1. c \in Seq(Bytes) /\ Len(c) \in Nat /\ n \in Nat /\ m \in {4, 5} /\ Len(c) > m
  BY DEF IsUnit
<1>2. /\ Len(u) = n + Len(c) /\ \A j \in 1 .. n : u[j] = f[j]
      /\ \A j \in 1 .. Len(c) : u[n + j] = c[j]
  BY <1>1, Joined
<1>3. i \in 1 .. Len(u) - 3 /\ IsCode(u, i) /\ ~Across(lost, i)
  BY DEF Codes
<1> HIDE DEF u, n
<1>4. u[i] = 0 /\ u[i + 1] = 0 /\ u[i + 2] = 0 /\ u[i + 3] = 1
  BY <1>3 DEF IsCode
<1>5. /\ u[n + 1] = 0 /\ u[n + 2] = 0 /\ u[n + 3] = 0 /\ u[n + 4] = 1
      /\ \A j \in 1 .. Len(c) - m : u[n + m + j] = nal[j]
  <2>1. c[1] = 0 /\ c[2] = 0 /\ c[3] = 0 /\ c[4] = 1
    BY DEF IsUnit
  <2>2. 1 \in 1 .. Len(c) /\ 2 \in 1 .. Len(c) /\ 3 \in 1 .. Len(c) /\ 4 \in 1 .. Len(c)
    BY <1>1
  <2>3. ASSUME NEW j \in 1 .. Len(c) - m
        PROVE  u[n + m + j] = nal[j]
    <3>1. m + j \in 1 .. Len(c) /\ n + (m + j) = n + m + j
      BY <1>1
    <3>2. c[m + j] = nal[j]
      BY DEF IsUnit
    <3> QED
      BY <1>2, <3>1, <3>2
  <2> QED
    BY <1>2, <2>1, <2>2, <2>3
<1>6. Len(c) - m <= Len(nal) /\ Len(nal) \in Nat /\ nal[1] # 0
  <2>1. Len(c) - m <= Len(nal)
    BY DEF IsUnit
  <2>2. Len(nal) \in Nat /\ nal[1] \in 1 .. 127
    BY UnitTyped
  <2>3. nal[1] # 0
    <3>1. \A b \in 1 .. 127 : b # 0
      OBVIOUS
    <3> QED
      BY <2>2, <3>1, Zenon
  <2> QED
    BY <2>1, <2>2, <2>3, Zenon
<1>7. i \in Nat /\ i >= 1 /\ i + 3 <= n + Len(c)
  BY <1>1, <1>2, <1>3
<1>8. CASE i + 3 <= n
  <2>1. i \in 1 .. n - 3
    BY <1>1, <1>7, <1>8
  <2>2. i \in 1 .. n /\ i + 1 \in 1 .. n /\ i + 2 \in 1 .. n /\ i + 3 \in 1 .. n
    BY <1>1, <1>7, <1>8
  <2>3. IsCode(f, i)
    BY <1>2, <1>4, <2>2 DEF IsCode
  <2> QED
    BY <1>3, <2>1, <2>3 DEF Codes, n
<1>9. CASE i + 3 > n /\ i <= n + 4
  <2>1. i = n - 2 \/ i = n - 1 \/ i = n \/ i = n + 1 \/ i = n + 2 \/ i = n + 3 \/ i = n + 4
    BY <1>1, <1>7, <1>9
  <2>2. i # n - 2
    BY <1>1, <1>4, <1>5
  <2>3. i # n - 1
    BY <1>1, <1>4, <1>5
  <2>4. i # n
    BY <1>1, <1>4, <1>5
  <2>5. i # n + 2 /\ i # n + 3 /\ i # n + 4
    BY <1>1, <1>4, <1>5
  <2> QED
    BY <2>1, <2>2, <2>3, <2>4, <2>5 DEF n
<1>10. CASE i > n + 4
  <2>1. i # n + m
    <3>1. 1 \in 1 .. Len(c) - m
      BY <1>1
    <3>2. u[n + m + 1] = nal[1]
      BY <1>5, <3>1
    <3> QED
      BY <1>1, <1>4, <1>6, <3>2
  <2>2. PICK j \in Nat : j = i - (n + m)
    BY <1>1, <1>7, <1>10
  <2>3. /\ j >= 1 /\ i = n + m + j
        /\ j \in 1 .. Len(c) - m /\ j + 1 \in 1 .. Len(c) - m /\ j + 2 \in 1 .. Len(c) - m
    BY <1>1, <1>7, <1>10, <2>1, <2>2
  <2>4. i + 1 = n + m + (j + 1) /\ i + 2 = n + m + (j + 2)
    BY <1>1, <2>3
  <2>5. nal[j] = 0 /\ nal[j + 1] = 0 /\ nal[j + 2] = 0
    BY <1>4, <1>5, <2>3, <2>4
  <2>6. j \in 1 .. Len(nal) - 2
    BY <1>1, <1>6, <2>3
  <2> QED
    BY <2>5, <2>6, EmulationAssumption
<1> QED
  BY <1>1, <1>7, <1>8, <1>9, <1>10

\* The bytes at the end of a frame are those of the unit before position k + 1,
\* as far as nothing was lost between them.
EndsWith(f, lost, nal, k) ==
  /\ Len(f) \notin lost => Len(f) >= 1 /\ f[Len(f)] = nal[k]
  /\ Len(f) \notin lost /\ Len(f) - 1 \notin lost => f[Len(f) - 1] = nal[k - 1]

\* Some bytes of a unit, behind position k.
IsPart(c, nal, k) ==
  /\ c \in Seq(Bytes) /\ Len(c) >= 1 /\ k \in Nat /\ k >= 2 /\ k + Len(c) <= Len(nal)
  /\ \A i \in 1 .. Len(c) : c[i] = nal[k + i]

\* A later fragment adds no start code that is not across a gap.
LEMMA PartAdds ==
  ASSUME NEW f \in Seq(Bytes), NEW c, NEW nal \in Nals, NEW k, NEW lost,
         NEW i, IsPart(c, nal, k), EndsWith(f, lost, nal, k), i \in Codes(f \o c, lost)
  PROVE  i \in Codes(f, lost)
<1> DEFINE u == f \o c
           n == Len(f)
<1>1. /\ c \in Seq(Bytes) /\ Len(c) \in Nat /\ n \in Nat /\ Len(c) >= 1
      /\ k \in Nat /\ k >= 2 /\ k + Len(c) <= Len(nal) /\ Len(nal) \in Nat
  BY UnitTyped DEF IsPart
<1>2. /\ Len(u) = n + Len(c) /\ \A j \in 1 .. n : u[j] = f[j]
      /\ \A j \in 1 .. Len(c) : u[n + j] = c[j]
  BY <1>1, Joined
<1>3. i \in 1 .. Len(u) - 3 /\ IsCode(u, i) /\ ~Across(lost, i)
  BY DEF Codes
<1> HIDE DEF u, n
<1>4. u[i] = 0 /\ u[i + 1] = 0 /\ u[i + 2] = 0 /\ u[i + 3] = 1
  BY <1>3 DEF IsCode
<1>5. \A j \in 1 .. Len(c) : u[n + j] = nal[k + j]
  BY <1>2 DEF IsPart
<1>6. i \in Nat /\ i >= 1 /\ i + 3 <= n + Len(c)
  BY <1>1, <1>2, <1>3
<1>7. /\ n \notin lost => f[n] = nal[k]
      /\ n \notin lost /\ n - 1 \notin lost => f[n - 1] = nal[k - 1]
  BY DEF EndsWith, n
<1>8. \A g \in lost : ~(i <= g /\ g < i + 3)
  BY <1>3 DEF Across
<1>9. ASSUME NEW j \in Nat, j >= 1, j + 2 <= Len(nal), nal[j] = 0, nal[j + 1] = 0
      PROVE  nal[j + 2] # 0 /\ nal[j + 2] # 1
  <2>1. j \in 1 .. Len(nal) - 2
    BY <1>1, <1>9
  <2>2. nal[j + 2] > 2
    BY <1>9, <2>1, EmulationAssumption
  <2>3. ~(0 > 2) /\ ~(1 > 2)
    OBVIOUS
  <2> QED
    BY <2>2, <2>3, Zenon
<1>10. CASE i + 3 <= n
  <2>1. i \in 1 .. n - 3
    BY <1>1, <1>6, <1>10
  <2>2. i \in 1 .. n /\ i + 1 \in 1 .. n /\ i + 2 \in 1 .. n /\ i + 3 \in 1 .. n
    BY <1>1, <1>6, <1>10
  <2>3. IsCode(f, i)
    BY <1>2, <1>4, <2>2 DEF IsCode
  <2> QED
    BY <1>3, <2>1, <2>3 DEF Codes, n
<1>11. CASE i = n - 2
  <2>1. n \in Nat /\ n >= 3
    BY <1>1, <1>6, <1>11
  <2>2. n \notin lost /\ n - 1 \notin lost
    BY <1>8, <1>11, <2>1
  <2>3. nal[k - 1] = 0 /\ nal[k] = 0
    <3>1. f[n] = nal[k] /\ f[n - 1] = nal[k - 1]
      BY <1>7, <2>2
    <3>2. u[n] = f[n] /\ u[n - 1] = f[n - 1]
      BY <1>2, <2>1
    <3>3. u[n] = 0 /\ u[n - 1] = 0
      BY <1>4, <1>11, <2>1
    <3> QED
      BY <3>1, <3>2, <3>3, Zenon
  <2>4. nal[k + 1] = 1
    <3>1. u[n + 1] = 1 /\ u[n + 1] = nal[k + 1]
      BY <1>1, <1>4, <1>5, <1>11, <2>1
    <3> QED
      BY <3>1
  <2>5. PICK j \in Nat : j = k - 1
    BY <1>1
  <2>6. j >= 1 /\ j + 2 <= Len(nal) /\ nal[j] = 0 /\ nal[j + 1] = 0 /\ nal[j + 2] = 1
    BY <1>1, <2>3, <2>4, <2>5
  <2> QED
    BY <1>9, <2>6
<1>12. CASE i = n - 1
  <2>1. n \in Nat /\ n >= 2
    BY <1>1, <1>6, <1>12
  <2>2. n \notin lost /\ n - 1 \notin lost
    BY <1>8, <1>12, <2>1
  <2>3. nal[k - 1] = 0 /\ nal[k] = 0
    <3>1. f[n] = nal[k] /\ f[n - 1] = nal[k - 1]
      BY <1>7, <2>2
    <3>2. u[n] = f[n] /\ u[n - 1] = f[n - 1]
      BY <1>2, <2>1
    <3>3. u[n] = 0 /\ u[n - 1] = 0
      BY <1>4, <1>12, <2>1
    <3> QED
      BY <3>1, <3>2, <3>3, Zenon
  <2>4. nal[k + 1] = 0
    <3>1. u[n + 1] = 0 /\ u[n + 1] = nal[k + 1]
      BY <1>1, <1>4, <1>5, <1>12, <2>1
    <3> QED
      BY <3>1
  <2>5. PICK j \in Nat : j = k - 1
    BY <1>1
  <2>6. j >= 1 /\ j + 2 <= Len(nal) /\ nal[j] = 0 /\ nal[j + 1] = 0 /\ nal[j + 2] = 0
    BY <1>1, <2>3, <2>4, <2>5
  <2> QED
    BY <1>9, <2>6
<1>13. CASE i = n
  <2>1. n \in Nat /\ n >= 1 /\ Len(c) >= 3
    BY <1>1, <1>6, <1>13
  <2>2. n \notin lost
    BY <1>8, <1>13, <2>1
  <2>3. nal[k] = 0
    BY <1>2, <1>4, <1>7, <1>13, <2>1, <2>2
  <2>4. nal[k + 1] = 0 /\ nal[k + 2] = 0
    <3>1. 1 \in 1 .. Len(c) /\ 2 \in 1 .. Len(c)
      BY <2>1
    <3>2. u[n + 1] = nal[k + 1] /\ u[n + 2] = nal[k + 2]
      BY <1>5, <3>1, Zenon
    <3>3. u[n + 1] = 0 /\ u[n + 2] = 0
      BY <1>4, <1>13, Zenon
    <3> QED
      BY <3>2, <3>3
  <2>5. k >= 1 /\ k + 2 <= Len(nal)
    BY <1>1, <2>1
  <2> QED
    BY <1>1, <1>9, <2>3, <2>4, <2>5
<1>14. CASE i > n
  <2>1. PICK j \in Nat : j = i - n
    BY <1>1, <1>6, <1>14
  <2>2. /\ j >= 1 /\ i = n + j /\ i + 1 = n + (j + 1) /\ i + 2 = n + (j + 2)
        /\ j \in 1 .. Len(c) /\ j + 1 \in 1 .. Len(c) /\ j + 2 \in 1 .. Len(c)
    BY <1>1, <1>6, <1>14, <2>1
  <2>3. nal[k + j] = 0 /\ nal[k + (j + 1)] = 0 /\ nal[k + (j + 2)] = 0
    BY <1>4, <1>5, <2>2
  <2>4. PICK l \in Nat : l = k + j
    BY <1>1
  <2>5. /\ l >= 1 /\ l + 2 <= Len(nal)
        /\ k + (j + 1) = l + 1 /\ k + (j + 2) = l + 2
    BY <1>1, <2>2, <2>4
  <2>6. nal[l] = 0 /\ nal[l + 1] = 0 /\ nal[l + 2] = 0
    BY <2>3, <2>4, <2>5, Zenon
  <2> QED
    BY <1>9, <2>5, <2>6
<1>15. i + 3 <= n \/ i = n - 2 \/ i = n - 1 \/ i = n \/ i > n
  BY <1>1, <1>6
<1> QED
  BY <1>10, <1>11, <1>12, <1>13, <1>14, <1>15
-----------------------------------------------------------------------------
(* What stands behind the start codes                                      *)

\* The beginning of a unit behind the start code at position i.
Begins(f, i, nal, aggregated) ==
  IF aggregated
  THEN i + 5 <= Len(f) /\ f[i + 4] = Len(nal) % 256 /\ f[i + 5] = nal[1]
  ELSE i + 4 <= Len(f) /\ f[i + 4] = nal[1]

Begun(f, i, units, tog) == \E n \in 1 .. Len(units) : Begins(f, i, units[n], n \in tog)

\* Every start code is true, and there is at most one for each unit.
Starts(f, lost, units, tog) ==
  /\ \A i \in Codes(f, lost) : Begun(f, i, units, tog)
  /\ Cardinality(Codes(f, lost)) <= Len(units)

LEMMA CodesFinite ==
  ASSUME NEW f, NEW lost, Len(f) \in Nat
  PROVE  IsFiniteSet(Codes(f, lost))
<1>1. 1 .. Len(f) - 3 = {} \/ (1 \in Int /\ Len(f) - 3 \in Int)
  OBVIOUS
<1>2. IsFiniteSet(1 .. Len(f) - 3)
  BY <1>1, FS_Interval
<1>3. Codes(f, lost) \in SUBSET (1 .. Len(f) - 3)
  BY DEF Codes
<1> QED
  BY <1>2, <1>3, FS_Subset

\* What stands behind a start code stays there.
LEMMA BegunStays ==
  ASSUME NEW f \in Seq(Bytes), NEW c \in Seq(Bytes), NEW lost, NEW i \in Codes(f, lost),
         NEW units, NEW tog, Begun(f, i, units, tog)
  PROVE  Begun(f \o c, i, units, tog)
<1> DEFINE u == f \o c
<1>1. /\ Len(u) = Len(f) + Len(c) /\ Len(f) \in Nat /\ Len(c) \in Nat
      /\ \A j \in 1 .. Len(f) : u[j] = f[j]
  BY Joined
<1>2. i \in Nat /\ i >= 1
  BY DEF Codes
<1>3. PICK n \in 1 .. Len(units) : Begins(f, i, units[n], n \in tog)
  BY DEF Begun
<1> HIDE DEF u
<1>4. CASE n \in tog
  <2>1. i + 5 <= Len(f) /\ f[i + 4] = Len(units[n]) % 256 /\ f[i + 5] = units[n][1]
    BY <1>3, <1>4 DEF Begins
  <2>2. i + 5 <= Len(u) /\ u[i + 4] = f[i + 4] /\ u[i + 5] = f[i + 5]
    <3>1. i + 5 <= Len(f)
      BY <2>1
    <3>2. i + 4 \in 1 .. Len(f) /\ i + 5 \in 1 .. Len(f) /\ i + 5 <= Len(u)
      BY <1>1, <1>2, <3>1
    <3> QED
      BY <1>1, <3>2, Zenon
  <2>3. Begins(u, i, units[n], n \in tog)
    BY <1>4, <2>1, <2>2, Zenon DEF Begins
  <2> QED
    BY <2>3 DEF Begun, u
<1>5. CASE n \notin tog
  <2>1. i + 4 <= Len(f) /\ f[i + 4] = units[n][1]
    BY <1>3, <1>5 DEF Begins
  <2>2. i + 4 <= Len(u) /\ u[i + 4] = f[i + 4]
    BY <1>1, <1>2, <2>1
  <2>3. Begins(u, i, units[n], n \in tog)
    BY <1>5, <2>1, <2>2, Zenon DEF Begins
  <2> QED
    BY <2>3 DEF Begun, u
<1> QED
  BY <1>4, <1>5

\* More units make no start code less true.
LEMMA BegunByMore ==
  ASSUME NEW f, NEW i, NEW units, NEW tog, NEW more, NEW tog2,
         Len(units) \in Nat /\ Len(more) \in Nat /\ Len(units) <= Len(more),
         \A n \in 1 .. Len(units) : more[n] = units[n] /\ (n \in tog <=> n \in tog2),
         Begun(f, i, units, tog)
  PROVE  Begun(f, i, more, tog2)
<1>1. PICK n \in 1 .. Len(units) : Begins(f, i, units[n], n \in tog)
  BY DEF Begun
<1>2. n \in 1 .. Len(more) /\ more[n] = units[n] /\ (n \in tog) = (n \in tog2)
  OBVIOUS
<1>3. Begins(f, i, more[n], n \in tog2)
  BY <1>1, <1>2, Zenon
<1> QED
  BY <1>2, <1>3 DEF Begun

\* A unit begins behind its own start code.
LEMMA UnitBegins ==
  ASSUME NEW f \in Seq(Bytes), NEW c, NEW m, NEW nal \in Nals, IsUnit(c, m, nal)
  PROVE  Begins(f \o c, Len(f) + 1, nal, m = 5)
<1> DEFINE u == f \o c
           n == Len(f)
<1>1. c \in Seq(Bytes) /\ Len(c) \in Nat /\ n \in Nat /\ m \in {4, 5} /\ Len(c) > m
  BY DEF IsUnit
<1>2. Len(u) = n + Len(c) /\ \A j \in 1 .. Len(c) : u[n + j] = c[j]
  BY <1>1, Joined
<1> HIDE DEF u, n
<1>3. c[m + 1] = nal[1]
  <2>1. 1 \in 1 .. Len(c) - m
    BY <1>1
  <2> QED
    BY <2>1 DEF IsUnit
<1>4. CASE m = 4
  <2>1. 5 \in 1 .. Len(c) /\ n + 5 = n + 1 + 4 /\ n + 1 + 4 <= Len(u)
    BY <1>1, <1>2, <1>4
  <2>2. u[n + 1 + 4] = c[5] /\ c[5] = nal[1]
    BY <1>2, <1>3, <1>4, <2>1
  <2> QED
    BY <1>4, <2>1, <2>2 DEF Begins, u, n
<1>5. CASE m = 5
  <2>1. /\ 5 \in 1 .. Len(c) /\ 6 \in 1 .. Len(c) /\ n + 5 = n + 1 + 4 /\ n + 6 = n + 1 + 5
        /\ n + 1 + 5 <= Len(u)
    BY <1>1, <1>2, <1>5
  <2>2. c[6] = nal[1]
    BY <1>3, <1>5
  <2>3. u[n + 1 + 4] = c[5] /\ u[n + 1 + 5] = c[6]
    BY <1>2, <2>1
  <2>4. c[5] = Len(nal) % 256
    BY <1>5, Zenon DEF IsUnit
  <2> QED
    BY <1>5, <2>1, <2>2, <2>3, <2>4, Zenon DEF Begins, u, n
<1> QED
  BY <1>1, <1>4, <1>5

\* A unit that arrives.
LEMMA StartsWithUnit ==
  ASSUME NEW f \in Seq(Bytes), NEW c, NEW m, NEW nal \in Nals, NEW lost,
         NEW units \in Seq(Nals), NEW tog, NEW tog2,
         IsUnit(c, m, nal), Starts(f, lost, units, tog),
         \A n \in 1 .. Len(units) : n \in tog <=> n \in tog2,
         m = 5 <=> Len(units) + 1 \in tog2
  PROVE  Starts(f \o c, lost, Append(units, nal), tog2)
<1> DEFINE u == f \o c
           more == Append(units, nal)
           l == Len(units)
<1>1. /\ l \in Nat /\ Len(more) = l + 1 /\ more[l + 1] = nal
      /\ \A n \in 1 .. l : more[n] = units[n]
  OBVIOUS
<1>2. c \in Seq(Bytes)
  BY DEF IsUnit
<1>3. u \in Seq(Bytes) /\ Len(u) \in Nat
  BY <1>2
<1>4. Codes(u, lost) \subseteq Codes(f, lost) \union {Len(f) + 1}
  BY UnitAdds
<1>5. \A i \in Codes(f, lost) : Begun(u, i, units, tog)
  BY <1>2, BegunStays DEF Starts
<1>6. Begins(u, Len(f) + 1, nal, m = 5)
  BY UnitBegins
<1> HIDE DEF u, more
<1>7. ASSUME NEW i \in Codes(u, lost)
      PROVE  Begun(u, i, more, tog2)
  <2>1. CASE i \in Codes(f, lost)
    <3>1. Begun(u, i, units, tog)
      BY <1>5, <2>1
    <3>2. Len(units) \in Nat /\ Len(more) \in Nat /\ Len(units) <= Len(more)
      BY <1>1
    <3>3. \A n \in 1 .. Len(units) : more[n] = units[n] /\ (n \in tog <=> n \in tog2)
      BY <1>1
    <3> QED
      BY <3>1, <3>2, <3>3, BegunByMore
  <2>2. CASE i = Len(f) + 1
    <3>1. l + 1 \in 1 .. Len(more)
      BY <1>1
    <3>2. (m = 5) = (l + 1 \in tog2)
      OBVIOUS
    <3>3. Begins(u, i, more[l + 1], l + 1 \in tog2)
      BY <1>1, <1>6, <2>2, <3>2, Zenon
    <3> QED
      BY <3>1, <3>3 DEF Begun
  <2> QED
    BY <1>4, <2>1, <2>2
<1>8. Cardinality(Codes(u, lost)) <= Len(more)
  <2> DEFINE old == Codes(f, lost)
             both == old \union {Len(f) + 1}
  <2>1. IsFiniteSet(old)
    BY CodesFinite
  <2>2. Cardinality(old) <= l
    BY DEF Starts
  <2>3. Cardinality(old) \in Nat
    BY <2>1, FS_CardinalityType
  <2> HIDE DEF old
  <2>4. /\ IsFiniteSet(both)
        /\ Cardinality(both) = IF Len(f) + 1 \in old THEN Cardinality(old)
                                                    ELSE Cardinality(old) + 1
    BY <2>1, FS_AddElement
  <2>5. Codes(u, lost) \in SUBSET both
    BY <1>4 DEF old
  <2> HIDE DEF both
  <2>6. Cardinality(Codes(u, lost)) <= Cardinality(both) /\ IsFiniteSet(Codes(u, lost))
    BY <2>4, <2>5, FS_Subset
  <2>7. Cardinality(Codes(u, lost)) \in Nat
    BY <2>6, FS_CardinalityType
  <2> QED
    BY <1>1, <2>2, <2>3, <2>4, <2>6, <2>7
<1> QED
  BY <1>7, <1>8 DEF Starts, u, more

\* A later fragment that arrives.
LEMMA StartsWithPart ==
  ASSUME NEW f \in Seq(Bytes), NEW c, NEW nal \in Nals, NEW k, NEW lost,
         NEW units \in Seq(Nals), NEW tog,
         IsPart(c, nal, k), EndsWith(f, lost, nal, k), Starts(f, lost, units, tog)
  PROVE  Starts(f \o c, lost, units, tog)
<1> DEFINE u == f \o c
<1>1. c \in Seq(Bytes)
  BY DEF IsPart
<1>2. \A i \in Codes(u, lost) : i \in Codes(f, lost)
  BY PartAdds
<1>3. \A i \in Codes(f, lost) : Begun(u, i, units, tog)
  BY <1>1, BegunStays DEF Starts
<1>4. Len(f) \in Nat /\ Len(units) \in Nat /\ Cardinality(Codes(f, lost)) <= Len(units)
  BY DEF Starts
<1> HIDE DEF u
<1>5. Cardinality(Codes(u, lost)) <= Len(units)
  <2>1. IsFiniteSet(Codes(f, lost))
    BY <1>4, CodesFinite
  <2>2. Codes(u, lost) \in SUBSET Codes(f, lost)
    BY <1>2
  <2>3. /\ Cardinality(Codes(u, lost)) <= Cardinality(Codes(f, lost))
        /\ IsFiniteSet(Codes(u, lost))
    BY <2>1, <2>2, FS_Subset
  <2>4. Cardinality(Codes(u, lost)) \in Nat /\ Cardinality(Codes(f, lost)) \in Nat
    BY <2>1, <2>3, FS_CardinalityType
  <2> QED
    BY <1>4, <2>3, <2>4
<1> QED
  BY <1>2, <1>3, <1>5 DEF Starts, u

\* A packet that is lost, of a unit that is new or not.
LEMMA StartsWithLoss ==
  ASSUME NEW f \in Seq(Bytes), NEW lost, NEW gap, NEW units, NEW tog, NEW more, NEW tog2,
         Len(units) \in Nat /\ Len(more) \in Nat /\ Len(units) <= Len(more),
         \A n \in 1 .. Len(units) : more[n] = units[n] /\ (n \in tog <=> n \in tog2),
         Starts(f, lost, units, tog)
  PROVE  Starts(f, lost \union {gap}, more, tog2)
<1> DEFINE old == Codes(f, lost)
           new == Codes(f, lost \union {gap})
<1>1. new \subseteq old
  BY DEF Codes, Across
<1>2. \A i \in new : Begun(f, i, more, tog2)
  <2>1. \A i \in old : Begun(f, i, units, tog)
    BY DEF Starts
  <2> HIDE DEF old, new
  <2>2. ASSUME NEW i \in new
        PROVE  Begun(f, i, more, tog2)
    <3>1. Begun(f, i, units, tog)
      BY <1>1, <2>1
    <3> QED
      BY <3>1, BegunByMore
  <2> QED
    BY <2>2
<1>3. Cardinality(new) <= Len(more)
  <2>1. IsFiniteSet(old)
    BY CodesFinite
  <2>2. Cardinality(old) <= Len(units)
    BY DEF Starts
  <2> HIDE DEF old, new
  <2>3. Cardinality(new) <= Cardinality(old) /\ IsFiniteSet(new)
    BY <1>1, <2>1, FS_Subset
  <2>4. Cardinality(new) \in Nat /\ Cardinality(old) \in Nat
    BY <2>1, <2>3, FS_CardinalityType
  <2> QED
    BY <2>2, <2>3, <2>4
<1> QED
  BY <1>2, <1>3 DEF Starts
-----------------------------------------------------------------------------
(* What the packets add to the frame                                       *)

\* A whole unit behind its start code.
LEMMA PieceIsUnit ==
  ASSUME NEW nal \in Nals, NEW aggregated \in BOOLEAN
  PROVE  IsUnit(PieceOf(nal, aggregated), IF aggregated THEN 5 ELSE 4, nal)
<1> DEFINE mid == IF aggregated THEN <<Len(nal) % 256>> ELSE <<>>
           m == IF aggregated THEN 5 ELSE 4
           p == h264prefix \o mid
           c == p \o nal
<1>1. /\ mid \in Seq(Bytes) /\ Len(mid) + 4 = m /\ m \in {4, 5}
      /\ m = 5 => mid[1] = Len(nal) % 256 /\ Len(mid) = 1
  <2>1. PICK b \in Bytes : b = Len(nal) % 256
    BY SizeBytes
  <2>2. /\ <<b>> \in Seq(Bytes) /\ <<>> \in Seq(Bytes) /\ Len(<<b>>) = 1 /\ Len(<<>>) = 0
        /\ <<b>>[1] = b
    OBVIOUS
  <2>3. (mid = <<b>> /\ m = 5) \/ (mid = <<>> /\ m = 4)
    BY <2>1, Zenon
  <2> HIDE DEF mid, m
  <2>4. /\ mid \in Seq(Bytes) /\ Len(mid) + 4 = m /\ m \in {4, 5}
        /\ m = 5 => mid[1] = b /\ Len(mid) = 1
    <3>1. ASSUME mid = <<b>>, m = 5
          PROVE  mid \in Seq(Bytes) /\ Len(mid) = 1 /\ mid[1] = b /\ m = 5
      BY <2>2, <3>1, Zenon
    <3>2. ASSUME mid = <<>>, m = 4
          PROVE  mid \in Seq(Bytes) /\ Len(mid) = 0 /\ m = 4
      BY <2>2, <3>2, Zenon
    <3>3. \/ mid \in Seq(Bytes) /\ Len(mid) = 1 /\ mid[1] = b /\ m = 5
          \/ mid \in Seq(Bytes) /\ Len(mid) = 0 /\ m = 4
      BY <2>3, <3>1, <3>2, Zenon
    <3>4. (Len(mid) = 1 /\ m = 5) \/ (Len(mid) = 0 /\ m = 4)
      BY <3>3, Zenon
    <3>5. Len(mid) + 4 = m /\ m \in {4, 5} /\ (m = 5 => Len(mid) = 1)
      <4>1. \A x, y : (x = 1 /\ y = 5) \/ (x = 0 /\ y = 4)
                       => x + 4 = y /\ y \in {4, 5} /\ (y = 5 => x = 1)
        OBVIOUS
      <4> QED
        BY <3>4, <4>1, Zenon
    <3>6. 4 # 5
      OBVIOUS
    <3> QED
      BY <3>3, <3>5, <3>6, Zenon
  <2> QED
    BY <2>1, <2>4, Zenon
<1>2. /\ nal \in Seq(Bytes) /\ Len(nal) \in Nat /\ Len(nal) >= 1
      /\ h264prefix \in Seq(Bytes) /\ Len(h264prefix) = 4
  BY PrefixTyped, UnitTyped
<1>3. h264prefix[1] = 0 /\ h264prefix[2] = 0 /\ h264prefix[3] = 0 /\ h264prefix[4] = 1
  BY PrefixTyped
<1> HIDE DEF mid, m
<1>4. /\ p \in Seq(Bytes) /\ Len(p) = m
      /\ \A i \in 1 .. 4 : p[i] = h264prefix[i]
      /\ m = 5 => p[5] = Len(nal) % 256
  <2> DEFINE l == Len(h264prefix)
  <2>A. mid \in Seq(Bytes) /\ h264prefix \in Seq(Bytes)
    BY <1>1, <1>2
  <2>1. /\ p \in Seq(Bytes) /\ Len(p) = l + Len(mid)
        /\ \A i \in 1 .. l : p[i] = h264prefix[i]
        /\ \A i \in 1 .. Len(mid) : p[l + i] = mid[i]
    BY <2>A, Joined
  <2> HIDE DEF p
  <2>B. l = 4
    BY <1>2
  <2> HIDE DEF l
  <2>2. Len(p) = m
    BY <1>1, <2>1, <2>B
  <2>3. m = 5 => p[5] = mid[1]
    BY <1>1, <2>1, <2>B
  <2> QED
    BY <1>1, <2>1, <2>2, <2>3, <2>B, Zenon
<1> HIDE DEF p
<1>5. /\ c \in Seq(Bytes) /\ Len(c) = m + Len(nal)
      /\ \A i \in 1 .. m : c[i] = p[i]
      /\ \A i \in 1 .. Len(nal) : c[m + i] = nal[i]
  <2>1. p \in Seq(Bytes) /\ nal \in Seq(Bytes)
    BY <1>2, <1>4
  <2>2. /\ c \in Seq(Bytes) /\ Len(c) = Len(p) + Len(nal)
        /\ \A i \in 1 .. Len(p) : c[i] = p[i]
        /\ \A i \in 1 .. Len(nal) : c[Len(p) + i] = nal[i]
    BY <2>1, Joined
  <2> QED
    BY <1>4, <2>2, Zenon
<1> HIDE DEF c
<1>6. Len(c) > m /\ Len(c) - m = Len(nal) /\ Len(c) - m <= Len(nal)
  BY <1>1, <1>2, <1>5
<1>7. c[1] = 0 /\ c[2] = 0 /\ c[3] = 0 /\ c[4] = 1
  BY <1>1, <1>3, <1>4, <1>5
<1>8. m = 5 => c[5] = Len(nal) % 256
  <2>1. m = 5 => c[5] = p[5]
    BY <1>5
  <2> QED
    BY <1>4, <2>1, Zenon
<1>9. IsUnit(c, m, nal)
  BY <1>1, <1>5, <1>6, <1>7, <1>8, Zenon DEF IsUnit
<1> QED
  BY <1>9, Zenon DEF PieceOf, c, p, m, mid

\* The first fragment: n bytes of the unit behind its first.
FirstOf(nal, n) == h264prefix \o <<nal[1]>> \o SubSeq(nal, 2, n + 1)

LEMMA FirstIsUnit ==
  ASSUME NEW nal \in Nals, NEW n \in 1 .. Len(nal) - 2
  PROVE  IsUnit(FirstOf(nal, n), 4, nal) /\ Len(FirstOf(nal, n)) = 5 + n
<1> DEFINE s == SubSeq(nal, 2, n + 1)
           b == <<nal[1]>>
           p == h264prefix \o b
           c == p \o s
<1>1. /\ nal \in Seq(Bytes) /\ Len(nal) \in Nat /\ n \in Nat /\ n >= 1 /\ n + 2 <= Len(nal)
      /\ \A i \in 1 .. Len(nal) : nal[i] \in Bytes
  BY UnitTyped
<1>2. s \in Seq(Bytes) /\ Len(s) = n /\ \A i \in 1 .. n : s[i] = nal[i + 1]
  BY <1>1
<1>3. b \in Seq(Bytes) /\ Len(b) = 1 /\ b[1] = nal[1]
  <2>1. nal[1] \in Bytes
    BY <1>1
  <2> QED
    BY <2>1, OneByte
<1>4. /\ h264prefix \in Seq(Bytes) /\ Len(h264prefix) = 4
      /\ h264prefix[1] = 0 /\ h264prefix[2] = 0 /\ h264prefix[3] = 0 /\ h264prefix[4] = 1
  BY PrefixTyped
<1> HIDE DEF s, b
<1>5. /\ p \in Seq(Bytes) /\ Len(p) = 5
      /\ p[1] = 0 /\ p[2] = 0 /\ p[3] = 0 /\ p[4] = 1 /\ p[5] = nal[1]
  <2> DEFINE l == Len(h264prefix)
  <2>1. b \in Seq(Bytes) /\ h264prefix \in Seq(Bytes)
    BY <1>3, <1>4
  <2>2. /\ p \in Seq(Bytes) /\ Len(p) = l + Len(b)
        /\ \A i \in 1 .. l : p[i] = h264prefix[i]
        /\ \A i \in 1 .. Len(b) : p[l + i] = b[i]
    BY <2>1, Joined
  <2> HIDE DEF p
  <2>3. l = 4
    BY <1>4
  <2> HIDE DEF l
  <2> QED
    BY <1>3, <1>4, <2>2, <2>3
<1> HIDE DEF p
<1>6. /\ c \in Seq(Bytes) /\ Len(c) = 5 + n
      /\ \A i \in 1 .. 5 : c[i] = p[i]
      /\ \A i \in 1 .. n : c[5 + i] = s[i]
  <2>1. p \in Seq(Bytes) /\ s \in Seq(Bytes)
    BY <1>2, <1>5
  <2>2. /\ c \in Seq(Bytes) /\ Len(c) = Len(p) + Len(s)
        /\ \A i \in 1 .. Len(p) : c[i] = p[i]
        /\ \A i \in 1 .. Len(s) : c[Len(p) + i] = s[i]
    BY <2>1, Joined
  <2> QED
    BY <1>2, <1>5, <2>2, Zenon
<1> HIDE DEF c
<1>7. c[1] = 0 /\ c[2] = 0 /\ c[3] = 0 /\ c[4] = 1 /\ c[5] = nal[1]
  BY <1>5, <1>6
<1>8. \A i \in 1 .. n + 1 : c[4 + i] = nal[i]
  <2>1. ASSUME NEW i \in 1 .. n + 1, i # 1
        PROVE  c[4 + i] = nal[i]
    <3>1. PICK j \in Nat : j = i - 1
      BY <1>1, <2>1
    <3>2. j \in 1 .. n /\ i = j + 1 /\ 4 + i = 5 + j
      BY <1>1, <2>1, <3>1
    <3> QED
      BY <1>2, <1>6, <3>2
  <2> QED
    BY <1>7, <2>1
<1>9. Len(c) > 4 /\ Len(c) - 4 = n + 1 /\ Len(c) - 4 <= Len(nal)
  BY <1>1, <1>6
<1>10. 4 \in {4, 5} /\ 4 # 5
  OBVIOUS
<1>11. IsUnit(c, 4, nal)
  BY <1>6, <1>7, <1>8, <1>9, <1>10, Zenon DEF IsUnit
<1> QED
  BY <1>6, <1>11, Zenon DEF FirstOf, c, p, b, s

\* The end of the frame behind the first fragment, and behind a later one.
LEMMA EndsAfterUnit ==
  ASSUME NEW f \in Seq(Bytes), NEW c, NEW nal \in Nals, NEW lost,
         NEW k \in Nat, k >= 2, IsUnit(c, 4, nal), Len(c) = 4 + k
  PROVE  EndsWith(f \o c, lost, nal, k)
<1> DEFINE u == f \o c
<1>1. c \in Seq(Bytes) /\ Len(f) \in Nat
  BY DEF IsUnit
<1>2. /\ Len(u) = Len(f) + (4 + k)
      /\ \A i \in 1 .. Len(c) : u[Len(f) + i] = c[i]
  BY <1>1, Joined
<1>3. c[4 + k] = nal[k] /\ c[4 + (k - 1)] = nal[k - 1]
  <2>1. \A i \in 1 .. Len(c) - 4 : c[4 + i] = nal[i]
    BY DEF IsUnit
  <2>2. k \in 1 .. Len(c) - 4 /\ k - 1 \in 1 .. Len(c) - 4
    OBVIOUS
  <2> QED
    BY <2>1, <2>2
<1> HIDE DEF u
<1>4. u[Len(u)] = c[4 + k] /\ u[Len(u) - 1] = c[4 + (k - 1)]
  <2>1. /\ 4 + k \in 1 .. Len(c) /\ 4 + (k - 1) \in 1 .. Len(c)
        /\ Len(u) - 1 = Len(f) + (4 + (k - 1))
    BY <1>1, <1>2
  <2> QED
    BY <1>2, <2>1
<1>5. Len(u) >= 1
  BY <1>1, <1>2
<1> QED
  BY <1>3, <1>4, <1>5, Zenon DEF EndsWith, u

LEMMA EndsAfterPart ==
  ASSUME NEW f \in Seq(Bytes), NEW c, NEW nal \in Nals, NEW lost, NEW k,
         IsPart(c, nal, k), EndsWith(f, lost, nal, k)
  PROVE  EndsWith(f \o c, lost, nal, k + Len(c))
<1> DEFINE u == f \o c
           n == Len(c)
<1>1. c \in Seq(Bytes) /\ Len(f) \in Nat /\ n \in Nat /\ n >= 1 /\ k \in Nat /\ k >= 2
  BY DEF IsPart
<1>2. /\ Len(u) = Len(f) + n /\ \A i \in 1 .. Len(f) : u[i] = f[i]
      /\ \A i \in 1 .. n : u[Len(f) + i] = c[i]
  BY <1>1, Joined
<1>3. \A i \in 1 .. n : c[i] = nal[k + i]
  BY DEF IsPart
<1> HIDE DEF u, n
<1>4. u[Len(u)] = nal[k + n]
  <2>1. n \in 1 .. n
    BY <1>1
  <2> QED
    BY <1>2, <1>3, <2>1
<1>5. Len(u) >= 1
  BY <1>1, <1>2
<1>6. ASSUME n >= 2
      PROVE  EndsWith(u, lost, nal, k + n)
  <2>1. n - 1 \in 1 .. n /\ Len(u) - 1 = Len(f) + (n - 1) /\ k + n - 1 = k + (n - 1)
    BY <1>1, <1>2, <1>6
  <2>2. u[Len(u) - 1] = nal[k + n - 1]
    BY <1>2, <1>3, <2>1
  <2> QED
    BY <1>1, <1>2, <1>4, <1>5, <2>2 DEF EndsWith
<1>7. ASSUME n = 1
      PROVE  EndsWith(u, lost, nal, k + n)
  <2>1. Len(u) - 1 = Len(f) /\ k + n - 1 = k
    BY <1>1, <1>2, <1>7
  <2>2. Len(f) \notin lost => Len(f) >= 1 /\ f[Len(f)] = nal[k]
    BY DEF EndsWith
  <2>3. Len(f) >= 1 => u[Len(f)] = f[Len(f)]
    BY <1>1, <1>2
  <2> QED
    BY <1>1, <1>2, <1>4, <1>5, <2>1, <2>2, <2>3 DEF EndsWith
<1>8. EndsWith(u, lost, nal, k + n)
  BY <1>1, <1>6, <1>7
<1> QED
  BY <1>8, Zenon DEF u, n
\* Nothing put behind a sequence, and a sequence put together from its parts.
LEMMA NothingJoined ==
  ASSUME NEW s \in Seq(Bytes)
  PROVE  s \o <<>> = s
OBVIOUS

LEMMA SplitJoined ==
  ASSUME NEW s \in Seq(Bytes), NEW n \in 1 .. Len(s)
  PROVE  SubSeq(s, 1, n) \o SubSeq(s, n + 1, Len(s)) = s
<1> DEFINE a == SubSeq(s, 1, n)
           b == SubSeq(s, n + 1, Len(s))
           u == a \o b
<1>1. Len(s) \in Nat /\ n \in Nat /\ n >= 1 /\ n <= Len(s)
  OBVIOUS
<1>2. /\ a \in Seq(Bytes) /\ Len(a) = n /\ \A i \in 1 .. n : a[i] = s[i]
      /\ b \in Seq(Bytes) /\ Len(b) = Len(s) - n
      /\ \A i \in 1 .. Len(s) - n : b[i] = s[n + i]
  BY <1>1
<1> HIDE DEF a, b
<1>3. a \in Seq(Bytes) /\ b \in Seq(Bytes)
  BY <1>2
<1>4. /\ u \in Seq(Bytes) /\ Len(u) = Len(a) + Len(b)
      /\ \A i \in 1 .. Len(a) : u[i] = a[i]
      /\ \A i \in 1 .. Len(b) : u[Len(a) + i] = b[i]
  BY <1>3, Joined
<1> HIDE DEF u
<1>5. Len(u) = Len(s)
  BY <1>1, <1>2, <1>4
<1>6. ASSUME NEW i \in 1 .. Len(s)
      PROVE  u[i] = s[i]
  <2>1. CASE i <= n
    <3>1. i \in 1 .. n
      BY <1>1, <2>1
    <3>2. u[i] = a[i] /\ a[i] = s[i]
      BY <1>2, <1>4, <3>1, Zenon
    <3> QED
      BY <3>2
  <2>2. CASE i > n
    <3>1. PICK j \in Nat : j = i - n
      BY <1>1, <2>2
    <3>2. j \in 1 .. Len(s) - n /\ i = n + j
      BY <1>1, <2>2, <3>1
    <3>3. u[n + j] = b[j] /\ b[j] = s[n + j]
      BY <1>2, <1>4, <3>2, Zenon
    <3> QED
      BY <3>2, <3>3, Zenon
  <2> QED
    BY <1>1, <2>1, <2>2
<1>7. u = s
  BY <1>4, <1>5, <1>6
<1> QED
  BY <1>7 DEF u, a, b

\* A unit that is alone in its packet.
LEMMA PlainPiece ==
  ASSUME NEW nal \in Nals
  PROVE  PieceOf(nal, FALSE) = h264prefix \o nal
<1>1. h264prefix \o <<>> = h264prefix
  BY PrefixTyped, NothingJoined
<1>2. PieceOf(nal, FALSE) = (h264prefix \o <<>>) \o nal
  BY Zenon DEF PieceOf
<1> QED
  BY <1>1, <1>2, Zenon

\* The first fragment and the bytes left make the unit.
LEMMA FirstAndRest ==
  ASSUME NEW nal \in Nals, NEW n \in 1 .. Len(nal) - 2
  PROVE  FirstOf(nal, n) \o SubSeq(nal, n + 2, Len(nal)) = PieceOf(nal, FALSE)
<1> DEFINE b == <<nal[1]>>
           s == SubSeq(nal, 2, n + 1)
           r == SubSeq(nal, n + 2, Len(nal))
<1>1. /\ nal \in Seq(Bytes) /\ Len(nal) \in Nat /\ n \in Nat /\ n >= 1 /\ n + 2 <= Len(nal)
      /\ \A i \in 1 .. Len(nal) : nal[i] \in Bytes
  BY UnitTyped
<1>2. s \in Seq(Bytes) /\ Len(s) = n /\ \A i \in 1 .. n : s[i] = nal[i + 1]
  BY <1>1
<1>3. r \in Seq(Bytes)
  BY <1>1
<1>4. b \in Seq(Bytes) /\ Len(b) = 1 /\ b[1] = nal[1]
  <2>1. nal[1] \in Bytes
    BY <1>1
  <2> QED
    BY <2>1, OneByte
<1>5. SubSeq(nal, 1, n + 1) = b \o s
  <2> DEFINE u == b \o s
             t == SubSeq(nal, 1, n + 1)
  <2>1. t \in Seq(Bytes) /\ Len(t) = n + 1 /\ \A i \in 1 .. n + 1 : t[i] = nal[i]
    BY <1>1
  <2> HIDE DEF t, b, s
  <2>2. b \in Seq(Bytes) /\ s \in Seq(Bytes)
    BY <1>2, <1>4
  <2>3. /\ u \in Seq(Bytes) /\ Len(u) = Len(b) + Len(s)
        /\ \A i \in 1 .. Len(b) : u[i] = b[i]
        /\ \A i \in 1 .. Len(s) : u[Len(b) + i] = s[i]
    BY <2>2, Joined
  <2> HIDE DEF u
  <2>4. Len(u) = n + 1
    BY <1>1, <1>2, <1>4, <2>3
  <2>5. u[1] = nal[1]
    BY <1>4, <2>3
  <2>6. ASSUME NEW i \in 1 .. n + 1, i # 1
        PROVE  u[i] = nal[i]
    <3>1. PICK j \in Nat : j = i - 1
      BY <1>1, <2>6
    <3>2. j \in 1 .. n /\ i = 1 + j /\ i = j + 1
      BY <1>1, <2>6, <3>1
    <3>3. u[1 + j] = s[j] /\ s[j] = nal[j + 1]
      BY <1>2, <1>4, <2>3, <3>2, Zenon
    <3> QED
      BY <3>2, <3>3, Zenon
  <2>7. \A i \in 1 .. n + 1 : u[i] = t[i]
    BY <2>1, <2>5, <2>6
  <2>8. u = t
    BY <1>1, <2>1, <2>3, <2>4, <2>7
  <2> QED
    BY <2>8, Zenon DEF u, t
<1>6. (b \o s) \o r = nal
  <2>1. n + 1 \in 1 .. Len(nal) /\ n + 1 + 1 = n + 2
    BY <1>1
  <2>2. SubSeq(nal, 1, n + 1) \o SubSeq(nal, n + 1 + 1, Len(nal)) = nal
    BY <1>1, <2>1, SplitJoined, Zenon
  <2> QED
    BY <1>5, <2>1, <2>2, Zenon
<1> HIDE DEF b, s, r
<1>7. h264prefix \in Seq(Bytes) /\ b \o s \in Seq(Bytes)
  BY <1>2, <1>4, PrefixTyped
<1>8. /\ Regrouped(h264prefix, b, s)
      /\ Regrouped(h264prefix, b \o s, r)
  BY <1>2, <1>3, <1>4, <1>7, ThreeJoined, Zenon
<1>9. FirstOf(nal, n) \o r = h264prefix \o nal
  BY <1>6, <1>8, Zenon DEF Regrouped, FirstOf, b, s
<1> QED
  BY <1>9, PlainPiece, Zenon DEF r
-----------------------------------------------------------------------------
(* The invariant                                                           *)

\* s is the rest of a unit, and the frame ends with what comes before it.
RestOf(f, lost, s, nal, k) ==
  /\ k \in Nat /\ k >= 2 /\ Len(nal) = k + Len(s)
  /\ \A i \in 1 .. Len(s) : s[i] = nal[k + i]
  /\ EndsWith(f, lost, nal, k)

LeftInv ==
  left # <<>> =>
    nals # <<>> /\ \E k \in Nat : RestOf(framebuf, gaps, left, Last(nals), k)

WholeInv == losses = 0 => framebuf \o left = Whole(nals, together)

StartsInv == Starts(framebuf, gaps, nals, together)

NalInv == TypeOK /\ LeftInv /\ WholeInv /\ StartsInv

\* A packet that arrives, and one that is lost.
FrameGrows(c) == framebuf' = framebuf \o c /\ gaps' = gaps /\ losses' = losses

PacketLost ==
  /\ losses < MaxLosses /\ losses' = losses + 1
  /\ gaps' = gaps \union {Len(framebuf)}
  /\ framebuf' = framebuf

LEMMA Transmitted ==
  ASSUME NEW buf, Transmit(buf)
  PROVE  FrameGrows(UnpackRtpNAL(buf)) \/ PacketLost
BY DEF Transmit, FrameGrows, PacketLost

FrameTypeOK ==
  /\ framebuf \in Seq(Bytes)
  /\ gaps \subseteq 0 .. Len(framebuf)
  /\ losses \in 0 .. MaxLosses

LEMMA FrameStaysTyped ==
  ASSUME NEW c \in Seq(Bytes), FrameTypeOK, FrameGrows(c) \/ PacketLost
  PROVE  FrameTypeOK'
<1>1. CASE FrameGrows(c)
  <2>1. framebuf' \in Seq(Bytes) /\ Len(framebuf') = Len(framebuf) + Len(c)
    BY <1>1 DEF FrameGrows, FrameTypeOK
  <2>2. Len(framebuf) \in Nat /\ Len(c) \in Nat
    BY DEF FrameTypeOK
  <2>3. 0 .. Len(framebuf) \subseteq 0 .. Len(framebuf')
    BY <2>1, <2>2
  <2>4. gaps' = gaps /\ losses' = losses
    BY <1>1 DEF FrameGrows
  <2> QED
    BY <2>1, <2>3, <2>4, Zenon DEF FrameTypeOK
<1>2. CASE PacketLost
  <2>1. framebuf' = framebuf /\ Len(framebuf) \in Nat
    BY <1>2 DEF PacketLost, FrameTypeOK
  <2>2. Len(framebuf) \in 0 .. Len(framebuf)
    BY <2>1
  <2>3. gaps' \subseteq 0 .. Len(framebuf)
    BY <1>2, <2>2, Zenon DEF PacketLost, FrameTypeOK
  <2>4. losses' \in 0 .. MaxLosses
    BY <1>2, BoundAssumption DEF PacketLost, FrameTypeOK
  <2> QED
    BY <2>1, <2>3, <2>4, Zenon DEF FrameTypeOK
<1> QED
  BY <1>1, <1>2

LEMMA LossIsCounted ==
  ASSUME FrameTypeOK, PacketLost
  PROVE  losses' # 0
BY BoundAssumption DEF FrameTypeOK, PacketLost
\* The units sent, one more among them.
LEMMA OneMoreUnit ==
  ASSUME TypeOK, NEW nal \in Nals, Len(nals) < MaxNals, NEW more, more = Append(nals, nal)
  PROVE  /\ more \in Seq(Nals) /\ Len(more) \in Nat /\ Len(more) <= MaxNals
         /\ Len(nals) \in Nat /\ Len(more) = Len(nals) + 1 /\ Len(nals) <= Len(more)
         /\ more # <<>> /\ Last(more) = nal
         /\ \A n \in 1 .. Len(nals) : more[n] = nals[n]
         /\ together \subseteq 1 .. Len(more) /\ Len(nals) + 1 \notin together
<1>1. nals \in Seq(Nals) /\ Len(nals) <= MaxNals /\ together \subseteq 1 .. Len(nals)
  BY DEF TypeOK
<1>2. MaxNals \in Nat
  BY BoundAssumption
<1>3. /\ more \in Seq(Nals) /\ Len(nals) \in Nat /\ Len(more) = Len(nals) + 1
      /\ more[Len(nals) + 1] = nal /\ \A n \in 1 .. Len(nals) : more[n] = nals[n]
  BY <1>1
<1>4. more # <<>> /\ Last(more) = nal
  BY <1>3 DEF Last
<1>5. Len(more) \in Nat /\ Len(more) <= MaxNals /\ Len(nals) <= Len(more)
  BY <1>2, <1>3
<1>6. 1 .. Len(nals) \subseteq 1 .. Len(more) /\ Len(nals) + 1 \notin 1 .. Len(nals)
  BY <1>3
<1> QED
  BY <1>1, <1>3, <1>4, <1>5, <1>6, Zenon

\* A unit that is sent on its own: its packet, or its first fragment, arrives
\* or is lost.
LEMMA UnitSent ==
  ASSUME NalInv, NEW nal \in Nals, NEW c, IsUnit(c, 4, nal),
         Len(nals) < MaxNals, nals' = Append(nals, nal), together' = together,
         FrameGrows(c) \/ PacketLost
  PROVE  StartsInv' /\ FrameTypeOK'
<1>1. FrameTypeOK /\ TypeOK /\ StartsInv
  BY Zenon DEF NalInv, TypeOK, FrameTypeOK, Bytes
<1>2. c \in Seq(Bytes)
  BY DEF IsUnit
<1>3. FrameTypeOK'
  BY <1>1, <1>2, FrameStaysTyped
<1>4. /\ Len(nals') \in Nat /\ Len(nals) \in Nat /\ Len(nals) <= Len(nals')
      /\ Len(nals) + 1 \notin together
      /\ \A n \in 1 .. Len(nals) : nals'[n] = nals[n]
  BY <1>1, OneMoreUnit, Zenon
<1>5. nals \in Seq(Nals) /\ framebuf \in Seq(Bytes)
  BY <1>1, Zenon DEF TypeOK, FrameTypeOK
<1>6. Starts(framebuf, gaps, nals, together)
  BY <1>1 DEF StartsInv
<1>7. CASE FrameGrows(c)
  <2>1. 4 = 5 <=> Len(nals) + 1 \in together
    <3>1. 4 # 5
      OBVIOUS
    <3> QED
      BY <1>4, <3>1, Zenon
  <2>2. Starts(framebuf \o c, gaps, Append(nals, nal), together)
    BY <1>5, <1>6, <2>1, StartsWithUnit, Zenon
  <2> QED
    BY <1>3, <1>7, <2>2, Zenon DEF StartsInv, FrameGrows
<1>8. CASE PacketLost
  <2>1. /\ Len(nals) \in Nat /\ Len(nals') \in Nat /\ Len(nals) <= Len(nals')
        /\ \A n \in 1 .. Len(nals) :
             nals'[n] = nals[n] /\ (n \in together <=> n \in together)
    BY <1>4, Zenon
  <2>2. Starts(framebuf, gaps \union {Len(framebuf)}, nals', together)
    BY <1>5, <1>6, <2>1, StartsWithLoss, Zenon
  <2> QED
    BY <1>3, <1>8, <2>2, Zenon DEF StartsInv, PacketLost
<1> QED
  BY <1>7, <1>8

LEMMA SingleKeeps ==
  ASSUME NalInv, NEW nal \in Nals, SendSingle(nal)
  PROVE  NalInv'
<1> DEFINE c == PieceOf(nal, FALSE)
<1>1. UnpackRtpNAL(nal) = c
  BY SingleUnpacked, PlainPiece, Zenon
<1>2. /\ left = <<>> /\ left' = <<>> /\ together' = together
      /\ Len(nals) < MaxNals /\ nals' = Append(nals, nal) /\ Transmit(nal)
  BY Zenon DEF SendSingle
<1>3. IsUnit(c, 4, nal) /\ c \in Seq(Bytes)
  BY PieceIsUnit, PieceTyped, Zenon
<1> HIDE DEF c
<1>4. FrameGrows(c) \/ PacketLost
  BY <1>1, <1>2, Transmitted, Zenon
<1>5. StartsInv' /\ FrameTypeOK'
  BY <1>2, <1>3, <1>4, UnitSent, Zenon
<1>6. TypeOK /\ WholeInv /\ FrameTypeOK
  BY Zenon DEF NalInv, TypeOK, FrameTypeOK, Bytes
<1>7. /\ nals' \in Seq(Nals) /\ Len(nals') <= MaxNals /\ together \subseteq 1 .. Len(nals')
      /\ Len(nals) + 1 \notin together
  BY <1>2, <1>6, OneMoreUnit, Zenon
<1>8. TypeOK'
  <2>1. left' \in Seq(0 .. 255)
    BY <1>2
  <2> QED
    BY <1>2, <1>5, <1>7, <2>1, Zenon DEF TypeOK, FrameTypeOK, Bytes
<1>9. LeftInv'
  BY <1>2, Zenon DEF LeftInv
<1>10. WholeInv'
  <2>1. CASE FrameGrows(c)
    <3>1. SUFFICES ASSUME losses' = 0
                   PROVE  framebuf' \o left' = Whole(nals', together')
      BY DEF WholeInv
    <3>2. framebuf \o left = Whole(nals, together) /\ framebuf' = framebuf \o c
      BY <1>6, <2>1, <3>1, Zenon DEF WholeInv, FrameGrows
    <3>3. framebuf \o <<>> = framebuf /\ framebuf' \o <<>> = framebuf'
      BY <1>5, <1>6, NothingJoined, Zenon DEF FrameTypeOK
    <3>4. nals \in Seq(Nals)
      BY <1>6 DEF TypeOK
    <3>5. WholeGrows(nals, together, nal, together)
      BY <3>4, WholeAppend, Zenon
    <3>6. (Len(nals) + 1 \in together) = FALSE
      BY <1>7
    <3>7. Whole(Append(nals, nal), together) = Whole(nals, together) \o c
      BY <3>5, <3>6, Zenon DEF WholeGrows, c
    <3> QED
      BY <1>2, <3>2, <3>3, <3>7, Zenon
  <2>2. CASE PacketLost
    BY <1>6, <2>2, LossIsCounted, Zenon DEF WholeInv
  <2> QED
    BY <1>4, <2>1, <2>2
<1> QED
  BY <1>5, <1>8, <1>9, <1>10, Zenon DEF NalInv
LEMMA FirstKeeps ==
  ASSUME NalInv, NEW nal \in Nals, NEW n \in 1 .. Len(nal), SendFirst(nal, n)
  PROVE  NalInv'
<1> DEFINE c == FirstOf(nal, n)
           s == SubSeq(nal, 2, n + 1)
           r == SubSeq(nal, n + 2, Len(nal))
<1>1. /\ left = <<>> /\ left' = r /\ together' = together
      /\ Len(nals) < MaxNals /\ nals' = Append(nals, nal) /\ n \in 1 .. Len(nal) - 2
      /\ Transmit(<<Indicator(nal), 128 + TYPE(nal[1])>> \o s)
  BY Zenon DEF SendFirst
<1>2. nal \in Seq(Bytes) /\ Len(nal) \in Nat /\ n \in Nat /\ n >= 1 /\ n + 2 <= Len(nal)
  BY <1>1, UnitTyped
<1>3. s \in Seq(Bytes)
  BY <1>2
<1>4. /\ r \in Seq(Bytes) /\ Len(nal) = (n + 1) + Len(r)
      /\ \A i \in 1 .. Len(r) : r[i] = nal[(n + 1) + i]
  BY <1>2
<1>5. UnpackRtpNAL(<<Indicator(nal), 128 + TYPE(nal[1])>> \o s) = c
  BY <1>3, FirstUnpacked, Zenon DEF FirstOf
<1>6. c \o r = PieceOf(nal, FALSE)
  BY <1>1, FirstAndRest, Zenon
<1>7. IsUnit(c, 4, nal) /\ Len(c) = 5 + n
  BY <1>1, FirstIsUnit
<1>8. c \in Seq(Bytes)
  BY <1>7 DEF IsUnit
<1>9. FrameGrows(c) \/ PacketLost
  BY <1>1, <1>5, Transmitted, Zenon
<1> HIDE DEF c, s, r
<1>10. StartsInv' /\ FrameTypeOK'
  BY <1>1, <1>7, <1>9, UnitSent, Zenon
<1>11. TypeOK /\ WholeInv /\ FrameTypeOK
  BY Zenon DEF NalInv, TypeOK, FrameTypeOK, Bytes
<1>12. /\ nals' \in Seq(Nals) /\ Len(nals') <= MaxNals /\ together \subseteq 1 .. Len(nals')
       /\ Len(nals) + 1 \notin together /\ nals' # <<>> /\ Last(nals') = nal
  BY <1>1, <1>11, OneMoreUnit, Zenon
<1>13. TypeOK'
  BY <1>1, <1>4, <1>10, <1>12, Zenon DEF TypeOK, FrameTypeOK, Bytes
<1>14. LeftInv'
  <2>1. PICK k \in Nat : k = n + 1
    BY <1>2
  <2>2. k >= 2 /\ Len(c) = 4 + k
    BY <1>2, <1>7, <2>1
  <2>3. EndsWith(framebuf', gaps', nal, k)
    <3>1. CASE FrameGrows(c)
      <4>1. framebuf \in Seq(Bytes)
        BY <1>11 DEF FrameTypeOK
      <4>2. EndsWith(framebuf \o c, gaps, nal, k)
        BY <1>7, <2>2, <4>1, EndsAfterUnit
      <4> QED
        BY <3>1, <4>2, Zenon DEF FrameGrows
    <3>2. CASE PacketLost
      BY <3>2 DEF PacketLost, EndsWith
    <3> QED
      BY <1>9, <3>1, <3>2
  <2>4. Len(nal) = k + Len(r) /\ \A i \in 1 .. Len(r) : r[i] = nal[k + i]
    BY <1>4, <2>1, Zenon
  <2>5. RestOf(framebuf', gaps', left', Last(nals'), k)
    BY <1>1, <1>12, <2>2, <2>3, <2>4, Zenon DEF RestOf
  <2> QED
    BY <1>12, <2>5, Zenon DEF LeftInv
<1>15. WholeInv'
  <2>1. CASE FrameGrows(c)
    <3>1. SUFFICES ASSUME losses' = 0
                   PROVE  framebuf' \o left' = Whole(nals', together')
      BY DEF WholeInv
    <3>2. framebuf \o left = Whole(nals, together) /\ framebuf' = framebuf \o c
      BY <1>11, <2>1, <3>1, Zenon DEF WholeInv, FrameGrows
    <3>3. framebuf \o <<>> = framebuf /\ framebuf \in Seq(Bytes)
      BY <1>11, NothingJoined, Zenon DEF FrameTypeOK
    <3>4. Regrouped(framebuf, c, r)
      BY <1>4, <1>8, <3>3, ThreeJoined, Zenon
    <3>5. framebuf' \o left' = Whole(nals, together) \o PieceOf(nal, FALSE)
      BY <1>1, <1>6, <3>2, <3>3, <3>4, Zenon DEF Regrouped
    <3>6. nals \in Seq(Nals)
      BY <1>11 DEF TypeOK
    <3>7. WholeGrows(nals, together, nal, together)
      BY <3>6, WholeAppend, Zenon
    <3>8. (Len(nals) + 1 \in together) = FALSE
      BY <1>12
    <3>9. Whole(Append(nals, nal), together) = Whole(nals, together) \o PieceOf(nal, FALSE)
      BY <3>7, <3>8, Zenon DEF WholeGrows
    <3> QED
      BY <1>1, <3>5, <3>9, Zenon
  <2>2. CASE PacketLost
    BY <1>11, <2>2, LossIsCounted, Zenon DEF WholeInv
  <2> QED
    BY <1>9, <2>1, <2>2
<1> QED
  BY <1>10, <1>13, <1>14, <1>15, Zenon DEF NalInv

LEMMA FragmentKeeps ==
  ASSUME NalInv, NEW n \in 1 .. Len(left), SendFragment(n)
  PROVE  NalInv'
<1> DEFINE nal == Last(nals)
           c == SubSeq(left, 1, n)
           r == SubSeq(left, n + 1, Len(left))
           e == IF n = Len(left) THEN 64 ELSE 0
<1>1. /\ left' = r /\ together' = together /\ nals' = nals
      /\ Transmit(<<Indicator(nal), e + TYPE(nal[1])>> \o c)
  BY Zenon DEF SendFragment
<1>2. TypeOK /\ LeftInv /\ WholeInv /\ StartsInv /\ FrameTypeOK
  BY Zenon DEF NalInv, TypeOK, FrameTypeOK, Bytes
<1>3. left \in Seq(Bytes) /\ nals \in Seq(Nals)
  BY <1>2, Zenon DEF TypeOK, Bytes
<1>4. Len(left) \in Nat /\ n \in Nat /\ n >= 1 /\ n <= Len(left) /\ left # <<>>
  BY <1>3
<1>5. /\ c \in Seq(Bytes) /\ Len(c) = n /\ \A i \in 1 .. n : c[i] = left[i]
      /\ r \in Seq(Bytes) /\ Len(r) = Len(left) - n
      /\ \A i \in 1 .. Len(r) : r[i] = left[n + i]
  BY <1>3, <1>4
<1>6. e \in {0, 64}
  OBVIOUS
<1>7. c \o r = left
  BY <1>3, SplitJoined
<1> HIDE DEF nal, c, r, e
<1>8. nals # <<>> /\ nal \in Nals
  BY <1>2, <1>3, <1>4 DEF LeftInv, nal, Last
<1>9. PICK k \in Nat : RestOf(framebuf, gaps, left, nal, k)
  BY <1>2, <1>4, Zenon DEF LeftInv, nal
<1>10. /\ k >= 2 /\ Len(nal) = k + Len(left) /\ EndsWith(framebuf, gaps, nal, k)
       /\ \A i \in 1 .. Len(left) : left[i] = nal[k + i]
  BY <1>9, Zenon DEF RestOf
<1>11. UnpackRtpNAL(<<Indicator(nal), e + TYPE(nal[1])>> \o c) = c
  BY <1>5, <1>6, <1>8, FragmentUnpacked, Zenon
<1>12. FrameGrows(c) \/ PacketLost
  BY <1>1, <1>11, Transmitted, Zenon
<1>13. FrameTypeOK'
  BY <1>2, <1>5, <1>12, FrameStaysTyped, Zenon
<1>14. IsPart(c, nal, k)
  BY <1>4, <1>5, <1>10 DEF IsPart
<1>15. TypeOK'
  BY <1>1, <1>2, <1>5, <1>13, Zenon DEF TypeOK, FrameTypeOK, Bytes
<1>16. LeftInv'
  <2>1. PICK l \in Nat : l = k + n
    BY <1>4
  <2>2. l >= 2 /\ Len(nal) = l + Len(r) /\ k + Len(c) = l
    BY <1>4, <1>5, <1>10, <2>1
  <2>3. \A i \in 1 .. Len(r) : r[i] = nal[l + i]
    <3>1. ASSUME NEW i \in 1 .. Len(r)
          PROVE  r[i] = nal[l + i]
      <4>1. n + i \in 1 .. Len(left) /\ k + (n + i) = l + i
        BY <1>4, <1>5, <2>1
      <4> QED
        BY <1>5, <1>10, <4>1
    <3> QED
      BY <3>1
  <2>4. EndsWith(framebuf', gaps', nal, l)
    <3>1. CASE FrameGrows(c)
      <4>1. framebuf \in Seq(Bytes)
        BY <1>2 DEF FrameTypeOK
      <4>2. EndsWith(framebuf \o c, gaps, nal, k + Len(c))
        BY <1>8, <1>10, <1>14, <4>1, EndsAfterPart, Zenon
      <4> QED
        BY <2>2, <3>1, <4>2, Zenon DEF FrameGrows
    <3>2. CASE PacketLost
      BY <3>2 DEF PacketLost, EndsWith
    <3> QED
      BY <1>12, <3>1, <3>2
  <2>5. RestOf(framebuf', gaps', left', Last(nals'), l)
    BY <1>1, <2>2, <2>3, <2>4, Zenon DEF RestOf, nal
  <2> QED
    BY <1>1, <1>8, <2>5, Zenon DEF LeftInv
<1>17. WholeInv'
  <2>1. CASE FrameGrows(c)
    <3>1. SUFFICES ASSUME losses' = 0
                   PROVE  framebuf' \o left' = Whole(nals', together')
      BY DEF WholeInv
    <3>2. framebuf \o left = Whole(nals, together) /\ framebuf' = framebuf \o c
      BY <1>2, <2>1, <3>1, Zenon DEF WholeInv, FrameGrows
    <3>3. Regrouped(framebuf, c, r)
      BY <1>2, <1>5, ThreeJoined, Zenon DEF FrameTypeOK
    <3> QED
      BY <1>1, <1>7, <3>2, <3>3, Zenon DEF Regrouped
  <2>2. CASE PacketLost
    BY <1>2, <2>2, LossIsCounted, Zenon DEF WholeInv
  <2> QED
    BY <1>12, <2>1, <2>2
<1>18. StartsInv'
  <2>1. Starts(framebuf, gaps, nals, together) /\ framebuf \in Seq(Bytes)
    BY <1>2, Zenon DEF StartsInv, FrameTypeOK
  <2>2. CASE FrameGrows(c)
    <3>1. Starts(framebuf \o c, gaps, nals, together)
      BY <1>3, <1>8, <1>10, <1>14, <2>1, StartsWithPart, Zenon
    <3> QED
      BY <1>1, <2>2, <3>1, Zenon DEF StartsInv, FrameGrows
  <2>3. CASE PacketLost
    <3>1. /\ Len(nals) \in Nat /\ Len(nals) <= Len(nals)
          /\ \A i \in 1 .. Len(nals) :
               nals[i] = nals[i] /\ (i \in together <=> i \in together)
      BY <1>3
    <3>2. Starts(framebuf, gaps \union {Len(framebuf)}, nals, together)
      BY <2>1, <3>1, StartsWithLoss, Zenon
    <3> QED
      BY <1>1, <2>3, <3>2, Zenon DEF StartsInv, PacketLost
  <2> QED
    BY <1>12, <2>2, <2>3
<1> QED
  BY <1>15, <1>16, <1>17, <1>18, Zenon DEF NalInv
LEMMA TogetherKeeps ==
  ASSUME NalInv, NEW nal1 \in Nals, NEW nal2 \in Nals, SendTogether(nal1, nal2)
  PROVE  NalInv'
<1> DEFINE c1 == PieceOf(nal1, TRUE)
           c2 == PieceOf(nal2, TRUE)
           c == c1 \o c2
           one == Append(nals, nal1)
           two == Append(one, nal2)
<1>1. /\ left = <<>> /\ left' = <<>> /\ Len(nals) + 1 < MaxNals
      /\ nals' = nals \o <<nal1, nal2>>
      /\ together' = together \union {Len(nals) + 1, Len(nals) + 2}
      /\ Transmit(PacketOf(nal1, nal2))
  BY Zenon DEF SendTogether, PacketOf
<1>2. /\ TypeOK /\ WholeInv /\ FrameTypeOK
      /\ Starts(framebuf, gaps, nals, together)
  BY Zenon DEF NalInv, StartsInv, TypeOK, FrameTypeOK, Bytes
<1>3. nals \in Seq(Nals) /\ together \subseteq 1 .. Len(nals) /\ MaxNals \in Nat
  BY <1>2, BoundAssumption DEF TypeOK
<1>4. framebuf \in Seq(Bytes)
  BY <1>2 DEF FrameTypeOK
<1>5. /\ one \in Seq(Nals) /\ Len(one) = Len(nals) + 1 /\ Len(nals) \in Nat
      /\ \A n \in 1 .. Len(nals) : one[n] = nals[n]
  BY <1>3
<1>6. two = nals' /\ two \in Seq(Nals) /\ Len(two) = Len(nals) + 2
  <2>1. two = nals \o <<nal1, nal2>>
    BY <1>3
  <2>2. two \in Seq(Nals) /\ Len(two) = Len(one) + 1
    BY <1>5
  <2> QED
    BY <1>1, <1>5, <2>1, <2>2
<1>7. UnpackRtpNAL(PacketOf(nal1, nal2)) = c
  <2>1. c1 = CodeOf(nal1) \o nal1 /\ c2 = CodeOf(nal2) \o nal2
    BY Zenon DEF PieceOf, CodeOf
  <2> HIDE DEF c1, c2
  <2> QED
    BY <2>1, TogetherUnpacked, Zenon
<1>8. /\ IsUnit(c1, 5, nal1) /\ IsUnit(c2, 5, nal2)
      /\ c1 \in Seq(Bytes) /\ c2 \in Seq(Bytes)
  BY PieceIsUnit, PieceTyped, Zenon
<1> HIDE DEF c1, c2, one, two
<1>9. c \in Seq(Bytes)
  BY <1>8
<1>10. FrameGrows(c) \/ PacketLost
  BY <1>1, <1>7, Transmitted, Zenon
<1>11. FrameTypeOK'
  BY <1>2, <1>9, <1>10, FrameStaysTyped, Zenon
<1>12. /\ together' \subseteq 1 .. Len(two)
       /\ \A n \in 1 .. Len(nals) : n \in together <=> n \in together'
       /\ Len(nals) + 1 \in together' /\ Len(one) + 1 \in together'
  <2>1. PICK l \in Nat : l = Len(nals)
    BY <1>5
  <2>2. together' = together \union {l + 1, l + 2} /\ together \subseteq 1 .. l
    BY <1>1, <1>3, <2>1, Zenon
  <2>3. Len(two) = l + 2 /\ Len(one) + 1 = l + 2
    BY <1>5, <1>6, <2>1
  <2>4. together' \subseteq 1 .. l + 2
    <3>1. 1 .. l \subseteq 1 .. l + 2 /\ l + 1 \in 1 .. l + 2 /\ l + 2 \in 1 .. l + 2
      BY <2>1
    <3> QED
      BY <2>2, <3>1, Zenon
  <2>5. \A n \in 1 .. l : n # l + 1 /\ n # l + 2
    BY <2>1
  <2>6. \A n \in 1 .. l : n \in together <=> n \in together'
    BY <2>2, <2>5, Zenon
  <2> QED
    BY <2>1, <2>2, <2>3, <2>4, <2>6, Zenon
<1>13. TypeOK'
  <2>1. left' \in Seq(0 .. 255)
    BY <1>1
  <2>2. Len(two) <= MaxNals
    BY <1>1, <1>3, <1>5, <1>6
  <2> QED
    BY <1>6, <1>11, <1>12, <2>1, <2>2, Zenon DEF TypeOK, FrameTypeOK, Bytes
<1>14. LeftInv'
  BY <1>1, Zenon DEF LeftInv
<1>15. Regrouped(framebuf, c1, c2)
  BY <1>4, <1>8, ThreeJoined, Zenon
<1>16. framebuf \o c = (framebuf \o c1) \o c2
  BY <1>15, Zenon DEF Regrouped
<1>17. WholeInv'
  <2>1. CASE FrameGrows(c)
    <3>1. SUFFICES ASSUME losses' = 0
                   PROVE  framebuf' \o left' = Whole(nals', together')
      BY DEF WholeInv
    <3>2. framebuf \o left = Whole(nals, together) /\ framebuf' = framebuf \o c
      BY <1>2, <2>1, <3>1, Zenon DEF WholeInv, FrameGrows
    <3>3. framebuf \o <<>> = framebuf /\ framebuf' \o <<>> = framebuf'
      BY <1>4, <1>11, NothingJoined, Zenon DEF FrameTypeOK
    <3>4. WholeGrows(nals, together, nal1, together')
      BY <1>3, <1>12, WholeAppend, Zenon
    <3>5. WholeGrows(one, together', nal2, together')
      BY <1>5, WholeAppend, Zenon
    <3>6. (Len(nals) + 1 \in together') = TRUE /\ (Len(one) + 1 \in together') = TRUE
      BY <1>12
    <3>7. Whole(one, together') = Whole(nals, together) \o c1
      BY <3>4, <3>6, Zenon DEF WholeGrows, one, c1
    <3>8. Whole(two, together') = Whole(one, together') \o c2
      BY <3>5, <3>6, Zenon DEF WholeGrows, two, c2
    <3> QED
      BY <1>1, <1>6, <1>16, <3>2, <3>3, <3>7, <3>8, Zenon
  <2>2. CASE PacketLost
    BY <1>2, <2>2, LossIsCounted, Zenon DEF WholeInv
  <2> QED
    BY <1>10, <2>1, <2>2
<1>18. StartsInv'
  <2>1. CASE FrameGrows(c)
    <3>1. 5 = 5 <=> Len(nals) + 1 \in together'
      BY <1>12
    <3>2. Starts(framebuf \o c1, gaps, one, together')
      BY <1>2, <1>3, <1>4, <1>8, <1>12, <3>1, StartsWithUnit, Zenon DEF one
    <3>3. framebuf \o c1 \in Seq(Bytes)
      BY <1>4, <1>8
    <3>4. \A n \in 1 .. Len(one) : n \in together' <=> n \in together'
      OBVIOUS
    <3>5. 5 = 5 <=> Len(one) + 1 \in together'
      BY <1>12
    <3>6. Starts((framebuf \o c1) \o c2, gaps, two, together')
      BY <1>5, <1>8, <3>2, <3>3, <3>4, <3>5, StartsWithUnit, Zenon DEF two
    <3> QED
      BY <1>6, <1>16, <2>1, <3>6, Zenon DEF StartsInv, FrameGrows
  <2>2. CASE PacketLost
    <3>1. Len(nals) \in Nat /\ Len(two) \in Nat /\ Len(nals) <= Len(two)
      BY <1>5, <1>6
    <3>2. \A n \in 1 .. Len(nals) :
            two[n] = nals[n] /\ (n \in together <=> n \in together')
      <4>1. \A n \in 1 .. Len(nals) : two[n] = one[n]
        BY <1>5 DEF two
      <4> QED
        BY <1>5, <1>12, <4>1, Zenon
    <3>3. Starts(framebuf, gaps \union {Len(framebuf)}, two, together')
      BY <1>2, <1>4, <3>1, <3>2, StartsWithLoss, Zenon
    <3> QED
      BY <1>6, <2>2, <3>3, Zenon DEF StartsInv, PacketLost
  <2> QED
    BY <1>10, <2>1, <2>2
<1> QED
  BY <1>13, <1>14, <1>17, <1>18, Zenon DEF NalInv

LEMMA InitNal ==
  ASSUME Init
  PROVE  NalInv
<1>1. nals = <<>> /\ together = {} /\ left = <<>> /\ gaps = {} /\ losses = 0 /\ framebuf = <<>>
  BY DEF Init
<1>2. TypeOK
  BY <1>1, BoundAssumption DEF TypeOK
<1>3. LeftInv
  BY <1>1 DEF LeftInv
<1>4. WholeInv
  <2>1. <<>> \o <<>> = <<>> /\ Len(<<>>) = 0
    OBVIOUS
  <2>2. Len(PiecesOf(<<>>, {})) = 0
    <3>1. <<>> \in Seq(Nals)
      OBVIOUS
    <3> QED
      BY <2>1, <3>1, PiecesTyped, Zenon
  <2>3. Whole(<<>>, {}) = <<>>
    <3> DEFINE s == PiecesOf(<<>>, {})
    <3>1. Len(s) = 0
      BY <2>2
    <3> HIDE DEF s
    <3>2. FlattenSeq(s) = <<>>
      BY <3>1 DEF FlattenSeq
    <3> QED
      BY <3>2, Zenon DEF Whole, s
  <2> QED
    BY <1>1, <2>1, <2>3, Zenon DEF WholeInv
<1>5. StartsInv
  <2>1. Codes(<<>>, {}) = {}
    BY DEF Codes
  <2>2. Cardinality({}) = 0 /\ Len(<<>>) = 0
    BY FS_EmptySet
  <2>3. Cardinality(Codes(<<>>, {})) <= Len(<<>>)
    <3>1. 0 <= 0
      OBVIOUS
    <3> QED
      BY <2>1, <2>2, <3>1, Zenon
  <2> QED
    BY <1>1, <2>1, <2>3, Zenon DEF StartsInv, Starts
<1> QED
  BY <1>2, <1>3, <1>4, <1>5, Zenon DEF NalInv

LEMMA StepKeepsNal ==
  ASSUME NalInv, [Next]_vars
  PROVE  NalInv'
<1>1. ASSUME NEW nal \in Nals, SendSingle(nal)
      PROVE  NalInv'
  BY <1>1, SingleKeeps
<1>2. ASSUME NEW nal \in Nals, NEW n \in 1 .. Len(nal), SendFirst(nal, n)
      PROVE  NalInv'
  BY <1>2, FirstKeeps
<1>3. ASSUME NEW n \in 1 .. Len(left), SendFragment(n)
      PROVE  NalInv'
  BY <1>3, FragmentKeeps
<1>4. ASSUME NEW nal1 \in Nals, NEW nal2 \in Nals, SendTogether(nal1, nal2)
      PROVE  NalInv'
  BY <1>4, TogetherKeeps
<1>5. CASE UNCHANGED vars
  <2>1. /\ nals' = nals /\ together' = together /\ left' = left
        /\ gaps' = gaps /\ losses' = losses /\ framebuf' = framebuf
    BY <1>5 DEF vars
  <2>2. TypeOK' /\ LeftInv' /\ WholeInv' /\ StartsInv'
    BY <2>1, Zenon DEF NalInv, TypeOK, LeftInv, WholeInv, StartsInv
  <2> QED
    BY <2>2, Zenon DEF NalInv
<1> QED
  BY <1>1, <1>2, <1>3, <1>4, <1>5 DEF Next

LEMMA NalInvariance == Spec => []NalInv
<1>1. Init => NalInv
  BY InitNal
<1>2. NalInv /\ [Next]_vars => NalInv'
  BY StepKeepsNal
<1> QED
  BY <1>1, <1>2, PTL DEF Spec
-----------------------------------------------------------------------------
(* The properties                                                          *)

\* The frame that UnpackRtpNAL makes is a sequence of bytes; the units, the gaps
\* and what is left of a unit keep their types.
THEOREM NalTyped == Spec => []TypeOK
<1>1. NalInv => TypeOK
  BY Zenon DEF NalInv
<1> QED
  BY <1>1, NalInvariance, PTL

\* While no packet is lost, the frame that UnpackRtpNAL makes (rtp.c) is the
\* server's NAL units, each whole and in order behind its start code, however
\* the server cut them into fragments or put them together.
THEOREM UnitsArriveWhole == Spec => []UnitsComplete
<1>1. NalInv => UnitsComplete
  BY PromisedFrame, Zenon DEF NalInv, WholeInv, UnitsComplete
<1> QED
  BY <1>1, NalInvariance, PTL

\* The start codes that the property speaks of are those of the invariant.
LEMMA StartCodesAreCodes ==
  ASSUME framebuf \in Seq(Bytes)
  PROVE  StartCodes = Codes(framebuf, gaps)
<1>1. ASSUME NEW i \in 1 .. Len(framebuf) - 3
      PROVE  SubSeq(framebuf, i, i + 3) = h264prefix <=> IsCode(framebuf, i)
  <2> DEFINE s == SubSeq(framebuf, i, i + 3)
  <2>1. Len(framebuf) \in Nat /\ i \in Nat /\ i >= 1 /\ i + 3 <= Len(framebuf)
    BY <1>1
  <2>2. /\ s \in Seq(Bytes) /\ Len(s) = 4 /\ s[1] = framebuf[i] /\ s[2] = framebuf[i + 1]
        /\ s[3] = framebuf[i + 2] /\ s[4] = framebuf[i + 3]
    BY <2>1
  <2> HIDE DEF s
  <2>3. s = h264prefix => s[1] = 0 /\ s[2] = 0 /\ s[3] = 0 /\ s[4] = 1
    BY PrefixTyped, Zenon
  <2>4. ASSUME s[1] = 0, s[2] = 0, s[3] = 0, s[4] = 1
        PROVE  s = h264prefix
    <3> DEFINE p == h264prefix
    <3>1. p \in Seq(Bytes) /\ Len(p) = 4 /\ p[1] = 0 /\ p[2] = 0 /\ p[3] = 0 /\ p[4] = 1
      BY PrefixTyped
    <3> HIDE DEF p
    <3>2. \A j \in 1 .. 4 : s[j] = p[j]
      BY <2>4, <3>1
    <3>3. s \in Seq(Bytes) /\ Len(s) = Len(p) /\ \A j \in 1 .. Len(s) : s[j] = p[j]
      BY <2>2, <3>1, <3>2, Zenon
    <3>4. s = p
      BY <3>1, <3>3
    <3> QED
      BY <3>4, Zenon DEF p
  <2>5. IsCode(framebuf, i) <=> s[1] = 0 /\ s[2] = 0 /\ s[3] = 0 /\ s[4] = 1
    BY <2>2, Zenon DEF IsCode
  <2> QED
    BY <2>3, <2>4, <2>5, Zenon DEF s
<1>2. \A i : AcrossGap(i) <=> Across(gaps, i)
  BY Zenon DEF AcrossGap, Across
<1>3. \A i : i \in StartCodes <=> i \in Codes(framebuf, gaps)
  BY <1>1, <1>2, Zenon DEF StartCodes, Codes
<1> QED
  BY <1>3
\* A sequence whose elements are the first ones of another.
LEMMA PrefixBy ==
  ASSUME NEW s \in Seq(Bytes), NEW t \in Seq(Bytes), Len(s) <= Len(t),
         \A i \in 1 .. Len(s) : s[i] = t[i]
  PROVE  IsPrefix(s, t)
<1> DEFINE n == Len(s)
           a == SubSeq(s, 1, n)
           b == SubSeq(t, 1, n)
<1>1. n \in Nat /\ n <= Len(t) /\ Len(t) \in Nat
  OBVIOUS
<1>2. a \in Seq(Bytes) /\ Len(a) = n /\ \A i \in 1 .. n : a[i] = s[i]
  BY <1>1
<1>3. b \in Seq(Bytes) /\ Len(b) = n /\ \A i \in 1 .. n : b[i] = t[i]
  BY <1>1
<1>4. \A i \in 1 .. n : s[i] = t[i]
  OBVIOUS
<1> HIDE DEF a, b, n
<1>5. \A i \in 1 .. n : a[i] = b[i]
  BY <1>2, <1>3, <1>4
<1>6. a = b
  BY <1>2, <1>3, <1>5
<1> QED
  BY <1>1, <1>6, Zenon DEF IsPrefix, a, b, n

\* What stands behind a start code is the beginning of a unit.
LEMMA BeginsIsPrefix ==
  ASSUME TypeOK, NEW i \in Codes(framebuf, gaps), NEW n \in 1 .. Len(nals),
         Begins(framebuf, i, nals[n], n \in together)
  PROVE  IsPrefix(Between(n) \o <<nals[n][1]>>, SubSeq(framebuf, i + 4, Len(framebuf)))
<1> DEFINE t == SubSeq(framebuf, i + 4, Len(framebuf))
           b == <<nals[n][1]>>
           m == Between(n)
           s == m \o b
<1>1. nals[n] \in Nals /\ framebuf \in Seq(Bytes)
  BY DEF TypeOK, Bytes
<1>2. i \in Nat /\ i >= 1 /\ i + 3 <= Len(framebuf) /\ Len(framebuf) \in Nat
  BY <1>1 DEF Codes
<1>3. /\ t \in Seq(Bytes) /\ Len(t) = Len(framebuf) - (i + 3)
      /\ \A j \in 1 .. Len(t) : t[j] = framebuf[i + 3 + j]
  BY <1>1, <1>2
<1>4. nals[n][1] \in Bytes /\ b \in Seq(Bytes) /\ Len(b) = 1 /\ b[1] = nals[n][1]
  <2>1. nals[n][1] \in Bytes
    <3>1. Len(nals[n]) \in Nat /\ Len(nals[n]) >= 1
      BY <1>1, UnitTyped, Zenon
    <3>2. 1 \in 1 .. Len(nals[n])
      BY <3>1
    <3> QED
      BY <1>1, <3>2, UnitTyped, Zenon
  <2> QED
    BY <2>1, OneByte
<1> HIDE DEF t, b
<1>5. CASE n \in together
  <2>1. PICK l \in Bytes : l = Len(nals[n]) % 256
    BY <1>1, SizeBytes
  <2>2. m = <<l>>
    BY <1>5, <2>1, Zenon DEF Between
  <2> HIDE DEF m
  <2>3. m \in Seq(Bytes) /\ Len(m) = 1 /\ m[1] = l
    BY <2>2, OneByte, Zenon
  <2>4. m \in Seq(Bytes) /\ b \in Seq(Bytes)
    BY <1>4, <2>3
  <2>5. /\ s \in Seq(Bytes) /\ Len(s) = Len(m) + Len(b)
        /\ \A j \in 1 .. Len(m) : s[j] = m[j]
        /\ \A j \in 1 .. Len(b) : s[Len(m) + j] = b[j]
    BY <2>4, Joined
  <2> HIDE DEF s
  <2>6. Len(s) = 2 /\ s[1] = l /\ s[2] = nals[n][1]
    BY <1>4, <2>3, <2>5
  <2>7. i + 5 <= Len(framebuf) /\ framebuf[i + 4] = l /\ framebuf[i + 5] = nals[n][1]
    BY <1>5, <2>1, Zenon DEF Begins
  <2>8. Len(t) >= 2 /\ t[1] = framebuf[i + 4] /\ t[2] = framebuf[i + 5]
    <3>1. Len(t) \in Nat /\ Len(t) >= 2 /\ i + 3 + 1 = i + 4 /\ i + 3 + 2 = i + 5
      BY <1>2, <1>3, <2>7
    <3>2. 1 \in 1 .. Len(t) /\ 2 \in 1 .. Len(t)
      BY <3>1
    <3> QED
      BY <1>3, <3>1, <3>2, Zenon
  <2>9. Len(s) <= Len(t) /\ \A j \in 1 .. Len(s) : s[j] = t[j]
    BY <1>3, <2>6, <2>7, <2>8
  <2>10. IsPrefix(s, t)
    BY <1>3, <2>5, <2>9, PrefixBy
  <2> QED
    BY <2>10, Zenon DEF s, m, t, b
<1>6. CASE n \notin together
  <2>1. m = <<>>
    BY <1>6, Zenon DEF Between
  <2> HIDE DEF m
  <2>2. s \in Seq(Bytes) /\ Len(s) = 1 /\ s[1] = nals[n][1]
    <3>1. m \in Seq(Bytes) /\ Len(m) = 0 /\ b \in Seq(Bytes)
      BY <1>4, <2>1
    <3>2. /\ s \in Seq(Bytes) /\ Len(s) = Len(m) + Len(b)
          /\ \A j \in 1 .. Len(b) : s[Len(m) + j] = b[j]
      BY <3>1, Joined
    <3> HIDE DEF s
    <3> QED
      BY <1>4, <3>1, <3>2
  <2> HIDE DEF s
  <2>3. i + 4 <= Len(framebuf) /\ framebuf[i + 4] = nals[n][1]
    BY <1>6, Zenon DEF Begins
  <2>4. Len(t) >= 1 /\ t[1] = framebuf[i + 4]
    <3>1. Len(t) \in Nat /\ Len(t) >= 1 /\ i + 3 + 1 = i + 4
      BY <1>2, <1>3, <2>3
    <3>2. 1 \in 1 .. Len(t)
      BY <3>1
    <3> QED
      BY <1>3, <3>1, <3>2, Zenon
  <2>5. Len(s) <= Len(t) /\ \A j \in 1 .. Len(s) : s[j] = t[j]
    BY <1>3, <2>2, <2>3, <2>4
  <2>6. IsPrefix(s, t)
    BY <1>3, <2>2, <2>5, PrefixBy
  <2> QED
    BY <2>6, Zenon DEF s, m, t, b
<1> QED
  BY <1>5, <1>6

\* Whatever packets are lost, each start code in the frame is followed by the
\* beginning of a NAL unit of the server, and there is at most one for each:
\* UnpackRtpFU_A_NAL writes one for a first fragment only, and the bytes of the
\* units make none unless they meet across a lost fragment.
THEOREM StartCodesAreTrue == Spec => []StartCodesTrue
<1>1. NalInv => StartCodesTrue
  <2>1. SUFFICES ASSUME NalInv
                 PROVE  StartCodesTrue
    OBVIOUS
  <2>2. TypeOK /\ Starts(framebuf, gaps, nals, together)
    BY <2>1, Zenon DEF NalInv, StartsInv
  <2>3. StartCodes = Codes(framebuf, gaps)
    <3>1. framebuf \in Seq(Bytes)
      BY <2>2, Zenon DEF TypeOK, Bytes
    <3> QED
      BY <3>1, StartCodesAreCodes
  <2>4. ASSUME NEW i \in Codes(framebuf, gaps)
        PROVE  \E n \in 1 .. Len(nals) :
                 IsPrefix(Between(n) \o <<nals[n][1]>>,
                          SubSeq(framebuf, i + 4, Len(framebuf)))
    <3>1. PICK n \in 1 .. Len(nals) : Begins(framebuf, i, nals[n], n \in together)
      BY <2>2, Zenon DEF Starts, Begun
    <3>2. IsPrefix(Between(n) \o <<nals[n][1]>>, SubSeq(framebuf, i + 4, Len(framebuf)))
      BY <2>2, <3>1, BeginsIsPrefix, Zenon
    <3> QED
      BY <3>2, Zenon
  <2>5. Cardinality(Codes(framebuf, gaps)) <= Len(nals)
    BY <2>2, Zenon DEF Starts
  <2> QED
    BY <2>3, <2>4, <2>5, Zenon DEF StartCodesTrue
<1> QED
  BY <1>1, NalInvariance, PTL
=============================================================================
