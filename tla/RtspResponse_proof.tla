-------------------------- MODULE RtspResponse_proof -------------------------
(***************************************************************************)
(* Requests and replies stay in step for every length of body and every    *)
(* number of exchanges, as long as headers come whole and bodies end in    *)
(* the second recv: the arithmetic of RtspReceiveResponse asks for exactly *)
(* what is outstanding.                                                    *)
(***************************************************************************)
EXTENDS RtspResponse, SequenceFacts

-----------------------------------------------------------------------------
(* Searching                                                               *)

\* strstr finds the first unit of a kind ...
LEMMA Found ==
  ASSUME NEW s, NEW p, Len(s) \in Nat, NEW i \in 1 .. Len(s), s[i].part = p,
         \A j \in 1 .. Len(s) : j < i => s[j].part # p
  PROVE  FirstOf(s, p) = i
<1> DEFINE I == {j \in 1 .. Len(s) : s[j].part = p}
<1>1. i \in I /\ I # {} /\ \A j \in I : i <= j
  OBVIOUS
<1>2. I \subseteq Nat
  OBVIOUS
<1>3. FirstOf(s, p) = IF I # {} THEN Min(I) ELSE 0
  BY DEF FirstOf, SelectInSeq
<1> HIDE DEF I
<1>4. \A x \in I : (\A y \in I : x <= y) => x = i
  BY <1>1, <1>2
<1>5. Min(I) = i
  BY <1>1, <1>4 DEF Min
<1> QED
  BY <1>1, <1>3, <1>5

\* ... or nothing.
LEMMA NotFound ==
  ASSUME NEW s, NEW p, \A j \in 1 .. Len(s) : s[j].part # p
  PROVE  FirstOf(s, p) = 0
BY DEF FirstOf, SelectInSeq

-----------------------------------------------------------------------------
(* Replies                                                                 *)

\* Where the header of a reply with b units of body ends.
HeaderEnd(b) == IF b > 0 THEN 3 ELSE 2

AnyUnit == [msg : Int, part : {"status", "clen", "empty", "body"}, len : Int]

IsReply(s, m, b) ==
  /\ s \in Seq(AnyUnit)
  /\ Len(s) = HeaderEnd(b) + b
  /\ s[1] = Unit(m, "status", 0)
  /\ b > 0 => s[2] = Unit(m, "clen", b)
  /\ s[HeaderEnd(b)] = Unit(m, "empty", 0)
  /\ \A i \in HeaderEnd(b) + 1 .. HeaderEnd(b) + b : s[i] = Unit(m, "body", 0)

LEMMA ReplyIsReply ==
  ASSUME NEW m \in Int, NEW b \in Nat
  PROVE  IsReply(Reply(m, b), m, b)
<1> DEFINE first == <<Unit(m, "status", 0)>>
           second == IF b > 0 THEN <<Unit(m, "clen", b)>> ELSE <<>>
           third == <<Unit(m, "empty", 0)>>
           body == [i \in 1 .. b |-> Unit(m, "body", 0)]
           front == first \o second
           header == front \o third
           k == IF b > 0 THEN 1 ELSE 0
<1>1. first \in Seq(AnyUnit) /\ Len(first) = 1 /\ first[1] = Unit(m, "status", 0)
  BY DEF Unit, AnyUnit
<1>2. second \in Seq(AnyUnit) /\ Len(second) = k /\ (b > 0 => second[1] = Unit(m, "clen", b))
  <2>1. CASE b > 0
    <3>1. second = <<Unit(m, "clen", b)>> /\ k = 1
      BY <2>1
    <3>2. Unit(m, "clen", b) \in AnyUnit
      BY DEF Unit, AnyUnit
    <3> QED
      BY <3>1, <3>2
  <2>2. CASE ~(b > 0)
    BY <2>2
  <2> QED
    BY <2>1, <2>2
<1>3. third \in Seq(AnyUnit) /\ Len(third) = 1 /\ third[1] = Unit(m, "empty", 0)
  BY DEF Unit, AnyUnit
<1>4. body \in Seq(AnyUnit) /\ Len(body) = b /\ \A i \in 1 .. b : body[i] = Unit(m, "body", 0)
  BY DEF Unit, AnyUnit
<1>5. Reply(m, b) = header \o body
  BY DEF Reply
<1>6. k \in Nat /\ HeaderEnd(b) = k + 2 /\ k <= 1 /\ (b > 0 => k = 1)
  BY DEF HeaderEnd
<1> HIDE DEF first, second, third, body, k
<1>7. /\ front \in Seq(AnyUnit) /\ Len(front) = 1 + k
      /\ front[1] = Unit(m, "status", 0)
      /\ b > 0 => front[2] = Unit(m, "clen", b)
  <2>1. /\ front \in Seq(AnyUnit)
        /\ Len(front) = Len(first) + Len(second)
        /\ \A i \in 1 .. Len(first) : front[i] = first[i]
        /\ \A i \in 1 .. Len(second) : front[Len(first) + i] = second[i]
    <3>1. first \in Seq(AnyUnit) /\ second \in Seq(AnyUnit)
      BY <1>1, <1>2
    <3> QED
      BY <3>1, Joined
  <2> HIDE DEF front
  <2>2. front[1] = first[1] /\ (b > 0 => front[2] = second[1])
    BY <1>1, <1>2, <1>6, <2>1
  <2> QED
    BY <1>1, <1>2, <1>6, <2>1, <2>2
<1> HIDE DEF front
<1>8. /\ header \in Seq(AnyUnit) /\ Len(header) = k + 2
      /\ header[1] = Unit(m, "status", 0)
      /\ b > 0 => header[2] = Unit(m, "clen", b)
      /\ header[k + 2] = Unit(m, "empty", 0)
  <2>1. /\ header \in Seq(AnyUnit)
        /\ Len(header) = Len(front) + Len(third)
        /\ \A i \in 1 .. Len(front) : header[i] = front[i]
        /\ \A i \in 1 .. Len(third) : header[Len(front) + i] = third[i]
    <3>1. front \in Seq(AnyUnit) /\ third \in Seq(AnyUnit)
      BY <1>3, <1>7
    <3> QED
      BY <3>1, Joined
  <2> HIDE DEF header
  <2>2. header[1] = front[1] /\ (b > 0 => header[2] = front[2]) /\ header[k + 2] = third[1]
    BY <1>3, <1>6, <1>7, <2>1
  <2> QED
    BY <1>3, <1>6, <1>7, <2>1, <2>2
<1> HIDE DEF header
<1> DEFINE r == header \o body
<1>9. /\ r \in Seq(AnyUnit)
      /\ Len(r) = Len(header) + Len(body)
      /\ \A i \in 1 .. Len(header) : r[i] = header[i]
      /\ \A i \in 1 .. Len(body) : r[Len(header) + i] = body[i]
  <2>1. header \in Seq(AnyUnit) /\ body \in Seq(AnyUnit)
    BY <1>4, <1>8
  <2> QED
    BY <2>1, Joined
<1> HIDE DEF r
<1>10. \A i \in 1 .. k + 2 : r[i] = header[i]
  BY <1>8, <1>9
<1>11. \A i \in k + 3 .. k + 2 + b : r[i] = Unit(m, "body", 0)
  <2> TAKE i \in k + 3 .. k + 2 + b
  <2>1. i - (k + 2) \in 1 .. b /\ (k + 2) + (i - (k + 2)) = i
    BY <1>6
  <2>2. r[(k + 2) + (i - (k + 2))] = body[i - (k + 2)]
    BY <1>4, <1>8, <1>9, <2>1
  <2> QED
    BY <1>4, <2>1, <2>2
<1>12. r[1] = header[1] /\ (b > 0 => r[2] = header[2]) /\ r[k + 2] = header[k + 2]
  BY <1>6, <1>10
<1>13. IsReply(r, m, b)
  BY <1>4, <1>6, <1>8, <1>9, <1>11, <1>12 DEF IsReply
<1> QED
  BY <1>5, <1>13 DEF r

\* What the first recv makes of a part of the reply that holds the header: the
\* offset behind it and the length of the body.
LEMMA HeaderRead ==
  ASSUME NEW s, NEW m \in Int, NEW b \in Nat, IsReply(s, m, b),
         NEW n \in 1 .. Len(s), FirstOf(SubSeq(s, 1, n), "empty") > 0
  PROVE  LET got == SubSeq(s, 1, n)
         IN  /\ n >= HeaderEnd(b)
             /\ FirstOf(got, "empty") = HeaderEnd(b)
             /\ GetContentLength(got) = b
             /\ got[1] = Unit(m, "status", 0) /\ got # <<>>
<1> DEFINE got == SubSeq(s, 1, n)
           e == HeaderEnd(b)
<1>1. n \in Nat /\ n >= 1 /\ Len(s) = e + b /\ e \in {2, 3} /\ n <= e + b
  BY DEF IsReply, HeaderEnd
<1>2. \A i \in 1 .. n : s[i] \in AnyUnit
  BY <1>1 DEF IsReply
<1>3. Len(got) = n /\ \A i \in 1 .. n : got[i] = s[i]
  BY <1>1, <1>2, SubSeqProperties
<1>4. /\ s[1].part = "status"
      /\ b > 0 => s[2].part = "clen" /\ s[2].len = b /\ e = 3
      /\ b = 0 => e = 2
      /\ s[e].part = "empty"
      /\ \A i \in e + 1 .. e + b : s[i].part = "body"
  BY DEF IsReply, Unit, HeaderEnd
<1> HIDE DEF got, e
<1>5. n >= e
  <2> SUFFICES ASSUME n < e
               PROVE  FALSE
    BY <1>1
  <2>1. \A i \in 1 .. n : s[i].part # "empty"
    BY <1>1, <1>4
  <2>2. FirstOf(got, "empty") = 0
    BY <1>3, <2>1, NotFound
  <2> QED
    BY <2>2 DEF got
<1>6. FirstOf(got, "empty") = e
  <2>1. e \in 1 .. n /\ \A j \in 1 .. n : j < e => s[j].part # "empty"
    BY <1>1, <1>4, <1>5
  <2> QED
    BY <1>1, <1>3, <1>4, <2>1, Found
<1>7. GetContentLength(got) = b
  <2>1. CASE b > 0
    <3>1. 2 \in 1 .. n /\ got[2].part = "clen" /\ got[2].len = b
      BY <2>1, <1>1, <1>3, <1>4, <1>5
    <3>2. \A j \in 1 .. n : j < 2 => got[j].part # "clen"
      BY <1>1, <1>3, <1>4
    <3>3. FirstOf(got, "clen") = 2
      BY <1>1, <1>3, <3>1, <3>2, Found
    <3> QED
      BY <3>1, <3>3 DEF GetContentLength
  <2>2. CASE b = 0
    <3>1. \A j \in 1 .. n : j = 1 \/ j = e
      BY <2>2, <1>1, <1>4
    <3>2. \A j \in 1 .. Len(got) : got[j].part # "clen"
      BY <3>1, <1>3, <1>4
    <3>3. FirstOf(got, "clen") = 0
      BY <3>2, NotFound
    <3> QED
      BY <2>2, <3>3 DEF GetContentLength
  <2> QED
    BY <2>1, <2>2
<1>8. got[1] = Unit(m, "status", 0) /\ got # <<>>
  <2>1. got[1] = s[1] /\ Len(got) # 0
    BY <1>1, <1>3
  <2> QED
    BY <2>1 DEF IsReply
<1> QED
  BY <1>5, <1>6, <1>7, <1>8 DEF got, e

-----------------------------------------------------------------------------
(* The invariant                                                           *)

\* At each place of the exchange: nothing is left over between exchanges, the
\* whole reply is waiting before the first recv, and exactly what is asked for
\* before the second.
StepInv ==
  /\ exchange \in Nat
  /\ pc \in {"idle", "first", "second"}
  /\ whole /\ pc = "idle" => stream = <<>> /\ (exchange > 0 => acted = exchange)
  /\ whole /\ pc = "first" => \E b \in Bodies : IsReply(stream, exchange, b)
  /\ whole /\ pc = "second" =>
       /\ stream \in Seq(AnyUnit)
       /\ want = Len(stream) /\ want > 0
       /\ buf # <<>> /\ buf[1] = Unit(exchange, "status", 0)

LEMMA StepInvInit == Init => StepInv
BY DEF Init, StepInv

LEMMA ExchangeKeeps ==
  ASSUME StepInv, Exchange
  PROVE  StepInv'
<1>1. PICK b \in Bodies : stream' = stream \o Reply(exchange + 1, b)
  BY DEF Exchange
<1>2. b \in Nat /\ exchange' = exchange + 1 /\ exchange' \in Nat /\ pc' = "first" /\ whole' = whole
  BY BoundAssumption DEF Exchange, StepInv
<1>3. whole => IsReply(stream', exchange', b)
  <2> SUFFICES ASSUME whole
               PROVE  IsReply(stream', exchange', b)
    OBVIOUS
  <2>1. IsReply(Reply(exchange + 1, b), exchange + 1, b)
    BY <1>2, ReplyIsReply
  <2>2. Reply(exchange + 1, b) \in Seq(AnyUnit)
    BY <2>1 DEF IsReply
  <2>3. stream = <<>>
    BY DEF StepInv, Exchange
  <2>4. stream' = Reply(exchange + 1, b)
    BY <1>1, <2>2, <2>3
  <2> QED
    BY <1>2, <2>1, <2>4
<1> QED
  BY <1>2, <1>3 DEF StepInv

LEMMA FirstRecvKeeps ==
  ASSUME StepInv, FirstRecv
  PROVE  StepInv'
<1>0. PICK n \in 1 .. Len(stream) :
       LET got == SubSeq(stream, 1, n)
           off == GetSeperator(got)
           contentlen == GetContentLength(got)
       IN /\ buf' = got
          /\ stream' = SubSeq(stream, n + 1, Len(stream))
          /\ whole' = (whole /\ FirstOf(got, "empty") > 0)
          /\ IF contentlen = 0 \/ n - off = contentlen
             THEN Return(got)
             ELSE /\ pc' = "second"
                  /\ want' = Outstanding(n, off, contentlen)
  BY DEF FirstRecv
<1> DEFINE got == SubSeq(stream, 1, n)
           off == GetSeperator(got)
           contentlen == GetContentLength(got)
           done == contentlen = 0 \/ n - off = contentlen
<1>1. /\ pc = "first" /\ exchange' = exchange /\ exchange \in Nat
      /\ pc' \in {"idle", "second"}
  BY DEF FirstRecv, StepInv, Return
<1> SUFFICES ASSUME whole'
             PROVE  /\ pc' = "idle" => stream' = <<>> /\ acted' = exchange
                    /\ pc' = "second" =>
                         /\ stream' \in Seq(AnyUnit)
                         /\ want' = Len(stream') /\ want' > 0
                         /\ buf' # <<>> /\ buf'[1] = Unit(exchange, "status", 0)
  BY <1>1 DEF StepInv
<1>2. whole /\ FirstOf(got, "empty") > 0
  BY <1>0
<1>3. PICK b \in Bodies : IsReply(stream, exchange, b)
  BY <1>1, <1>2 DEF StepInv
<1>4. b \in Nat /\ b + 3 < SizeMod /\ SizeMod \in Nat
  BY BoundAssumption
<1>5. /\ n >= HeaderEnd(b)
      /\ off = HeaderEnd(b)
      /\ contentlen = b
      /\ got[1] = Unit(exchange, "status", 0) /\ got # <<>>
  <2>1. exchange \in Int
    BY <1>1
  <2>2. /\ n >= HeaderEnd(b)
        /\ FirstOf(got, "empty") = HeaderEnd(b)
        /\ contentlen = b
        /\ got[1] = Unit(exchange, "status", 0) /\ got # <<>>
    BY <1>2, <1>3, <1>4, <2>1, HeaderRead
  <2> QED
    BY <1>2, <2>2 DEF GetSeperator
<1>6. /\ stream \in Seq(AnyUnit) /\ Len(stream) = HeaderEnd(b) + b
      /\ HeaderEnd(b) \in {2, 3} /\ n \in Nat /\ n <= HeaderEnd(b) + b
  BY <1>3, <1>4 DEF IsReply, HeaderEnd
<1>7. stream' \in Seq(AnyUnit) /\ Len(stream') = HeaderEnd(b) + b - n
  <2>1. stream' = SubSeq(stream, n + 1, Len(stream))
    BY <1>0
  <2> HIDE DEF got, off, contentlen, done
  <2>2. n + 1 \in 1 .. Len(stream) + 1
    BY <1>6
  <2>3. \A i \in n + 1 .. Len(stream) : stream[i] \in AnyUnit
    BY <1>6
  <2>4. stream' \in Seq(AnyUnit)
    BY <2>1, <2>2, <2>3, <1>6
  <2>5. Len(stream') = IF n + 1 <= Len(stream) THEN Len(stream) - (n + 1) + 1 ELSE 0
    BY <2>1, <1>6, SubSeqProperties
  <2> QED
    BY <2>4, <2>5, <1>4, <1>6
<1>10. done <=> b = 0 \/ n - HeaderEnd(b) = b
  BY <1>5
<1> HIDE DEF got, off, contentlen, done
<1>8. CASE done
  <2>1. pc' = "idle" /\ acted' = exchange
    <3>1. Return(got)
      BY <1>0, <1>8 DEF got, off, contentlen, done
    <3> QED
      BY <3>1, <1>5 DEF Return, Unit
  <2>2. Len(stream') = 0
    BY <1>4, <1>5, <1>6, <1>7, <1>8, <1>10
  <2> QED
    BY <2>1, <2>2, <1>7
<1>9. CASE ~done
  <2>1. pc' = "second" /\ want' = Outstanding(n, off, contentlen) /\ buf' = got
    BY <1>0, <1>9 DEF got, off, contentlen, done
  <2>2. b - (n - HeaderEnd(b)) \in 1 .. b
    BY <1>4, <1>5, <1>6, <1>9, <1>10
  <2>3. want' = (b - (n - HeaderEnd(b))) % SizeMod
    BY <2>1, <1>5 DEF Outstanding
  <2>4. want' = b - (n - HeaderEnd(b))
    BY <2>2, <2>3, <1>4
  <2> QED
    BY <2>1, <2>2, <2>4, <1>4, <1>5, <1>6, <1>7
<1> QED
  BY <1>8, <1>9

LEMMA SecondRecvKeeps ==
  ASSUME StepInv, SecondRecv
  PROVE  StepInv'
<1>1. PICK n \in 1 .. Len(stream) :
         /\ stream' = SubSeq(stream, n + 1, Len(stream))
         /\ whole' = (whole /\ n = want)
  BY DEF SecondRecv
<1>2. pc = "second" /\ pc' = "idle" /\ exchange' = exchange /\ exchange \in Nat
  BY DEF SecondRecv, Return, StepInv
<1>3. ASSUME whole'
      PROVE  stream' = <<>> /\ acted' = exchange
  <2>1. stream \in Seq(AnyUnit) /\ n = Len(stream) /\ buf[1] = Unit(exchange, "status", 0)
    BY <1>1, <1>2, <1>3 DEF StepInv
  <2>2. stream' = <<>>
    BY <1>1, <2>1
  <2> QED
    BY <2>1, <2>2 DEF SecondRecv, Return, Unit
<1> QED
  BY <1>2, <1>3 DEF StepInv

LEMMA StepInvStep == StepInv /\ [Next]_vars => StepInv'
<1> SUFFICES ASSUME StepInv, [Next]_vars
             PROVE  StepInv'
  OBVIOUS
<1>1. CASE Exchange
  BY <1>1, ExchangeKeeps
<1>2. CASE FirstRecv
  BY <1>2, FirstRecvKeeps
<1>3. CASE SecondRecv
  BY <1>3, SecondRecvKeeps
<1>4. CASE UNCHANGED vars
  BY <1>4 DEF StepInv, vars
<1> QED
  BY <1>1, <1>2, <1>3, <1>4 DEF Next

LEMMA StepInvAlways == Spec => []StepInv
<1>1. Init => StepInv
  BY StepInvInit
<1>2. StepInv /\ [Next]_vars => StepInv'
  BY StepInvStep
<1> QED
  BY <1>1, <1>2, PTL DEF Spec

-----------------------------------------------------------------------------
(* The types                                                               *)

\* Units of the exchanges so far.
UnitsUpTo(m) == [msg : 1 .. m, part : {"status", "clen", "empty", "body"}, len : Nat]

TypeInv ==
  /\ stream \in Seq(UnitsUpTo(exchange)) /\ buf \in Seq(UnitsUpTo(exchange))
  /\ pc \in {"idle", "first", "second"}
  /\ pc = "second" => buf # <<>>
  /\ offset \in Nat
  /\ want \in 0 .. SizeMod - 1
  /\ exchange \in 0 .. MaxExchanges
  /\ acted \in 0 .. exchange
  /\ whole \in BOOLEAN

LEMMA ReplyTyped ==
  ASSUME NEW m \in Nat, m > 0, NEW b \in Nat
  PROVE  Reply(m, b) \in Seq(UnitsUpTo(m))
<1> DEFINE T == UnitsUpTo(m)
           first == <<Unit(m, "status", 0)>>
           second == IF b > 0 THEN <<Unit(m, "clen", b)>> ELSE <<>>
           third == <<Unit(m, "empty", 0)>>
           body == [i \in 1 .. b |-> Unit(m, "body", 0)]
<1>1. /\ Unit(m, "status", 0) \in T /\ Unit(m, "clen", b) \in T
      /\ Unit(m, "empty", 0) \in T /\ Unit(m, "body", 0) \in T
  BY DEF Unit, UnitsUpTo
<1>2. Reply(m, b) = first \o second \o third \o body
  BY DEF Reply
<1> HIDE DEF T
<1>3. first \in Seq(T) /\ second \in Seq(T) /\ third \in Seq(T)
  BY <1>1
<1>4. body \in Seq(T)
  <2>1. body \in [1 .. b -> T]
    BY <1>1
  <2> QED
    BY <2>1, SeqDef
<1> HIDE DEF first, second, third, body
<1>5. first \o second \in Seq(T)
  BY <1>3
<1>6. (first \o second) \o third \in Seq(T)
  BY <1>3, <1>5
<1>7. ((first \o second) \o third) \o body \in Seq(T)
  BY <1>4, <1>6
<1> QED
  BY <1>2, <1>7 DEF T

\* A search finds a place of the sequence.
LEMMA FoundWithin ==
  ASSUME NEW S, NEW s \in Seq(S), NEW p
  PROVE  FirstOf(s, p) \in 0 .. Len(s)
<1> DEFINE I == {j \in 1 .. Len(s) : s[j].part = p}
<1>1. FirstOf(s, p) = IF I # {} THEN Min(I) ELSE 0
  BY DEF FirstOf, SelectInSeq
<1>2. I \subseteq 1 .. Len(s) /\ I \subseteq Nat
  OBVIOUS
<1> HIDE DEF I
<1>3. ASSUME I # {}
      PROVE  Min(I) \in I
  BY <1>2, <1>3, Least DEF Min
<1>4. Len(s) \in Nat
  OBVIOUS
<1>5. CASE I = {}
  BY <1>1, <1>4, <1>5
<1>6. CASE I # {}
  <2> DEFINE f == FirstOf(s, p)
  <2>1. f = Min(I)
    BY <1>1, <1>6
  <2>2. Min(I) \in I
    BY <1>3, <1>6
  <2> HIDE DEF f
  <2>3. f \in 1 .. Len(s)
    BY <1>2, <2>1, <2>2
  <2> QED
    BY <1>4, <2>3 DEF f
<1> QED
  BY <1>5, <1>6

\* The handler takes the number of a reply it has.
LEMMA ReturnTyped ==
  ASSUME NEW m \in Nat, NEW s \in Seq(UnitsUpTo(m)), s # <<>>, Return(s)
  PROVE  pc' = "idle" /\ acted' \in 0 .. m
<1>1. s[1] \in UnitsUpTo(m)
  OBVIOUS
<1> QED
  BY <1>1 DEF Return, UnitsUpTo

LEMMA TypeInit == Init => TypeInv
BY BoundAssumption DEF Init, TypeInv

LEMMA TypeStep == TypeInv /\ [Next]_vars => TypeInv'
<1> SUFFICES ASSUME TypeInv, [Next]_vars
             PROVE  TypeInv'
  OBVIOUS
<1>0. exchange \in Nat /\ MaxExchanges \in Nat /\ SizeMod \in Nat /\ SizeMod > 0
  BY BoundAssumption DEF TypeInv
<1>1. CASE Exchange
  <2>1. PICK b \in Bodies : stream' = stream \o Reply(exchange + 1, b)
    BY <1>1 DEF Exchange
  <2> DEFINE m == exchange + 1
  <2>2. m \in Nat /\ m > 0 /\ b \in Nat /\ exchange' = m /\ m \in 0 .. MaxExchanges
    BY <1>0, <1>1, BoundAssumption DEF Exchange, TypeInv
  <2>3. Reply(m, b) \in Seq(UnitsUpTo(m))
    BY <2>2, ReplyTyped
  <2>4. UnitsUpTo(exchange) \subseteq UnitsUpTo(m)
    BY <1>0 DEF UnitsUpTo
  <2>5. stream \in Seq(UnitsUpTo(m))
    BY <2>4, WiderSeq DEF TypeInv
  <2>6. stream' \in Seq(UnitsUpTo(m)) /\ <<>> \in Seq(UnitsUpTo(m))
    <3> DEFINE T == UnitsUpTo(m)
               r == Reply(m, b)
    <3>1. stream' = stream \o r
      BY <2>1
    <3>2. r \in Seq(T) /\ stream \in Seq(T)
      BY <2>3, <2>5
    <3> HIDE DEF T, r
    <3>3. stream' \in Seq(T) /\ <<>> \in Seq(T)
      BY <3>1, <3>2
    <3> QED
      BY <3>3 DEF T
  <2> QED
    BY <1>1, <2>2, <2>6 DEF Exchange, TypeInv
<1>2. CASE FirstRecv
  <2>0. PICK n \in 1 .. Len(stream) :
         LET got == SubSeq(stream, 1, n)
             off == GetSeperator(got)
             contentlen == GetContentLength(got)
         IN /\ buf' = got
            /\ stream' = SubSeq(stream, n + 1, Len(stream))
            /\ offset' = off
            /\ whole' = (whole /\ FirstOf(got, "empty") > 0)
            /\ IF contentlen = 0 \/ n - off = contentlen
               THEN Return(got) /\ UNCHANGED want
               ELSE /\ pc' = "second"
                    /\ want' = Outstanding(n, off, contentlen)
                    /\ UNCHANGED acted
    BY <1>2 DEF FirstRecv
  <2> DEFINE got == SubSeq(stream, 1, n)
             off == GetSeperator(got)
             contentlen == GetContentLength(got)
             T == UnitsUpTo(exchange)
  <2>1. exchange' = exchange
    BY <1>2 DEF FirstRecv
  <2>2. /\ stream \in Seq(T) /\ offset \in Nat /\ want \in 0 .. SizeMod - 1
        /\ acted \in 0 .. exchange /\ whole \in BOOLEAN /\ exchange \in 0 .. MaxExchanges
    BY DEF TypeInv
  <2>3. /\ buf' = got /\ stream' = SubSeq(stream, n + 1, Len(stream))
        /\ offset' = off
    BY <2>0
  <2>4. whole' \in BOOLEAN
    BY <2>0, Zenon
  <2>5. \/ Return(got) /\ UNCHANGED want
        \/ pc' = "second" /\ want' = Outstanding(n, off, contentlen) /\ UNCHANGED acted
    BY <2>0
  <2> HIDE DEF T
  <2>6. got \in Seq(T) /\ got # <<>> /\ stream' \in Seq(T)
    BY <2>2, <2>3, PartsTyped
  <2> HIDE DEF got
  <2>7. off \in Nat
    <3>1. FirstOf(got, "empty") \in Nat
      BY <2>6, FoundWithin
    <3> QED
      BY <2>2, <3>1 DEF GetSeperator
  <2>8. contentlen \in Nat
    <3>1. FirstOf(got, "clen") \in 0 .. Len(got)
      BY <2>6, FoundWithin
    <3>2. \A i \in 1 .. Len(got) : got[i] \in T
      BY <2>6
    <3>3. \A i \in 1 .. Len(got) : got[i].len \in Nat
      BY <3>2 DEF T, UnitsUpTo
    <3> QED
      BY <3>1, <3>3 DEF GetContentLength
  <2> HIDE DEF off, contentlen
  <2>9. Outstanding(n, off, contentlen) \in 0 .. SizeMod - 1
    <3>1. contentlen - (n - off) \in Int
      BY <2>7, <2>8
    <3> QED
      BY <1>0, <3>1 DEF Outstanding
  <2>10. /\ pc' \in {"idle", "second"}
         /\ want' \in 0 .. SizeMod - 1 /\ acted' \in 0 .. exchange
    <3>1. CASE Return(got) /\ UNCHANGED want
      BY <1>0, <2>2, <2>6, <3>1, ReturnTyped DEF T
    <3>2. CASE pc' = "second" /\ want' = Outstanding(n, off, contentlen) /\ UNCHANGED acted
      BY <2>2, <2>9, <3>2
    <3> QED
      BY <2>5, <3>1, <3>2
  <2> QED
    BY <2>1, <2>2, <2>3, <2>4, <2>6, <2>7, <2>10 DEF TypeInv, T
<1>3. CASE SecondRecv
  <2> DEFINE T == UnitsUpTo(exchange)
  <2>1. /\ stream \in Seq(T) /\ buf \in Seq(T) /\ buf # <<>>
        /\ offset \in Nat /\ want \in 0 .. SizeMod - 1 /\ exchange \in 0 .. MaxExchanges
    BY <1>3 DEF SecondRecv, TypeInv
  <2>2. PICK n \in 1 .. Len(stream) :
          /\ buf' = buf \o SubSeq(stream, 1, n)
          /\ stream' = SubSeq(stream, n + 1, Len(stream))
          /\ whole' = (whole /\ n = want)
    BY <1>3 DEF SecondRecv
  <2>3. whole' \in BOOLEAN
    BY <2>2, Zenon
  <2>4. pc' = "idle" /\ acted' \in 0 .. exchange
    BY <1>0, <1>3, <2>1, ReturnTyped DEF SecondRecv
  <2> HIDE DEF T
  <2>5. stream' \in Seq(T) /\ SubSeq(stream, 1, n) \in Seq(T)
    BY <2>1, <2>2, PartsTyped
  <2>6. buf' \in Seq(T)
    BY <2>1, <2>2, <2>5
  <2> QED
    BY <1>3, <2>1, <2>3, <2>4, <2>5, <2>6 DEF SecondRecv, TypeInv, T
<1>4. CASE UNCHANGED vars
  BY <1>4 DEF TypeInv, vars
<1> QED
  BY <1>1, <1>2, <1>3, <1>4 DEF Next

-----------------------------------------------------------------------------
(* The theorems                                                            *)

\* As long as headers come whole and bodies end in the second recv, every
\* exchange acts on the reply to its own request and leaves nothing in the
\* stream, for every length of body and any number of exchanges
\* (RtspReceiveResponse).
THEOREM RepliesStayInStep == Spec => []InStep
<1>1. StepInv => InStep
  BY DEF StepInv, InStep
<1> QED
  BY <1>1, StepInvAlways, PTL

\* Under the same cuts the second recv of RtspReceiveResponse asks for exactly
\* what the server still has to send.
THEOREM SecondRecvAsksForTheRest == Spec => []AsksForTheRest
<1>1. StepInv => AsksForTheRest
  BY DEF StepInv, AsksForTheRest
<1> QED
  BY <1>1, StepInvAlways, PTL

\* Whatever the cuts, also those the code is not written for: no exchange acts
\* on a reply that was not sent, and the size passed to recv is one of 32 bits
\* (RtspReceiveResponse).
THEOREM RepliesTyped == Spec => []TypeOK
<1>1. TypeInv => TypeOK
  <2> SUFFICES ASSUME TypeInv
               PROVE  TypeOK
    OBVIOUS
  <2> DEFINE T == UnitsUpTo(exchange)
  <2>1. \A u \in T : u.msg \in 1 .. exchange
    BY DEF UnitsUpTo
  <2>2. stream \in Seq(T) /\ buf \in Seq(T)
    BY DEF TypeInv
  <2> HIDE DEF T
  <2>3. /\ \A i \in 1 .. Len(stream) : stream[i] \in T
        /\ \A i \in 1 .. Len(buf) : buf[i] \in T
    BY <2>2
  <2> QED
    BY <2>1, <2>3 DEF TypeInv, TypeOK
<1> QED
  BY <1>1, TypeInit, TypeStep, PTL DEF Spec
=============================================================================
