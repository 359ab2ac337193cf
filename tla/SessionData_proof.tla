-------------------------- MODULE SessionData_proof ---------------------------
(***************************************************************************)
(* For every URL, description and reply that InputsAssumption allows, of   *)
(* any length, a session works with what the user and the server wrote:    *)
(* the searches of the parsers find the words they look for where they     *)
(* were written, and cut the texts there.                                  *)
(***************************************************************************)
EXTENDS SessionData, SequenceFacts

-----------------------------------------------------------------------------
(* Searching a text                                                        *)

\* A search finds nothing ...
LEMMA NoPlace ==
  ASSUME NEW text, NEW words, Lacks(text, words)
  PROVE  Place(text, words) = 0
BY DEF Place, SelectInSeq, Lacks

\* ... or the first of the words.
LEMMA PlaceIs ==
  ASSUME NEW text \in Seq(Tokens), NEW words, NEW i \in 1 .. Len(text),
         text[i].word \in words,
         \A j \in 1 .. Len(text) : j < i => text[j].word \notin words
  PROVE  Place(text, words) = i
<1> DEFINE I == {j \in 1 .. Len(text) : text[j].word \in words}
<1>1. i \in I /\ I # {} /\ I \subseteq Int /\ \A j \in I : i <= j
  OBVIOUS
<1>2. Place(text, words) = IF I # {} THEN Min(I) ELSE 0
  BY DEF Place, SelectInSeq
<1> HIDE DEF I
<1>3. \A x \in I : (\A y \in I : x <= y) => x = i
  BY <1>1
<1>4. Min(I) = i
  BY <1>1, <1>3 DEF Min
<1> QED
  BY <1>1, <1>2, <1>4

\* Behind a part without the words comes the first of them.
LEMMA PlaceBehind ==
  ASSUME NEW s \in Seq(Tokens), NEW t \in Seq(Tokens), NEW words,
         Lacks(s, words), t # <<>>, t[1].word \in words
  PROVE  Place(s \o t, words) = Len(s) + 1
<1>1. Len(s) \in Nat /\ Len(t) \in Nat /\ Len(t) >= 1
  OBVIOUS
<1>2. /\ s \o t \in Seq(Tokens) /\ Len(s \o t) = Len(s) + Len(t)
      /\ \A i \in 1 .. Len(s) : (s \o t)[i] = s[i]
      /\ \A i \in 1 .. Len(t) : (s \o t)[Len(s) + i] = t[i]
  BY Joined
<1>3. PICK n : n = Len(s) + 1
  OBVIOUS
<1>4. n \in 1 .. Len(s \o t) /\ (s \o t)[n].word \in words
  BY <1>1, <1>2, <1>3
<1>5. \A j \in 1 .. Len(s \o t) : j < n => (s \o t)[j].word \notin words
  BY <1>1, <1>2, <1>3 DEF Lacks
<1> QED
  BY <1>2, <1>3, <1>4, <1>5, PlaceIs

\* The two parts of a sequence put together.
LEMMA Parted ==
  ASSUME NEW s \in Seq(Tokens), NEW t \in Seq(Tokens)
  PROVE  /\ SubSeq(s \o t, 1, Len(s)) = s
         /\ SubSeq(s \o t, Len(s) + 1, Len(s \o t)) = t
OBVIOUS

\* A text lacks what its parts lack.
LEMMA LacksJoined ==
  ASSUME NEW s \in Seq(Tokens), NEW t \in Seq(Tokens), NEW words,
         Lacks(s, words), Lacks(t, words)
  PROVE  Lacks(s \o t, words)
<1>1. Len(s) \in Nat /\ Len(t) \in Nat
  OBVIOUS
<1>2. ASSUME NEW i \in 1 .. Len(s \o t)
      PROVE  (s \o t)[i].word \notin words
  <2>1. CASE i <= Len(s)
    BY <1>1, <2>1, Joined DEF Lacks
  <2>2. CASE ~(i <= Len(s))
    <3>1. PICK j \in 1 .. Len(t) : i = Len(s) + j
      <4>1. i - Len(s) \in 1 .. Len(t) /\ i = Len(s) + (i - Len(s))
        BY <1>1, <2>2, Joined
      <4> QED
        BY <4>1
    <3> QED
      BY <3>1, Joined DEF Lacks
  <2> QED
    BY <2>1, <2>2
<1> QED
  BY <1>2 DEF Lacks

\* A text that lacks words lacks some of them.
LEMMA LacksFewer ==
  ASSUME NEW text, NEW words, NEW fewer, fewer \subseteq words, Lacks(text, words)
  PROVE  Lacks(text, fewer)
BY DEF Lacks

\* A text is read up to the first of the words ...
LEMMA CutAt ==
  ASSUME NEW s \in Seq(Tokens), NEW t \in Seq(Tokens), NEW words,
         Lacks(s, words), t = <<>> \/ t[1].word \in words
  PROVE  UpTo(s \o t, words) = s
<1>1. CASE t = <<>>
  <2>1. s \o t = s
    BY <1>1
  <2>2. Place(s, words) = 0
    BY NoPlace
  <2> QED
    BY <2>1, <2>2 DEF UpTo
<1>2. CASE t # <<>>
  <2>1. Place(s \o t, words) = Len(s) + 1
    BY <1>2, PlaceBehind
  <2>2. Len(s) \in Nat /\ (Len(s) + 1) - 1 = Len(s) /\ Len(s) + 1 # 0
    OBVIOUS
  <2>3. UpTo(s \o t, words) = SubSeq(s \o t, 1, Len(s))
    BY <2>1, <2>2 DEF UpTo
  <2> QED
    BY <2>3, Parted
<1> QED
  BY <1>1, <1>2

\* ... and goes on behind a word that was found.
LEMMA GoOnBehind ==
  ASSUME NEW s \in Seq(Tokens), NEW t \in Seq(Tokens), NEW w \in Words, Lacks(s, {w})
  PROVE  /\ Has(s \o (<<Word(w)>> \o t), w)
         /\ After(s \o (<<Word(w)>> \o t), w) = t
<1>1. Word(w) \in Tokens /\ Word(w).word = w
  BY DEF Word, Tokens
<1> DEFINE one == <<Word(w)>>
           more == one \o t
           before == s \o one
<1>2. one \in Seq(Tokens) /\ Len(one) = 1 /\ one[1] = Word(w)
  BY <1>1
<1> HIDE DEF one
<1>3. /\ more \in Seq(Tokens) /\ Len(more) = 1 + Len(t)
      /\ \A i \in 1 .. Len(one) : more[i] = one[i]
  <2>1. one \in Seq(Tokens)
    BY <1>2
  <2>2. /\ one \o t \in Seq(Tokens) /\ Len(one \o t) = Len(one) + Len(t)
        /\ \A i \in 1 .. Len(one) : (one \o t)[i] = one[i]
    BY <2>1, Joined
  <2> QED
    BY <1>2, <2>2
<1>4. before \in Seq(Tokens) /\ Len(before) = Len(s) + 1
  <2>1. one \in Seq(Tokens)
    BY <1>2
  <2>2. s \o one \in Seq(Tokens) /\ Len(s \o one) = Len(s) + Len(one)
    BY <2>1, Joined
  <2> QED
    BY <1>2, <2>2
<1>5. s \o more = before \o t
  BY <1>2
<1> HIDE DEF more, before
<1>6. more # <<>> /\ more[1] = Word(w)
  <2>1. Len(t) \in Nat /\ 1 \in 1 .. Len(one)
    BY <1>2
  <2>2. Len(more) # 0
    BY <1>3, <2>1
  <2>3. more[1] = one[1]
    BY <1>3, <2>1
  <2> QED
    BY <1>2, <2>2, <2>3
<1>7. Place(s \o more, {w}) = Len(s) + 1
  BY <1>1, <1>3, <1>6, PlaceBehind
<1>8. After(s \o more, w) = SubSeq(before \o t, Len(before) + 1, Len(before \o t))
  BY <1>4, <1>5, <1>7 DEF After
<1>9. After(s \o more, w) = t
  BY <1>4, <1>8, Parted
<1>10. Has(s \o more, w)
  <2>1. Len(s) + 1 > 0
    OBVIOUS
  <2> QED
    BY <1>7, <2>1 DEF Has
<1> QED
  BY <1>9, <1>10 DEF more, one

\* A word that is nowhere is not found.
LEMMA HasNot ==
  ASSUME NEW text, NEW w, Lacks(text, {w})
  PROVE  ~Has(text, w)
<1>1. Place(text, {w}) = 0
  BY NoPlace
<1> QED
  BY <1>1 DEF Has

-----------------------------------------------------------------------------
(* The URL                                                                 *)

\* One word is a text ...
LEMMA OneWord ==
  ASSUME NEW w \in Words
  PROVE  /\ <<Word(w)>> \in Seq(Tokens) /\ <<Word(w)>> # <<>>
         /\ Len(<<Word(w)>>) = 1 /\ <<Word(w)>>[1] = Word(w)
<1>1. Word(w) \in Tokens
  BY DEF Word, Tokens
<1>2. \A x : Len(<<x>>) = 1 /\ <<x>>[1] = x /\ <<x>> # <<>>
  OBVIOUS
<1>3. \A x \in Tokens : <<x>> \in Seq(Tokens)
  OBVIOUS
<1> QED
  BY <1>1, <1>2, <1>3, Zenon

\* ... without the other words.
LEMMA WordLacks ==
  ASSUME NEW w, NEW words, w \notin words
  PROVE  Lacks(<<Word(w)>>, words)
BY DEF Lacks, Word

\* The parts of a URL are texts.
LEMMA UrlParts ==
  ASSUME NEW u, UrlMeant(u)
  PROVE  /\ u.protocol \in Words
         /\ u.username \in Seq(Tokens) /\ u.password \in Seq(Tokens)
         /\ u.ip \in Seq(Tokens) /\ u.port \in Seq(Tokens) /\ u.stream \in Seq(Tokens)
         /\ PortPart(u) \in Seq(Tokens) /\ AddressPart(u) \in Seq(Tokens)
         /\ PasswordPart(u) \in Seq(Tokens) /\ LoginPart(u) \in Seq(Tokens)
         /\ u.username \o PasswordPart(u) \in Seq(Tokens)
<1>1. /\ u.protocol \in Words
      /\ u.username \in Seq(Tokens) /\ u.password \in Seq(Tokens)
      /\ u.ip \in Seq(Tokens) /\ u.port \in Seq(Tokens) /\ u.stream \in Seq(Tokens)
  BY DEF UrlMeant
<1>2. <<Word(":")>> \in Seq(Tokens) /\ <<Word("@")>> \in Seq(Tokens)
  <2>1. ":" \in Words /\ "@" \in Words
    BY InputsAssumption
  <2> QED
    BY <2>1, OneWord
<1>3. \A s, t \in Seq(Tokens) : s \o t \in Seq(Tokens)
  OBVIOUS
<1>4. <<>> \in Seq(Tokens)
  OBVIOUS
<1>5. PortPart(u) \in Seq(Tokens)
  BY <1>1, <1>2, <1>3, <1>4 DEF PortPart
<1>6. AddressPart(u) \in Seq(Tokens)
  BY <1>1, <1>3, <1>5 DEF AddressPart
<1>7. PasswordPart(u) \in Seq(Tokens)
  BY <1>1, <1>2, <1>3, <1>4 DEF PasswordPart
<1>8. u.username \o PasswordPart(u) \in Seq(Tokens)
  BY <1>1, <1>3, <1>7
<1>9. LoginPart(u) \in Seq(Tokens)
  BY <1>2, <1>3, <1>4, <1>8 DEF LoginPart
<1> QED
  BY <1>1, <1>5, <1>6, <1>7, <1>8, <1>9

\* A URL is its protocol, who logs in, and where.
LEMMA UrlIs ==
  ASSUME NEW u, UrlMeant(u)
  PROVE  /\ Written(u) \in Seq(Tokens)
         /\ Head(Written(u)) = Word(u.protocol)
         /\ Tail(Written(u)) = LoginPart(u) \o AddressPart(u)
<1>2. PICK p : p = <<Word(u.protocol)>>
  OBVIOUS
<1> p \in Seq(Tokens) /\ Len(p) = 1 /\ p[1] = Word(u.protocol)
  BY <1>2, UrlParts, OneWord
<1>5. Written(u) = p \o (LoginPart(u) \o AddressPart(u))
  BY <1>2 DEF Written
<1>6. LoginPart(u) \o AddressPart(u) \in Seq(Tokens)
  BY UrlParts
<1>7. ASSUME NEW t \in Seq(Tokens)
      PROVE  p \o t \in Seq(Tokens) /\ Head(p \o t) = p[1] /\ Tail(p \o t) = t
  BY <1>2
<1> QED
  BY <1>2, <1>5, <1>6, <1>7

\* Texts can be put together in any order.
Regrouped(a, b, c, d) == a \o (b \o (c \o d)) = (a \o (b \o c)) \o d

LEMMA FourJoined ==
  ASSUME NEW a \in Seq(Tokens), NEW b \in Seq(Tokens), NEW c \in Seq(Tokens),
         NEW d \in Seq(Tokens)
  PROVE  Regrouped(a, b, c, d)
<1> DEFINE bc == b \o c
<1>1. bc \in Seq(Tokens)
  OBVIOUS
<1>2. b \o (c \o d) = bc \o d
  OBVIOUS
<1> HIDE DEF bc
<1>3. a \o (bc \o d) = (a \o bc) \o d
  BY <1>1
<1> QED
  BY <1>2, <1>3, Zenon DEF bc, Regrouped

\* A text that begins with a word.
LEMMA WordFirst ==
  ASSUME NEW w \in Words, NEW t \in Seq(Tokens), NEW text, text = <<Word(w)>> \o t
  PROVE  text \in Seq(Tokens) /\ text # <<>> /\ text[1] = Word(w) /\ Tail(text) = t
<1> DEFINE one == <<Word(w)>>
<1>1. one \in Seq(Tokens) /\ Len(one) = 1 /\ one[1] = Word(w)
  BY OneWord
<1> HIDE DEF one
<1>2. text = one \o t
  BY DEF one
<1> QED
  BY <1>1, <1>2

\* With a port, ":" comes behind the address.
LEMMA PortBehind ==
  ASSUME NEW u, UrlMeant(u), u.port # <<>>
  PROVE  /\ PortPart(u) \o u.stream = <<Word(":")>> \o (u.port \o u.stream)
         /\ u.port \o u.stream \in Seq(Tokens)
<1> DEFINE one == <<Word(":")>>
<1>1. one \in Seq(Tokens)
  BY InputsAssumption, OneWord
<1> DEFINE port == u.port
           stream == u.stream
<1>2. port \in Seq(Tokens) /\ stream \in Seq(Tokens)
  BY UrlParts
<1>3. PortPart(u) = one \o port
  BY DEF PortPart
<1> HIDE DEF one, port, stream
<1>4. (one \o port) \o stream = one \o (port \o stream)
  BY <1>1, <1>2
<1>5. port \o stream \in Seq(Tokens)
  BY <1>2
<1> QED
  BY <1>3, <1>4, <1>5 DEF one, port, stream

\* The address ends where the port or the stream begins.
LEMMA IpRead ==
  ASSUME NEW u, UrlMeant(u)
  PROVE  /\ UpTo(AddressPart(u), {":", "/"}) = u.ip
         /\ SubSeq(AddressPart(u), Len(u.ip) + 1, Len(AddressPart(u)))
              = PortPart(u) \o u.stream
<1> DEFINE next == PortPart(u) \o u.stream
<1>1. next \in Seq(Tokens) /\ u.ip \in Seq(Tokens)
  BY UrlParts
<1>2. next = <<>> \/ next[1].word \in {":", "/"}
  <2>1. CASE u.port = <<>>
    <3>1. next = u.stream
      BY <2>1, UrlParts DEF PortPart
    <3> QED
      BY <3>1 DEF UrlMeant, Word
  <2>2. CASE u.port # <<>>
    <3>1. next[1] = Word(":")
      BY <2>2, PortBehind, WordFirst, InputsAssumption
    <3> QED
      BY <3>1 DEF Word
  <2> QED
    BY <2>1, <2>2
<1>3. Lacks(u.ip, {":", "/"})
  BY LacksFewer DEF UrlMeant, Lacks
<1> HIDE DEF next
<1>4. UpTo(u.ip \o next, {":", "/"}) = u.ip
  BY <1>1, <1>2, <1>3, CutAt
<1>5. SubSeq(u.ip \o next, Len(u.ip) + 1, Len(u.ip \o next)) = next
  BY <1>1, Parted
<1> QED
  BY <1>4, <1>5 DEF next, AddressPart

\* The port is the number behind ":", 0 if there is none.
LEMMA PortRead ==
  ASSUME NEW u, UrlMeant(u), NEW next, next = PortPart(u) \o u.stream
  PROVE  (IF next # <<>> /\ next[1] = Word(":") THEN atol(UpTo(Tail(next), {"/"})) ELSE 0)
           = atol(u.port)
<1>1. u.port \in Seq(Tokens) /\ u.stream \in Seq(Tokens)
  BY UrlParts
<1>2. u.stream = <<>> \/ u.stream[1] = Word("/")
  BY DEF UrlMeant
<1>3. CASE u.port = <<>>
  <2>1. next = u.stream
    BY <1>1, <1>3 DEF PortPart
  <2>2. Word("/") # Word(":")
    BY DEF Word
  <2> QED
    BY <1>2, <1>3, <2>1, <2>2 DEF atol
<1>4. CASE u.port # <<>>
  <2> DEFINE behind == u.port \o u.stream
  <2>1. behind \in Seq(Tokens) /\ next = <<Word(":")>> \o behind
    BY <1>4, PortBehind
  <2>4. UpTo(behind, {"/"}) = u.port
    <3>1. Lacks(u.port, {"/"})
      BY DEF UrlMeant, Lacks
    <3>2. u.stream = <<>> \/ u.stream[1].word \in {"/"}
      BY <1>2 DEF Word
    <3> QED
      BY <1>1, <3>1, <3>2, CutAt
  <2> HIDE DEF behind
  <2>5. next # <<>> /\ next[1] = Word(":") /\ Tail(next) = behind
    BY <2>1, WordFirst, InputsAssumption
  <2> QED
    BY <2>4, <2>5
<1> QED
  BY <1>3, <1>4

\* Only the stream comes behind the first "/".
LEMMA AuthorityRead ==
  ASSUME NEW u, UrlMeant(u)
  PROVE  Authority(LoginPart(u) \o AddressPart(u)) = LoginPart(u) \o (u.ip \o PortPart(u))
<1>1. /\ LoginPart(u) \in Seq(Tokens) /\ u.ip \in Seq(Tokens)
      /\ PortPart(u) \in Seq(Tokens) /\ u.stream \in Seq(Tokens)
  BY UrlParts
<1>2. Lacks(LoginPart(u), {"/"})
  <2>1. Lacks(<<>>, {"/"})
    BY DEF Lacks
  <2>2. Lacks(<<Word(":")>>, {"/"}) /\ Lacks(<<Word("@")>>, {"/"})
    BY WordLacks
  <2>3. <<Word(":")>> \in Seq(Tokens) /\ <<Word("@")>> \in Seq(Tokens)
    BY InputsAssumption, OneWord
  <2>4. Lacks(u.username, {"/"}) /\ Lacks(u.password, {"/"})
    BY DEF UrlMeant, Lacks
  <2>5. Lacks(PasswordPart(u), {"/"})
    BY <2>1, <2>2, <2>3, <2>4, LacksJoined, UrlParts DEF PasswordPart
  <2>6. Lacks(u.username \o PasswordPart(u), {"/"})
    BY <2>4, <2>5, LacksJoined, UrlParts
  <2>7. Lacks((u.username \o PasswordPart(u)) \o <<Word("@")>>, {"/"})
    BY <2>2, <2>3, <2>6, LacksJoined, UrlParts
  <2> QED
    BY <2>1, <2>7 DEF LoginPart
<1>3. Lacks(PortPart(u), {"/"})
  <2>1. Lacks(<<>>, {"/"})
    BY DEF Lacks
  <2>2. Lacks(<<Word(":")>>, {"/"})
    BY WordLacks
  <2>3. <<Word(":")>> \in Seq(Tokens)
    BY InputsAssumption, OneWord
  <2>4. Lacks(u.port, {"/"})
    BY DEF UrlMeant, Lacks
  <2> QED
    BY <2>1, <2>2, <2>3, <2>4, LacksJoined, UrlParts DEF PortPart
<1>4. Lacks(u.ip, {"/"})
  BY DEF UrlMeant, Lacks
<1> DEFINE host  == u.ip \o PortPart(u)
           front == LoginPart(u) \o host
<1>5. host \in Seq(Tokens) /\ Lacks(host, {"/"})
  BY <1>1, <1>3, <1>4, LacksJoined
<1> HIDE DEF host
<1>6. front \in Seq(Tokens) /\ Lacks(front, {"/"})
  BY <1>1, <1>2, <1>5, LacksJoined
<1>7. LoginPart(u) \o AddressPart(u) = front \o u.stream
  <2>1. Regrouped(LoginPart(u), u.ip, PortPart(u), u.stream)
    BY <1>1, FourJoined
  <2> QED
    BY <2>1, Zenon DEF Regrouped, AddressPart, host
<1>8. u.stream = <<>> \/ u.stream[1].word \in {"/"}
  BY DEF UrlMeant, Word
<1> HIDE DEF front
<1>9. UpTo(front \o u.stream, {"/"}) = front
  BY <1>1, <1>6, <1>8, CutAt
<1> QED
  BY <1>7, <1>9 DEF Authority, front, host

\* User name and password end at ":" and "@".
LEMMA LoginRead ==
  ASSUME NEW u, UrlMeant(u), NEW login, login = u.username \o PasswordPart(u)
  PROVE  /\ login \in Seq(Tokens) /\ Lacks(login, {"@"})
         /\ UpTo(login, {":"}) = u.username
         /\ (IF Has(login, ":") THEN After(login, ":") ELSE <<>>) = u.password
<1>1. /\ u.username \in Seq(Tokens) /\ u.password \in Seq(Tokens)
      /\ PasswordPart(u) \in Seq(Tokens) /\ login \in Seq(Tokens)
  BY UrlParts
<1>2. Lacks(u.username, {":"}) /\ Lacks(u.username, {"@"}) /\ Lacks(u.password, {"@"})
  BY DEF UrlMeant, Lacks
<1>3. ":" \in Words
  BY InputsAssumption
<1>4. CASE u.password = <<>>
  <2>1. PasswordPart(u) = <<>>
    BY <1>4 DEF PasswordPart
  <2>2. login = u.username
    BY <1>1, <2>1
  <2>3. UpTo(u.username \o PasswordPart(u), {":"}) = u.username
    BY <1>1, <1>2, <2>1, CutAt
  <2>4. ~Has(login, ":")
    BY <1>2, <2>2, HasNot
  <2> QED
    BY <1>1, <1>2, <1>4, <2>2, <2>3, <2>4
<1>5. CASE u.password # <<>>
  <2>1. PasswordPart(u) = <<Word(":")>> \o u.password
    BY <1>5 DEF PasswordPart
  <2>2. PasswordPart(u)[1].word = ":"
    BY <1>1, <1>3, <2>1, WordFirst DEF Word
  <2>3. UpTo(u.username \o PasswordPart(u), {":"}) = u.username
    BY <1>1, <1>2, <2>2, CutAt
  <2> DEFINE behind == <<Word(":")>> \o u.password
  <2>4. Has(u.username \o behind, ":") /\ After(u.username \o behind, ":") = u.password
    BY <1>1, <1>2, <1>3, GoOnBehind
  <2>5. Lacks(login, {"@"})
    <3> DEFINE one == <<Word(":")>>
    <3>1. Lacks(one, {"@"}) /\ one \in Seq(Tokens)
      BY <1>3, OneWord, WordLacks
    <3>2. PasswordPart(u) = one \o u.password
      BY <2>1
    <3> HIDE DEF one
    <3>3. Lacks(PasswordPart(u), {"@"})
      BY <1>1, <1>2, <3>1, <3>2, LacksJoined
    <3> QED
      BY <1>1, <1>2, <3>3, LacksJoined
  <2> HIDE DEF behind
  <2>6. login = u.username \o behind
    BY <2>1 DEF behind
  <2> QED
    BY <1>1, <2>1, <2>3, <2>4, <2>5, <2>6
<1> QED
  BY <1>4, <1>5

\* What ParseRtspUrl makes of the places it found.
LEMMA ParsedFrom ==
  ASSUME NEW text, NEW auth, NEW login, NEW rest, NEW ip, NEW next,
         auth = Authority(text),
         login = UpTo(auth, {"@"}),
         rest = IF Has(auth, "@") THEN After(text, "@") ELSE text,
         ip = UpTo(rest, {":", "/"}),
         next = SubSeq(rest, Len(ip) + 1, Len(rest))
  PROVE  ParseRtspUrl(text)
           = [username |-> IF Has(auth, "@") THEN UpTo(login, {":"}) ELSE <<>>,
              password |-> IF Has(auth, "@") /\ Has(login, ":") THEN After(login, ":") ELSE <<>>,
              ip       |-> ip,
              port     |-> IF next # <<>> /\ next[1] = Word(":")
                           THEN atol(UpTo(Tail(next), {"/"})) ELSE 0]
BY Zenon DEF ParseRtspUrl

\* A URL is taken apart as it was put together.
LEMMA AddressRead ==
  ASSUME NEW u, UrlMeant(u)
  PROVE  ParseRtspUrl(Tail(Written(u)))
           = [username |-> u.username, password |-> u.password,
              ip |-> u.ip, port |-> atol(u.port)]
<1> DEFINE text  == LoginPart(u) \o AddressPart(u)
           host  == u.ip \o PortPart(u)
           auth  == Authority(text)
           login == u.username \o PasswordPart(u)
<1>1. /\ LoginPart(u) \in Seq(Tokens) /\ AddressPart(u) \in Seq(Tokens)
      /\ u.ip \in Seq(Tokens) /\ PortPart(u) \in Seq(Tokens)
      /\ login \in Seq(Tokens) /\ host \in Seq(Tokens)
  BY UrlParts
<1>2. auth = LoginPart(u) \o host
  BY AuthorityRead
<1>3. Lacks(host, {"@"})
  <2>1. Lacks(<<>>, {"@"})
    BY DEF Lacks
  <2>2. Lacks(<<Word(":")>>, {"@"}) /\ <<Word(":")>> \in Seq(Tokens)
    BY InputsAssumption, OneWord, WordLacks
  <2>3. Lacks(u.port, {"@"}) /\ Lacks(u.ip, {"@"})
    BY DEF UrlMeant, Lacks
  <2>4. Lacks(PortPart(u), {"@"})
    BY <2>1, <2>2, <2>3, LacksJoined, UrlParts DEF PortPart
  <2> QED
    BY <1>1, <2>3, <2>4, LacksJoined
<1>4. Tail(Written(u)) = text
  BY UrlIs
<1> HIDE DEF host, auth, text
<1>5. CASE u.username = <<>>
  <2>1. LoginPart(u) = <<>> /\ u.password = <<>>
    BY <1>5 DEF LoginPart, UrlMeant
  <2>2. auth = host /\ text = AddressPart(u)
    BY <1>1, <1>2, <2>1 DEF text
  <2>3. ~Has(auth, "@")
    BY <1>3, <2>2, HasNot
  <2>4. ParseRtspUrl(text)
          = [username |-> <<>>, password |-> <<>>, ip |-> u.ip, port |-> atol(u.port)]
    <3> DEFINE next == SubSeq(text, Len(u.ip) + 1, Len(text))
    <3>1. UpTo(text, {":", "/"}) = u.ip /\ next = PortPart(u) \o u.stream
      BY <2>2, IpRead
    <3> HIDE DEF next
    <3>2. (IF next # <<>> /\ next[1] = Word(":") THEN atol(UpTo(Tail(next), {"/"})) ELSE 0)
            = atol(u.port)
      BY <3>1, PortRead
    <3>3. /\ auth = Authority(text) /\ u.ip = UpTo(text, {":", "/"})
          /\ text = IF Has(auth, "@") THEN After(text, "@") ELSE text
          /\ next = SubSeq(text, Len(u.ip) + 1, Len(text))
      BY <2>3, <3>1 DEF auth, next
    <3> QED
      BY <2>3, <3>2, <3>3, ParsedFrom
  <2> QED
    BY <1>4, <1>5, <2>1, <2>4
<1>6. CASE u.username # <<>>
  <2> DEFINE one == <<Word("@")>>
  <2>1. LoginPart(u) = login \o one
    BY <1>6 DEF LoginPart
  <2>2. one \in Seq(Tokens) /\ "@" \in Words
    BY InputsAssumption, OneWord
  <2>3. /\ login \in Seq(Tokens) /\ Lacks(login, {"@"})
        /\ UpTo(login, {":"}) = u.username
        /\ (IF Has(login, ":") THEN After(login, ":") ELSE <<>>) = u.password
    BY LoginRead
  <2> HIDE DEF one, login
  <2>4. ASSUME NEW t \in Seq(Tokens)
        PROVE  (login \o one) \o t = login \o (one \o t)
    BY <2>2, <2>3
  <2>5. auth = login \o (one \o host) /\ text = login \o (one \o AddressPart(u))
    BY <1>1, <1>2, <2>1, <2>4, Zenon DEF text
  <2>6. Has(auth, "@") /\ After(text, "@") = AddressPart(u)
    BY <1>1, <2>2, <2>3, <2>5, GoOnBehind DEF one
  <2>7. UpTo(auth, {"@"}) = login
    <3> DEFINE behind == one \o host
    <3>1. behind \in Seq(Tokens) /\ behind[1].word = "@"
      BY <1>1, <2>2, WordFirst DEF one, Word
    <3> HIDE DEF behind
    <3>2. UpTo(login \o behind, {"@"}) = login
      BY <2>3, <3>1, CutAt
    <3> QED
      BY <2>5, <3>2 DEF behind
  <2>8. ParseRtspUrl(text)
          = [username |-> u.username, password |-> u.password,
             ip |-> u.ip, port |-> atol(u.port)]
    <3> DEFINE rest == AddressPart(u)
               next == SubSeq(rest, Len(u.ip) + 1, Len(rest))
    <3>1. UpTo(rest, {":", "/"}) = u.ip /\ next = PortPart(u) \o u.stream
      BY IpRead
    <3> HIDE DEF next
    <3>2. (IF next # <<>> /\ next[1] = Word(":") THEN atol(UpTo(Tail(next), {"/"})) ELSE 0)
            = atol(u.port)
      BY <3>1, PortRead
    <3>3. /\ auth = Authority(text) /\ login = UpTo(auth, {"@"})
          /\ rest = IF Has(auth, "@") THEN After(text, "@") ELSE text
          /\ u.ip = UpTo(rest, {":", "/"})
          /\ next = SubSeq(rest, Len(u.ip) + 1, Len(rest))
      BY <2>6, <2>7, <3>1 DEF auth, next
    <3> HIDE DEF rest
    <3>4. ParseRtspUrl(text)
            = [username |-> IF Has(auth, "@") THEN UpTo(login, {":"}) ELSE <<>>,
               password |-> IF Has(auth, "@") /\ Has(login, ":") THEN After(login, ":") ELSE <<>>,
               ip       |-> u.ip,
               port     |-> IF next # <<>> /\ next[1] = Word(":")
                            THEN atol(UpTo(Tail(next), {"/"})) ELSE 0]
      BY <3>3, Zenon DEF ParseRtspUrl
    <3>5. (IF Has(auth, "@") /\ Has(login, ":") THEN After(login, ":") ELSE <<>>) = u.password
      BY <2>3, <2>6
    <3> QED
      BY <2>3, <2>6, <3>2, <3>4, <3>5
  <2> QED
    BY <1>4, <2>8
<1> QED
  BY <1>5, <1>6

-----------------------------------------------------------------------------
(* The replies                                                             *)

\* The text of the first fields of a reply.
FirstFields(r, n) == FlattenSeq([i \in 1 .. n |-> FieldText(r[i])])

\* A field is a text, and holds its name, its value and its delimiter.
LEMMA FieldTyped ==
  ASSUME NEW f \in Fields
  PROVE  /\ f.name \in Words \ Delimiters /\ f.end \in Delimiters /\ f.end \in Words
         /\ f.value \in Seq(Tokens) /\ FieldText(f) \in Seq(Tokens)
         /\ \A w : w # f.name /\ w \notin Delimiters /\ Lacks(f.value, {w})
                   => Lacks(FieldText(f), {w})
<1> DEFINE first == <<Word(f.name)>>
           last  == <<Word(f.end)>>
           value == f.value
<1>1. f.name \in Words \ Delimiters /\ f.end \in Delimiters /\ value \in Seq(Tokens)
  BY DEF Fields
<1>2. f.end \in Words
  BY <1>1, InputsAssumption
<1>3. first \in Seq(Tokens) /\ last \in Seq(Tokens)
  BY <1>1, <1>2, OneWord
<1>4. \A w : w # f.name /\ w \notin Delimiters => Lacks(first, {w}) /\ Lacks(last, {w})
  BY <1>1, WordLacks
<1>5. FieldText(f) = first \o (value \o last)
  BY DEF FieldText
<1> HIDE DEF first, last, value
<1> DEFINE behind == value \o last
<1>6. behind \in Seq(Tokens)
  BY <1>1, <1>3
<1>7. \A w : Lacks(value, {w}) /\ Lacks(last, {w}) => Lacks(behind, {w})
  BY <1>1, <1>3, LacksJoined
<1> HIDE DEF behind
<1>8. first \o behind \in Seq(Tokens)
  BY <1>3, <1>6
<1>9. \A w : Lacks(first, {w}) /\ Lacks(behind, {w}) => Lacks(first \o behind, {w})
  BY <1>3, <1>6, LacksJoined
<1>10. FieldText(f) = first \o behind
  BY <1>5 DEF behind
<1> QED
  BY <1>1, <1>2, <1>4, <1>7, <1>8, <1>9, <1>10 DEF value

\* One more field is written behind the others.
LEMMA FieldAppended ==
  ASSUME NEW r \in Seq(Fields), NEW n \in Nat, n + 1 \in 1 .. Len(r)
  PROVE  /\ FirstFields(r, n) \in Seq(Tokens) /\ FieldText(r[n + 1]) \in Seq(Tokens)
         /\ FirstFields(r, n + 1) = FirstFields(r, n) \o FieldText(r[n + 1])
         /\ FirstFields(r, n + 1) \in Seq(Tokens)
<1> DEFINE T    == Seq(Tokens)
           seqs == [i \in 1 .. n |-> FieldText(r[i])]
           e    == FieldText(r[n + 1])
           more == [i \in 1 .. n + 1 |-> FieldText(r[i])]
<1>1. \A i \in 1 .. n + 1 : FieldText(r[i]) \in T
  BY FieldTyped
<1> HIDE DEF T
<1>2. seqs \in Seq(T) /\ Len(seqs) = n /\ e \in T
  BY <1>1
<1>3. more = Append(seqs, e)
  BY <1>1, <1>2
<1> HIDE DEF seqs, e
<1>4. FlattenSeq(Append(seqs, e)) = FlattenSeq(seqs) \o e
  BY <1>2, FlattenAppend DEF T
<1>5. FlattenSeq(seqs) \in Seq(Tokens)
  BY <1>2, FlattenType DEF T
<1>6. more \in Seq(T)
  <2>1. Append(seqs, e) \in Seq(T)
    BY <1>2
  <2> QED
    BY <1>3, <2>1
<1> HIDE DEF more
<1>7. FlattenSeq(more) \in Seq(Tokens)
  BY <1>6, FlattenType DEF T
<1> QED
  BY <1>2, <1>3, <1>4, <1>5, <1>7 DEF FirstFields, seqs, e, T, more

\* Without fields there is no text.
LEMMA NoFields ==
  ASSUME NEW r
  PROVE  FirstFields(r, 0) = <<>>
BY DEF FirstFields, FlattenSeq

\* A word that is in none of the first fields is not in their text.
LEMMA FieldsLack ==
  ASSUME NEW r \in Seq(Fields), NEW k \in Nat, NEW w, k <= Len(r),
         \A i \in 1 .. k : Lacks(FieldText(r[i]), {w})
  PROVE  Lacks(FirstFields(r, k), {w})
<1> DEFINE S == {n \in Nat : n <= k => Lacks(FirstFields(r, n), {w})}
<1>1. 0 \in S
  BY NoFields DEF Lacks
<1>2. ASSUME NEW n \in Nat, n \in S
      PROVE  n + 1 \in S
  <2>1. SUFFICES ASSUME n + 1 <= k
                 PROVE  Lacks(FirstFields(r, n + 1), {w})
    OBVIOUS
  <2>2. n + 1 \in 1 .. Len(r) /\ n + 1 \in 1 .. k /\ Lacks(FirstFields(r, n), {w})
    BY <1>2, <2>1
  <2> QED
    BY <2>2, FieldAppended, LacksJoined
<1> HIDE DEF S
<1>3. Nat \subseteq S
  BY <1>1, <1>2, Induction
<1>4. k \in S
  BY <1>3
<1> QED
  BY <1>4 DEF S

\* The text of the first fields begins the text of more of them.
LEMMA FieldsGoOn ==
  ASSUME NEW r \in Seq(Fields), NEW k \in Nat, NEW m \in Nat, 1 <= k, k + m <= Len(r)
  PROVE  \E after \in Seq(Tokens) : FirstFields(r, k + m) = FirstFields(r, k) \o after
<1> DEFINE S == {n \in Nat : k + n <= Len(r) =>
                    \E after \in Seq(Tokens) :
                      FirstFields(r, k + n) = FirstFields(r, k) \o after}
<1>1. PICK j \in Nat : k = j + 1
  <2>1. k - 1 \in Nat /\ k = (k - 1) + 1
    OBVIOUS
  <2> QED
    BY <2>1
<1>2. FirstFields(r, k) \in Seq(Tokens)
  <2>1. j + 1 \in 1 .. Len(r)
    BY <1>1
  <2>2. FirstFields(r, j + 1) \in Seq(Tokens)
    BY <2>1, FieldAppended
  <2> QED
    BY <1>1, <2>2
<1>3. 0 \in S
  <2>1. FirstFields(r, k) = FirstFields(r, k) \o <<>> /\ <<>> \in Seq(Tokens) /\ k + 0 = k
    BY <1>2
  <2> QED
    BY <2>1, Zenon DEF S
<1>4. ASSUME NEW n \in Nat, n \in S
      PROVE  n + 1 \in S
  <2>1. SUFFICES ASSUME k + (n + 1) <= Len(r)
                 PROVE  \E after \in Seq(Tokens) :
                          FirstFields(r, k + (n + 1)) = FirstFields(r, k) \o after
    OBVIOUS
  <2>2. PICK a \in Seq(Tokens) : FirstFields(r, k + n) = FirstFields(r, k) \o a
    <3>1. k + n <= Len(r)
      BY <2>1
    <3>2. \E a \in Seq(Tokens) : FirstFields(r, k + n) = FirstFields(r, k) \o a
      BY <1>4, <3>1
    <3> QED
      BY <3>2
  <2> DEFINE front == FirstFields(r, k)
             e     == FieldText(r[(k + n) + 1])
  <2>3. (k + n) + 1 \in 1 .. Len(r) /\ k + n \in Nat /\ k + (n + 1) = (k + n) + 1
    BY <2>1
  <2>4. e \in Seq(Tokens) /\ FirstFields(r, (k + n) + 1) = FirstFields(r, k + n) \o e
    BY <2>3, FieldAppended
  <2>5. front \in Seq(Tokens)
    BY <1>2
  <2>6. FirstFields(r, k + (n + 1)) = (front \o a) \o e
    BY <2>2, <2>3, <2>4, Zenon
  <2> HIDE DEF front, e
  <2>7. (front \o a) \o e = front \o (a \o e) /\ a \o e \in Seq(Tokens)
    BY <2>4, <2>5
  <2> QED
    BY <2>6, <2>7, Zenon DEF front
<1> HIDE DEF S
<1>5. Nat \subseteq S
  BY <1>3, <1>4, Induction
<1>6. m \in S
  BY <1>5
<1> QED
  BY <1>6 DEF S

\* A field the server wrote is found, and its delimiter ends its value ...
LEMMA FieldFound ==
  ASSUME NEW r \in Seq(Fields), ReplyMeant(r), NEW k \in 1 .. Len(r), r[k].name \in Names
  PROVE  /\ Has(Reply(r), r[k].name)
         /\ \E rest \in Seq(Tokens) :
              /\ rest # <<>> /\ rest[1] = Word(r[k].end)
              /\ After(Reply(r), r[k].name) = r[k].value \o rest
<1> DEFINE w     == r[k].name
           first == <<Word(w)>>
           value == r[k].value
           last  == <<Word(r[k].end)>>
<1>1. PICK j \in Nat : k = j + 1
  <2>1. k - 1 \in Nat /\ k = (k - 1) + 1
    OBVIOUS
  <2> QED
    BY <2>1
<1>2. r[k] \in Fields /\ w \in Words /\ w \notin Delimiters /\ value \in Seq(Tokens)
  BY FieldTyped
<1>3. first \in Seq(Tokens) /\ last \in Seq(Tokens)
  BY <1>2, FieldTyped, OneWord
<1> DEFINE before == FirstFields(r, j)
<1>4. /\ before \in Seq(Tokens) /\ FirstFields(r, k) = before \o FieldText(r[k])
      /\ FieldText(r[k]) \in Seq(Tokens)
  BY <1>1, FieldAppended
<1>5. Lacks(before, {w})
  <2>1. ASSUME NEW i \in 1 .. j
        PROVE  Lacks(FieldText(r[i]), {w})
    <3>1. i \in 1 .. Len(r) /\ i # k /\ r[i] \in Fields
      BY <1>1
    <3>2. r[i].name # w
      BY <3>1 DEF ReplyMeant
    <3>3. Lacks(r[i].value, {w})
      BY <3>1, <1>2 DEF ReplyMeant, Lacks
    <3> QED
      BY <1>2, <3>1, <3>2, <3>3, FieldTyped
  <2>2. j <= Len(r)
    BY <1>1
  <2> QED
    BY <2>1, <2>2, FieldsLack
<1>6. PICK after \in Seq(Tokens) : Reply(r) = FirstFields(r, k) \o after
  <2>1. PICK m \in Nat : k + m = Len(r)
    <3>1. Len(r) - k \in Nat /\ k + (Len(r) - k) = Len(r)
      OBVIOUS
    <3> QED
      BY <3>1
  <2>2. FirstFields(r, Len(r)) = Reply(r)
    BY DEF FirstFields, Reply
  <2>3. \E after \in Seq(Tokens) : FirstFields(r, k + m) = FirstFields(r, k) \o after
    <3>1. k \in Nat /\ 1 <= k /\ k + m <= Len(r)
      BY <2>1
    <3> QED
      BY <3>1, FieldsGoOn
  <2> QED
    BY <2>1, <2>2, <2>3, Zenon
<1> before \in Seq(Tokens)
  BY <1>4
<1>7. Reply(r) = (before \o (first \o (value \o last))) \o after
  BY <1>4, <1>6, Zenon DEF FieldText
<1> HIDE DEF before, first, value, last
<1> DEFINE rest == last \o after
<1>8. (before \o (first \o (value \o last))) \o after
        = before \o ((first \o (value \o last)) \o after)
  <2> DEFINE t == first \o (value \o last)
  <2>1. t \in Seq(Tokens)
    BY <1>2, <1>3
  <2> HIDE DEF t
  <2>2. (before \o t) \o after = before \o (t \o after)
    BY <2>1
  <2> QED
    BY <2>2 DEF t
<1>9. (first \o (value \o last)) \o after = first \o ((value \o last) \o after)
  <2> DEFINE t == value \o last
  <2>1. t \in Seq(Tokens)
    BY <1>2, <1>3
  <2> HIDE DEF t
  <2>2. (first \o t) \o after = first \o (t \o after)
    BY <1>3, <2>1
  <2> QED
    BY <2>2 DEF t
<1>10. (value \o last) \o after = value \o rest
  BY <1>2, <1>3
<1>11. rest \in Seq(Tokens) /\ rest # <<>> /\ rest[1] = Word(r[k].end)
  BY <1>2, FieldTyped, WordFirst DEF last
<1> HIDE DEF rest
<1>12. Reply(r) = before \o (first \o (value \o rest))
  BY <1>7, <1>8, <1>9, <1>10, Zenon
<1> DEFINE behind == value \o rest
<1>13. behind \in Seq(Tokens)
  BY <1>2, <1>11
<1> HIDE DEF behind
<1>14. Reply(r) = before \o (<<Word(w)>> \o behind)
  BY <1>12 DEF behind, first
<1> HIDE DEF w
<1>15. Has(before \o (<<Word(w)>> \o behind), w) /\ After(before \o (<<Word(w)>> \o behind), w) = behind
  BY <1>2, <1>4, <1>5, <1>13, GoOnBehind
<1>16. Has(Reply(r), w) /\ After(Reply(r), w) = value \o rest
  BY <1>14, <1>15, Zenon DEF behind
<1> QED
  BY <1>11, <1>16, Zenon DEF w, value

\* ... and one that it did not write is not found.
LEMMA FieldMissing ==
  ASSUME NEW r \in Seq(Fields), ReplyMeant(r), NEW w \in Names,
         \A i \in 1 .. Len(r) : r[i].name # w
  PROVE  ~Has(Reply(r), w)
<1>1. w \notin Delimiters
  BY DEF Names, Delimiters
<1>2. ASSUME NEW i \in 1 .. Len(r)
      PROVE  Lacks(FieldText(r[i]), {w})
  <2>1. r[i] \in Fields
    OBVIOUS
  <2>2. Lacks(r[i].value, {w})
    BY DEF ReplyMeant, Lacks
  <2> QED
    BY <1>1, <2>1, <2>2, FieldTyped
<1>3. Len(r) \in Nat /\ Len(r) <= Len(r)
  OBVIOUS
<1>4. Lacks(FirstFields(r, Len(r)), {w})
  BY <1>2, <1>3, FieldsLack
<1> QED
  BY <1>4, HasNot DEF FirstFields, Reply

\* A value ends at its delimiter.
LEMMA ValueRead ==
  ASSUME NEW value \in Seq(Tokens), NEW rest \in Seq(Tokens), NEW end \in Delimiters,
         Lacks(value, Delimiters), rest # <<>>, rest[1] = Word(end)
  PROVE  UpTo(value \o rest, {";", "\r"}) = value
<1>1. rest[1].word \in Delimiters
  BY DEF Word
<1>2. UpTo(value \o rest, Delimiters) = value
  BY <1>1, CutAt
<1> QED
  BY <1>2 DEF Delimiters

\* The value of a field the server wrote, or what there was before.
Answered(r, name, old) ==
  IF \E i \in 1 .. Len(r) : r[i].name = name
  THEN (CHOOSE f \in {r[i] : i \in 1 .. Len(r)} : f.name = name).value
  ELSE old

\* What the server answered is the value of the one field of that name.
LEMMA AnsweredIs ==
  ASSUME NEW r \in Seq(Fields), ReplyMeant(r), NEW name, NEW old
  PROVE  /\ \A k \in 1 .. Len(r) : r[k].name = name => Answered(r, name, old) = r[k].value
         /\ (\A i \in 1 .. Len(r) : r[i].name # name) => Answered(r, name, old) = old
<1>1. ASSUME NEW k \in 1 .. Len(r), r[k].name = name
      PROVE  Answered(r, name, old) = r[k].value
  <2> DEFINE all == {r[i] : i \in 1 .. Len(r)}
             f   == CHOOSE f \in all : f.name = name
  <2>1. r[k] \in all
    OBVIOUS
  <2>2. f \in all /\ f.name = name
    BY <1>1, <2>1
  <2> HIDE DEF f
  <2>3. f = r[k]
    BY <1>1, <2>2 DEF ReplyMeant
  <2>4. Answered(r, name, old) = f.value
    BY <1>1, Zenon DEF Answered, f
  <2> QED
    BY <2>3, <2>4
<1>2. (\A i \in 1 .. Len(r) : r[i].name # name) => Answered(r, name, old) = old
  BY DEF Answered
<1> QED
  BY <1>1, <1>2

\* A pair of ports is read as it was written.
BeginsWithPair(text, a, b, rest) == text = Pairs(<<a, b>>) \o rest

LEMMA PairRead ==
  ASSUME NEW a \in Nat, NEW b \in Nat, NEW rest \in Seq(Tokens), NEW end \in Delimiters,
         rest # <<>>, rest[1] = Word(end),
         NEW pair, BeginsWithPair(pair, a, b, rest)
  PROVE  /\ atol(UpTo(pair, {"-"})) = a
         /\ atol(UpTo(After(pair, "-"), {";", "\r"})) = b
<1> DEFINE first == <<Number(a)>>
           dash  == <<Word("-")>>
           last  == <<Number(b)>>
           behind == last \o rest
           more   == dash \o behind
<1>1. Number(a) \in Tokens /\ Number(b) \in Tokens /\ "-" \in Words
  BY InputsAssumption DEF Number, Tokens
<1>2. /\ first \in Seq(Tokens) /\ first # <<>> /\ Len(first) = 1 /\ first[1] = Number(a)
      /\ last \in Seq(Tokens) /\ last # <<>> /\ Len(last) = 1 /\ last[1] = Number(b)
  <2>1. \A x \in Tokens :
          <<x>> \in Seq(Tokens) /\ <<x>> # <<>> /\ Len(<<x>>) = 1 /\ <<x>>[1] = x
    OBVIOUS
  <2> QED
    BY <1>1, <2>1, Zenon
<1>3. dash \in Seq(Tokens) /\ Len(dash) = 1 /\ dash[1] = Word("-")
  BY <1>1, OneWord
<1>4. Pairs(<<a, b>>) = first \o (dash \o last)
  BY DEF Pairs
<1> HIDE DEF first, dash, last
<1>5. Lacks(first, {"-"}) /\ Lacks(last, Delimiters)
  <2>1. Number(a).word = "digits" /\ Number(b).word = "digits" /\ "digits" \notin Delimiters
    BY DEF Number, Delimiters
  <2> QED
    BY <1>2, <2>1 DEF Lacks
<1>6. atol(first) = a /\ atol(last) = b
  BY <1>2 DEF atol, Number
<1>7. (first \o (dash \o last)) \o rest = first \o ((dash \o last) \o rest)
  <2> DEFINE t == dash \o last
  <2>1. t \in Seq(Tokens)
    BY <1>2, <1>3
  <2> HIDE DEF t
  <2>2. (first \o t) \o rest = first \o (t \o rest)
    BY <1>2, <2>1
  <2> QED
    BY <2>2 DEF t
<1>8. (dash \o last) \o rest = more
  BY <1>2, <1>3
<1>9. pair = first \o more
  BY <1>4, <1>7, <1>8, Zenon DEF BeginsWithPair
<1>10. behind \in Seq(Tokens)
  BY <1>2
<1> HIDE DEF behind
<1>11. more \in Seq(Tokens) /\ more[1].word = "-"
  <2>1. more = <<Word("-")>> \o behind
    BY DEF dash
  <2>2. more \in Seq(Tokens) /\ more[1] = Word("-")
    BY <1>1, <1>10, <2>1, WordFirst
  <2> QED
    BY <2>2 DEF Word
<1>12. After(pair, "-") = behind
  <2>1. After(first \o (<<Word("-")>> \o behind), "-") = behind
    BY <1>1, <1>2, <1>5, <1>10, GoOnBehind
  <2> QED
    BY <1>9, <2>1, Zenon DEF dash
<1> HIDE DEF more
<1>13. UpTo(pair, {"-"}) = first
  BY <1>2, <1>5, <1>9, <1>11, CutAt
<1>14. UpTo(behind, {";", "\r"}) = last
  BY <1>2, <1>5, ValueRead DEF behind
<1> QED
  BY <1>6, <1>12, <1>13, <1>14

\* The ports of a stream are those of the reply, if it names them.
LEMMA PortsRead ==
  ASSUME NEW r \in Seq(Fields), ReplyMeant(r), NEW name \in {"client_port=", "server_port="},
         NEW old \in Nat \X Nat, NEW ports, ports = PortsOf(Reply(r), name, old)
  PROVE  /\ ports \in Nat \X Nat
         /\ Pairs(ports) = Answered(r, name, Pairs(old))
<1>1. name \in Names
  BY DEF Names
<1>2. ASSUME NEW k \in 1 .. Len(r), r[k].name = name
      PROVE  ports \in Nat \X Nat /\ Pairs(ports) = Answered(r, name, Pairs(old))
  <2> DEFINE v == r[k].value
  <2>1. r[k] \in Fields /\ r[k].end \in Delimiters /\ v \in Seq(Tokens)
    BY FieldTyped
  <2>2. Len(v) = 3 /\ v = Pairs(<<v[1].num, v[3].num>>)
    BY <1>2 DEF ReplyMeant
  <2>3. PICK a \in Nat, b \in Nat : v = Pairs(<<a, b>>)
    <3>1. v[1] \in Tokens /\ v[3] \in Tokens
      BY <2>1, <2>2
    <3>2. v[1].num \in Nat /\ v[3].num \in Nat
      BY <3>1 DEF Tokens
    <3> QED
      BY <2>2, <3>2, Zenon
  <2> HIDE DEF v
  <2>4. PICK rest \in Seq(Tokens) :
          /\ rest # <<>> /\ rest[1] = Word(r[k].end)
          /\ After(Reply(r), name) = v \o rest
    BY <1>1, <1>2, FieldFound DEF v
  <2>5. Has(Reply(r), name)
    BY <1>1, <1>2, FieldFound
  <2>6. After(Reply(r), name) = Pairs(<<a, b>>) \o rest
    BY <2>3, <2>4, Zenon
  <2> DEFINE pair == After(Reply(r), name)
  <2> HIDE DEF pair
  <2>7. atol(UpTo(pair, {"-"})) = a /\ atol(UpTo(After(pair, "-"), {";", "\r"})) = b
    <3>1. BeginsWithPair(pair, a, b, rest)
      BY <2>6 DEF pair, BeginsWithPair
    <3> QED
      BY <2>1, <2>4, <3>1, PairRead
  <2>8. ports = <<a, b>>
    BY <2>5, <2>7 DEF PortsOf, pair
  <2>9. Answered(r, name, Pairs(old)) = v
    BY <1>2, AnsweredIs DEF v
  <2> QED
    BY <2>3, <2>8, <2>9
<1>3. CASE \A i \in 1 .. Len(r) : r[i].name # name
  <2>1. ~Has(Reply(r), name)
    BY <1>1, <1>3, FieldMissing
  <2>2. ports = old
    BY <2>1 DEF PortsOf
  <2>3. Answered(r, name, Pairs(old)) = Pairs(old)
    BY <1>3, AnsweredIs
  <2> QED
    BY <2>2, <2>3
<1> QED
  BY <1>2, <1>3

\* The timeout is the number the reply names, 0 without one.
LEMMA TimeoutRead ==
  ASSUME NEW r \in Seq(Fields), ReplyMeant(r)
  PROVE  (IF Has(Reply(r), "timeout=") THEN atol(UpTo(After(Reply(r), "timeout="), {";", "\r"}))
          ELSE 0) = atol(Answered(r, "timeout=", <<>>))
<1>1. "timeout=" \in Names
  BY DEF Names
<1>2. ASSUME NEW k \in 1 .. Len(r), r[k].name = "timeout="
      PROVE  /\ Has(Reply(r), "timeout=")
             /\ UpTo(After(Reply(r), "timeout="), {";", "\r"}) = Answered(r, "timeout=", <<>>)
  <2>1. r[k] \in Fields /\ r[k].end \in Delimiters /\ r[k].value \in Seq(Tokens)
    BY FieldTyped
  <2>2. Lacks(r[k].value, Delimiters)
    BY DEF ReplyMeant, Lacks
  <2>3. PICK rest \in Seq(Tokens) :
          /\ rest # <<>> /\ rest[1] = Word(r[k].end)
          /\ After(Reply(r), "timeout=") = r[k].value \o rest
    BY <1>1, <1>2, FieldFound
  <2>4. Has(Reply(r), "timeout=")
    BY <1>1, <1>2, FieldFound
  <2>5. UpTo(r[k].value \o rest, {";", "\r"}) = r[k].value
    BY <2>1, <2>2, <2>3, ValueRead
  <2>6. Answered(r, "timeout=", <<>>) = r[k].value
    BY <1>2, AnsweredIs
  <2> QED
    BY <2>3, <2>4, <2>5, <2>6, Zenon
<1>3. CASE \A i \in 1 .. Len(r) : r[i].name # "timeout="
  <2>1. ~Has(Reply(r), "timeout=")
    BY <1>1, <1>3, FieldMissing
  <2>2. Answered(r, "timeout=", <<>>) = <<>>
    BY <1>3, AnsweredIs
  <2> QED
    BY <2>1, <2>2 DEF atol
<1> QED
  BY <1>2, <1>3

-----------------------------------------------------------------------------
(* The description                                                         *)

\* The control GetSdpAcontrol finds for a stream that has none yet.
ControlOf(m) ==
  IF \E l \in First(m, ControlLines) : l.text # "*"
  THEN (CHOOSE l \in First(m, ControlLines) : TRUE).text
  ELSE None

\* A control line names a control or "*".
LEMMA ControlText ==
  ASSUME NEW l \in ControlLines
  PROVE  l.text \in Controls \union {"*"}
<1>1. l \in Lines /\ l.kind = "a=control:"
  BY DEF ControlLines
<1>2. ASSUME NEW m, NEW t, l = MediaLine(m, t)
      PROVE  FALSE
  BY <1>1, <1>2 DEF MediaLine
<1>3. PICK c \in Controls \union {"*"} : l = ControlLine(c)
  BY <1>1, <1>2 DEF Lines
<1> QED
  BY <1>3 DEF ControlLine

\* The first match is one line.
LEMMA OneFirst ==
  ASSUME NEW m, NEW matching, NEW i \in Behind(m, matching),
         \A j \in Behind(m, matching) : i <= j
  PROVE  First(m, matching) = {sdp[i]}
<1>1. Behind(m, matching) \subseteq Int
  BY DEF Behind
<1>2. \A j \in Behind(m, matching) :
        (\A k \in Behind(m, matching) : j <= k) => j = i
  BY <1>1
<1> QED
  BY <1>2 DEF First

\* Every match is behind a first one.
LEMMA FirstExists ==
  ASSUME NEW m, NEW matching, Behind(m, matching) # {}
  PROVE  \E i \in Behind(m, matching) : \A j \in Behind(m, matching) : i <= j
<1>1. Behind(m, matching) \subseteq Nat
  BY DEF Behind
<1> QED
  BY <1>1, Least

\* The control of a stream is one of the description, or none.
LEMMA ControlTyped ==
  ASSUME NEW m
  PROVE  ControlOf(m) \in Controls \union {None}
<1>1. CASE Behind(m, ControlLines) = {}
  BY <1>1 DEF ControlOf, First
<1>2. CASE Behind(m, ControlLines) # {}
  <2>1. PICK i \in Behind(m, ControlLines) : \A j \in Behind(m, ControlLines) : i <= j
    BY <1>2, FirstExists
  <2>2. First(m, ControlLines) = {sdp[i]}
    BY <2>1, OneFirst
  <2>3. sdp[i] \in ControlLines
    BY DEF Behind
  <2>4. sdp[i].text \in Controls \union {"*"}
    BY <2>3, ControlText
  <2>5. (CHOOSE l \in First(m, ControlLines) : TRUE) = sdp[i]
    BY <2>2
  <2> QED
    BY <2>2, <2>4, <2>5 DEF ControlOf
<1> QED
  BY <1>1, <1>2

\* When a section has controls, the first match is one of them: sections come
\* once, so that no media line lies between the section's own and the match.
LEMMA FirstIsOwn ==
  ASSUME sdp \in Seq(Lines), OneSectionEach(sdp), NEW m \in Media,
         NEW i \in Section(m), sdp[i] \in ControlLines,
         NEW f \in Behind(m, ControlLines), \A j \in Behind(m, ControlLines) : f <= j
  PROVE  f \in Section(m)
<1>1. i \in 1 .. Len(sdp) /\ f \in 1 .. Len(sdp) /\ Len(sdp) \in Nat
  BY DEF Section, Behind
<1>2. i \in Behind(m, ControlLines)
  BY DEF Section, Behind
<1>3. f <= i
  BY <1>2
<1>4. f \in Behind(m, Lines)
  BY DEF Behind, ControlLines
<1>5. PICK own \in 1 .. f : sdp[own].kind = "m=" /\ sdp[own].media = m
  BY DEF Behind
<1>6. ASSUME NEW j \in 1 .. f, sdp[j].kind = "m=", sdp[j].media # m
      PROVE  \E k \in j .. f : sdp[k].kind = "m=" /\ sdp[k].media = m
  <2>1. j \in 1 .. i
    BY <1>1, <1>3
  <2>2. PICK k \in j .. i : sdp[k].kind = "m=" /\ sdp[k].media = m
    BY <1>6, <2>1 DEF Section
  <2>3. k \in 1 .. Len(sdp) /\ own \in 1 .. Len(sdp)
    BY <1>1
  <2>4. k = own
    BY <1>5, <2>2, <2>3 DEF OneSectionEach
  <2> QED
    BY <1>5, <2>2, <2>4
<1> QED
  BY <1>4, <1>6 DEF Section

\* The control found is the only one of the section.
LEMMA ControlIsOwn ==
  ASSUME sdp \in Seq(Lines), OneSectionEach(sdp), NEW m \in Media, NEW c,
         OwnControls(m) = {c}
  PROVE  /\ c # None
         /\ ControlOf(m) = IF c = "*" THEN None ELSE c
<1>1. PICK i \in Section(m) : sdp[i] \in ControlLines
  BY DEF OwnControls
<1>2. i \in Behind(m, ControlLines)
  BY <1>1 DEF Section, Behind
<1>3. PICK f \in Behind(m, ControlLines) : \A j \in Behind(m, ControlLines) : f <= j
  BY <1>2, FirstExists
<1>4. f \in Section(m)
  BY <1>1, <1>3, FirstIsOwn
<1>5. sdp[f] \in ControlLines
  BY DEF Behind
<1>6. sdp[f].text = c
  BY <1>4, <1>5 DEF OwnControls
<1>7. c \in Controls \union {"*"}
  BY <1>5, <1>6, ControlText
<1>8. First(m, ControlLines) = {sdp[f]}
  BY <1>3, OneFirst
<1>9. (CHOOSE l \in First(m, ControlLines) : TRUE) = sdp[f]
  BY <1>8
<1>10. ControlOf(m) = IF sdp[f].text # "*" THEN sdp[f].text ELSE None
  BY <1>8, <1>9 DEF ControlOf
<1> QED
  BY <1>6, <1>7, <1>10, LineAssumption

-----------------------------------------------------------------------------
(* The inductive invariant                                                 *)

\* The inputs are those of InputsAssumption.
Meant ==
  /\ sdp \in Seq(Lines) /\ OneSectionEach(sdp)
  /\ UrlMeant(url)
  /\ replies \in [Exchanges -> Seq(Fields)]
  /\ \A e \in Exchanges : ReplyMeant(replies[e])

\* The description is searched between the URL and the SETUPs.
Stages ==
  /\ at \in {"url", "refused"} => pc = 1
  /\ at = "describe" => pc <= 4
  /\ at \in {"video", "audio", "play", "up"} => pc = 5

\* A control is what its search found, and none before.
Searched ==
  \A m \in Media : control[m] = IF pc > (IF m = "video" THEN 2 ELSE 4) THEN ControlOf(m) ELSE None

\* A stream with a control was asked for in its turn.
SetupOf(m) == IF control[m] = None THEN <<>> ELSE SetupUrl(m)

AskedInTurn ==
  /\ asked["video"] = IF at \in {"audio", "play", "up"} THEN SetupOf("video") ELSE <<>>
  /\ asked["audio"] = IF at \in {"play", "up"} THEN SetupOf("audio") ELSE <<>>

\* A stream keeps the ports of InitRtspClientSession until its reply.
FirstPorts(m) ==
  IF m = "video" THEN [NoPorts EXCEPT !.client = <<Interleaved, 0>>] ELSE NoPorts

\* The URL is taken apart as it was put together; without a port it is 0.
AddressParsed ==
  at \notin {"url", "refused"} =>
    address = [username |-> url.username, password |-> url.password,
               ip |-> url.ip, port |-> atol(url.port)]

\* A stream has the ports of its reply, and the first ones where that names none.
PortsAnswered(m) ==
  /\ Pairs(transport[m].server) = Answered(replies[m], "server_port=", Pairs(<<0, 0>>))
  /\ Pairs(transport[m].client) =
       Answered(replies[m], "client_port=",
                IF m = "video" THEN Pairs(<<Interleaved, 0>>) ELSE Pairs(<<0, 0>>))

PortsInTurn ==
  \A m \in Media : IF asked[m] = <<>> THEN transport[m] = FirstPorts(m) ELSE PortsAnswered(m)

\* The timeout is 0 until PLAY.
TimeoutInTurn ==
  timeout = IF at = "up" THEN atol(Answered(replies["play"], "timeout=", <<>>)) ELSE 0

DataInv ==
  /\ Meant
  /\ DataTypeOK
  /\ Stages
  /\ Searched
  /\ AddressParsed
  /\ AskedInTurn
  /\ PortsInTurn
  /\ TimeoutInTurn

\* What the session was given does not change, nor what it says of the
\* description.
Given == <<sdp, url, replies>>

LEMMA GivenStays ==
  ASSUME Given' = Given
  PROVE  /\ Meant => Meant'
         /\ \A m : ControlOf(m)' = ControlOf(m)
<1>1. sdp' = sdp /\ url' = url /\ replies' = replies
  BY DEF Given
<1>2. Meant => Meant'
  BY <1>1 DEF Meant, OneSectionEach
<1>3. \A m : ControlOf(m)' = ControlOf(m)
  BY <1>1 DEF ControlOf, First, Behind
<1> QED
  BY <1>2, <1>3

\* ParseSdpProto makes four calls.
LEMMA FourCalls ==
  Len(Calls) = 4
BY DEF Calls

\* The invariant holds in a new session.
LEMMA DataStart ==
  DataInit => DataInv
<1> SUFFICES ASSUME DataInit
             PROVE  DataInv
  OBVIOUS
<1>0. /\ pc = 1 /\ control = [m \in Media |-> None] /\ at = "url" /\ timeout = 0 /\ sessid = <<>>
      /\ trans = [m \in Media |-> IF m = "video" THEN "UDP" ELSE "TCP"]
      /\ address = [username |-> <<>>, password |-> <<>>, ip |-> <<>>, port |-> 0]
      /\ asked = [m \in Media |-> <<>>]
      /\ transport = [m \in Media |->
           IF m = "video" THEN [NoPorts EXCEPT !.client = <<Interleaved, 0>>] ELSE NoPorts]
  BY DEF DataInit, InitRtspClientSession, Init
<1> pc = 1
  BY <1>0
<1>1. Meant
  BY InputsAssumption DEF DataInit, Meant
<1>2. <<Interleaved, 0>> \in Nat \X Nat /\ <<0, 0>> \in Nat \X Nat
  BY InputsAssumption
<1>3. \A m \in Media : transport[m] = FirstPorts(m)
  BY <1>0 DEF FirstPorts
<1>4. DataTypeOK
  <2>1. TypeOK
    <3>1. sdp \in Seq(Lines)
      BY <1>1 DEF Meant
    <3>2. pc \in 1 .. Len(Calls) + 1
      <4>1. Len(Calls) + 1 = 5
        BY FourCalls
      <4>2. pc \in 1 .. 5
        OBVIOUS
      <4> QED
        BY <4>1, <4>2
    <3>3. trans \in [Media -> {"UDP", "TCP"}] /\ control \in [Media -> Controls \union {None}]
      BY <1>0
    <3> QED
      BY <3>1, <3>2, <3>3 DEF TypeOK
  <2> DEFINE T == Seq(Tokens)
  <2> <<>> \in T
    OBVIOUS
  <2> HIDE DEF T
  <2>2. address \in [username : T, password : T, ip : T, port : Nat]
    BY <1>0
  <2>3. asked \in [Media -> T] /\ sessid \in T /\ timeout \in Nat
    BY <1>0
  <2>4. transport \in [Media -> [client : Nat \X Nat, server : Nat \X Nat]]
    BY <1>0, <1>2 DEF NoPorts
  <2> QED
    BY <1>0, <2>1, <2>2, <2>3, <2>4 DEF DataTypeOK, T
<1>5. Stages /\ AddressParsed /\ TimeoutInTurn
  BY <1>0 DEF Stages, AddressParsed, TimeoutInTurn
<1>6. Searched
  <2>1. \A m \in Media : control[m] = None
    BY <1>0
  <2>2. ~(pc > 2) /\ ~(pc > 4)
    OBVIOUS
  <2> QED
    BY <2>1, <2>2, Zenon DEF Searched
<1>7. AskedInTurn /\ PortsInTurn
  BY <1>0, <1>3 DEF AskedInTurn, PortsInTurn, Media
<1> QED
  BY <1>1, <1>4, <1>5, <1>6, <1>7 DEF DataInv

\* ParseUrl keeps it: the address is as written.
LEMMA UrlStep ==
  DataInv /\ ParseUrl => DataInv'
<1> SUFFICES ASSUME DataInv, ParseUrl
             PROVE  DataInv'
  OBVIOUS
<1> USE DEF DataInv
<1>1. /\ at = "url" /\ UNCHANGED <<sdp, pc, trans, control>>
      /\ UNCHANGED <<url, replies, asked, transport, sessid, timeout>>
      /\ at' \in {"describe", "refused"}
      /\ at' = "describe" => address' = ParseRtspUrl(Tail(Written(url)))
      /\ at' = "refused" => address' = address
  BY DEF ParseUrl, vars
<1>2. Given' = Given
  BY <1>1 DEF Given
<1>3. Meant'
  BY <1>2, GivenStays
<1>4. at' = "describe" =>
        address' = [username |-> url.username, password |-> url.password,
                    ip |-> url.ip, port |-> atol(url.port)]
  BY <1>1, AddressRead DEF Meant
<1>5. AddressParsed'
  BY <1>1, <1>4 DEF AddressParsed
<1>6. atol(url.port) \in Nat
  <2>1. url.port = <<>> \/ url.port[1] \in Tokens
    BY UrlParts DEF Meant
  <2> QED
    BY <2>1 DEF atol, Tokens
<1>7. DataTypeOK'
  <2>1. TypeOK'
    BY <1>1 DEF DataTypeOK, TypeOK
  <2>2. address' \in [username : Seq(Tokens), password : Seq(Tokens),
                      ip : Seq(Tokens), port : Nat]
    BY <1>1, <1>4, <1>6, UrlParts DEF DataTypeOK, Meant
  <2> QED
    BY <1>1, <2>1, <2>2 DEF DataTypeOK
<1>8. Stages' /\ AskedInTurn' /\ PortsInTurn' /\ TimeoutInTurn'
  BY <1>1 DEF Stages, AskedInTurn, PortsInTurn, TimeoutInTurn, PortsAnswered, FirstPorts
<1>9. Searched'
  BY <1>1, <1>2, GivenStays DEF Searched
<1> QED
  BY <1>3, <1>5, <1>7, <1>8, <1>9

\* The calls of ParseSdpProto come in their order.
LEMMA CallPlace ==
  ASSUME NEW name, Call(name), pc \in 1 .. 5
  PROVE  /\ pc \in 1 .. 4 /\ pc' = pc + 1
         /\ name = "VideoTransport" => pc = 1
         /\ name = "VideoAcontrol" => pc = 2
         /\ name = "AudioTransport" => pc = 3
         /\ name = "AudioAcontrol" => pc = 4
<1>1. pc \in 1 .. 4 /\ pc' = pc + 1 /\ Calls[pc] = name
  BY FourCalls DEF Call
<1>2. /\ Calls[1] = "VideoTransport" /\ Calls[2] = "VideoAcontrol"
      /\ Calls[3] = "AudioTransport" /\ Calls[4] = "AudioAcontrol"
  BY DEF Calls
<1>3. pc = 1 \/ pc = 2 \/ pc = 3 \/ pc = 4
  BY <1>1
<1> QED
  BY <1>1, <1>2, <1>3

\* A search for a control takes what ControlOf says, if there was none yet.
LEMMA ControlFound ==
  ASSUME NEW m \in Media, GetSdpAcontrol(m), control[m] = None
  PROVE  control' = [control EXCEPT ![m] = ControlOf(m)]
<1>1. (IF \E l \in First(m, ControlLines) : l.text # "*"
       THEN (CHOOSE l \in First(m, ControlLines) : TRUE).text
       ELSE control[m]) = ControlOf(m)
  BY DEF ControlOf
<1> QED
  BY <1>1, Zenon DEF GetSdpAcontrol

\* The next search of the description keeps the invariant.
LEMMA DescribeStep ==
  DataInv /\ RtspDescribeCommand => DataInv'
<1> SUFFICES ASSUME DataInv, RtspDescribeCommand
             PROVE  DataInv'
  OBVIOUS
<1>1. /\ at = "describe" /\ ParseSdpProto
      /\ at' = (IF Parsed' THEN "video" ELSE at)
      /\ UNCHANGED <<url, replies, address, asked, transport, sessid, timeout>>
  BY DEF RtspDescribeCommand
<1>2. /\ pc \in 1 .. 5 /\ control \in [Media -> Controls \union {None}]
      /\ trans \in [Media -> {"UDP", "TCP"}]
  <2>1. Len(Calls) + 1 = 5
    BY FourCalls
  <2>2. pc \in 1 .. Len(Calls) + 1
    BY DEF DataInv, DataTypeOK, TypeOK
  <2> QED
    BY <2>1, <2>2 DEF DataInv, DataTypeOK, TypeOK
<1>4. "video" \in Media /\ "audio" \in Media /\ "video" # "audio"
  BY DEF Media
<1>3. /\ control["video"] = IF pc > 2 THEN ControlOf("video") ELSE None
      /\ control["audio"] = IF pc > 4 THEN ControlOf("audio") ELSE None
  BY <1>4 DEF DataInv, Searched
<1>5. /\ pc \in 1 .. 4 /\ pc' = pc + 1 /\ sdp' = sdp
      /\ trans' \in [Media -> {"UDP", "TCP"}]
      /\ pc = 2 => control' = [control EXCEPT !["video"] = ControlOf("video")]
      /\ pc = 4 => control' = [control EXCEPT !["audio"] = ControlOf("audio")]
      /\ pc # 2 /\ pc # 4 => control' = control
  <2>1. CASE Call("VideoTransport") /\ GetSdpTransport("video")
    <3>1. pc = 1 /\ pc' = pc + 1
      BY <1>2, <2>1, CallPlace
    <3>2. trans' \in [Media -> {"UDP", "TCP"}] /\ sdp' = sdp /\ control' = control
      BY <1>2, <1>4, <2>1 DEF GetSdpTransport
    <3> QED
      BY <1>2, <3>1, <3>2
  <2>2. CASE Call("VideoAcontrol") /\ GetSdpAcontrol("video")
    <3>1. pc = 2 /\ pc' = pc + 1
      BY <1>2, <2>2, CallPlace
    <3>2. control["video"] = None
      BY <1>3, <1>4, <3>1
    <3>3. control' = [control EXCEPT !["video"] = ControlOf("video")]
      BY <1>4, <2>2, <3>2, ControlFound
    <3>4. sdp' = sdp /\ trans' = trans
      BY <2>2 DEF GetSdpAcontrol
    <3> QED
      BY <1>2, <2>2, <3>1, <3>3, <3>4
  <2>3. CASE Call("AudioTransport") /\ GetSdpTransport("audio")
    <3>1. pc = 3 /\ pc' = pc + 1
      BY <1>2, <2>3, CallPlace
    <3>2. trans' \in [Media -> {"UDP", "TCP"}] /\ sdp' = sdp /\ control' = control
      BY <1>2, <1>4, <2>3 DEF GetSdpTransport
    <3> QED
      BY <1>2, <3>1, <3>2
  <2>4. CASE Call("AudioAcontrol") /\ GetSdpAcontrol("audio")
    <3>1. pc = 4 /\ pc' = pc + 1
      BY <1>2, <2>4, CallPlace
    <3>2. control["audio"] = None
      BY <1>3, <1>4, <3>1
    <3>3. control' = [control EXCEPT !["audio"] = ControlOf("audio")]
      BY <1>4, <2>4, <3>2, ControlFound
    <3>4. sdp' = sdp /\ trans' = trans
      BY <2>4 DEF GetSdpAcontrol
    <3> QED
      BY <1>2, <2>4, <3>1, <3>3, <3>4
  <2> QED
    BY <1>1, <2>1, <2>2, <2>3, <2>4 DEF ParseSdpProto
<1>6. Given' = Given
  BY <1>1, <1>5 DEF Given
<1>7. Meant' /\ \A m : ControlOf(m)' = ControlOf(m)
  BY <1>6, GivenStays DEF DataInv
<1>8. /\ at' = (IF pc = 4 THEN "video" ELSE "describe")
      /\ pc' = 5 <=> pc = 4
  <2>1. Parsed' <=> pc' > 4
    BY FourCalls DEF Parsed, Calls
  <2> QED
    BY <1>1, <1>5, <2>1
<1>9. Stages'
  BY <1>5, <1>8 DEF Stages
<1>10. Searched'
  <2>1. control'["video"] = IF pc' > 2 THEN ControlOf("video") ELSE None
    BY <1>2, <1>3, <1>4, <1>5
  <2>2. control'["audio"] = IF pc' > 4 THEN ControlOf("audio") ELSE None
    BY <1>2, <1>3, <1>4, <1>5
  <2> QED
    BY <1>4, <1>7, <2>1, <2>2 DEF Searched, Media
<1>11. DataTypeOK'
  <2>1. control' \in [Media -> Controls \union {None}]
    BY <1>2, <1>5, ControlTyped
  <2>2. pc' \in 1 .. Len(Calls) + 1
    BY <1>5, FourCalls
  <2>3. TypeOK'
    BY <1>5, <1>7, <2>1, <2>2 DEF TypeOK, Meant
  <2> QED
    BY <1>1, <1>8, <2>3 DEF DataInv, DataTypeOK
<1>12. AddressParsed' /\ TimeoutInTurn' /\ AskedInTurn' /\ PortsInTurn'
  BY <1>1, <1>8 DEF DataInv, AddressParsed, TimeoutInTurn, AskedInTurn, PortsInTurn,
                    PortsAnswered, FirstPorts
<1> QED
  BY <1>7, <1>9, <1>10, <1>11, <1>12 DEF DataInv

\* What is cut from a text is a text.
LEMMA CutTyped ==
  ASSUME NEW text \in Seq(Tokens), NEW words, NEW w
  PROVE  UpTo(text, words) \in Seq(Tokens) /\ After(text, w) \in Seq(Tokens)
<1>1. ASSUME NEW set
      PROVE  Place(text, set) \in 0 .. Len(text)
  <2> DEFINE I == {j \in 1 .. Len(text) : text[j].word \in set}
  <2>1. Place(text, set) = IF I # {} THEN Min(I) ELSE 0
    BY DEF Place, SelectInSeq
  <2>2. I \subseteq 1 .. Len(text) /\ Len(text) \in Nat
    OBVIOUS
  <2> HIDE DEF I
  <2>3. CASE I = {}
    BY <2>1, <2>2, <2>3
  <2>4. CASE I # {}
    <3>1. I \subseteq Nat
      BY <2>2
    <3>2. \E x \in I : \A y \in I : x <= y
      BY <2>4, <3>1, Least
    <3>3. Min(I) \in I
      BY <3>2 DEF Min
    <3>4. Place(text, set) = Min(I)
      BY <2>1, <2>4
    <3>5. Place(text, set) \in 1 .. Len(text)
      BY <2>2, <3>3, <3>4
    <3> QED
      BY <2>2, <3>5
  <2> QED
    BY <2>3, <2>4
<1>2. ASSUME NEW a \in 1 .. Len(text) + 1, NEW b \in 0 .. Len(text)
      PROVE  SubSeq(text, a, b) \in Seq(Tokens)
  OBVIOUS
<1>3. UpTo(text, words) \in Seq(Tokens)
  <2> DEFINE p == Place(text, words)
  <2>1. p \in 0 .. Len(text)
    BY <1>1
  <2>2. UpTo(text, words) = IF p = 0 THEN text ELSE SubSeq(text, 1, p - 1)
    BY DEF UpTo
  <2> HIDE DEF p
  <2>3. p # 0 => p - 1 \in 0 .. Len(text) /\ 1 \in 1 .. Len(text) + 1
    BY <2>1
  <2> QED
    BY <1>2, <2>2, <2>3
<1>4. After(text, w) \in Seq(Tokens)
  <2> DEFINE p == Place(text, {w})
  <2>1. p \in 0 .. Len(text)
    BY <1>1
  <2>2. After(text, w) = SubSeq(text, p + 1, Len(text))
    BY DEF After
  <2> HIDE DEF p
  <2>3. p + 1 \in 1 .. Len(text) + 1 /\ Len(text) \in 0 .. Len(text)
    BY <2>1
  <2> QED
    BY <1>2, <2>2, <2>3
<1> QED
  BY <1>3, <1>4

\* A reply is a text.
LEMMA ReplyTyped ==
  ASSUME NEW r \in Seq(Fields)
  PROVE  Reply(r) \in Seq(Tokens)
<1> DEFINE T == Seq(Tokens)
           seqs == [i \in 1 .. Len(r) |-> FieldText(r[i])]
<1>1. \A i \in 1 .. Len(r) : FieldText(r[i]) \in T
  BY FieldTyped
<1> HIDE DEF T
<1>2. seqs \in Seq(T)
  BY <1>1
<1> HIDE DEF seqs
<1>3. FlattenSeq(seqs) \in Seq(Tokens)
  BY <1>2, FlattenType DEF T
<1> QED
  BY <1>3 DEF Reply, seqs

\* The URL of a SETUP is a text that is not empty.
LEMMA SetupUrlTyped ==
  ASSUME UrlMeant(url), NEW m, control[m] \in Controls
  PROVE  SetupUrl(m) \in Seq(Tokens) /\ SetupUrl(m) # <<>>
<1> DEFINE slash == <<Word("/")>>
           last  == <<Word(control[m])>>
           front == IF control[m] \in Absolute THEN <<>> ELSE Written(url) \o slash
<1>1. slash \in Seq(Tokens) /\ last \in Seq(Tokens) /\ Len(last) = 1
  BY InputsAssumption, OneWord
<1>2. Written(url) \in Seq(Tokens)
  BY UrlIs
<1>3. SetupUrl(m) = front \o last
  BY DEF SetupUrl
<1> HIDE DEF slash, last
<1>4. front \in Seq(Tokens)
  BY <1>1, <1>2
<1> HIDE DEF front
<1>5. front \o last \in Seq(Tokens) /\ Len(front \o last) = Len(front) + Len(last)
  BY <1>1, <1>4, Joined
<1>6. Len(front) \in Nat /\ Len(<<>>) = 0
  BY <1>4
<1> QED
  BY <1>1, <1>3, <1>5, <1>6

\* Both pairs of ports are those of the reply.
LEMMA UdpPortsRead ==
  ASSUME NEW r \in Seq(Fields), ReplyMeant(r), NEW m,
         NEW ports, ports = ParseUdpPort(Reply(r), FirstPorts(m))
  PROVE  /\ ports \in [client : Nat \X Nat, server : Nat \X Nat]
         /\ Pairs(ports.server) = Answered(r, "server_port=", Pairs(<<0, 0>>))
         /\ Pairs(ports.client) =
              Answered(r, "client_port=",
                       IF m = "video" THEN Pairs(<<Interleaved, 0>>) ELSE Pairs(<<0, 0>>))
<1> DEFINE first == IF m = "video" THEN <<Interleaved, 0>> ELSE <<0, 0>>
           text  == Reply(r)
<1>1. first \in Nat \X Nat /\ <<0, 0>> \in Nat \X Nat
  BY InputsAssumption
<1>2. FirstPorts(m) = [client |-> first, server |-> <<0, 0>>]
  BY DEF FirstPorts, NoPorts
<1>3. Pairs(first) = IF m = "video" THEN Pairs(<<Interleaved, 0>>) ELSE Pairs(<<0, 0>>)
  OBVIOUS
<1> HIDE DEF first, text
<1>4. ports = [client |-> PortsOf(text, "client_port=", first),
               server |-> PortsOf(text, "server_port=", <<0, 0>>)]
  <2> DEFINE c == PortsOf(text, "client_port=", first)
             s == PortsOf(text, "server_port=", <<0, 0>>)
  <2>1. GetClientPort(text, FirstPorts(m))
          = [FirstPorts(m) EXCEPT !.client = PortsOf(text, "client_port=", FirstPorts(m).client)]
    BY Zenon DEF GetClientPort
  <2>2. GetClientPort(text, FirstPorts(m)) = [client |-> c, server |-> <<0, 0>>]
    BY <1>2, <2>1
  <2>3. ports = [[client |-> c, server |-> <<0, 0>>] EXCEPT
                   !.server = PortsOf(text, "server_port=", [client |-> c, server |-> <<0, 0>>].server)]
    BY <2>2, Zenon DEF ParseUdpPort, GetServerPort, text
  <2>4. [client |-> c, server |-> <<0, 0>>].server = <<0, 0>>
    OBVIOUS
  <2>5. ports = [[client |-> c, server |-> <<0, 0>>] EXCEPT !.server = s]
    BY <2>3, <2>4, Zenon
  <2> HIDE DEF c, s
  <2>6. ports = [client |-> c, server |-> s]
    BY <2>5
  <2> QED
    BY <2>6 DEF c, s
<1>5. /\ PortsOf(text, "client_port=", first) \in Nat \X Nat
      /\ Pairs(PortsOf(text, "client_port=", first)) = Answered(r, "client_port=", Pairs(first))
  BY <1>1, PortsRead DEF text
<1>6. /\ PortsOf(text, "server_port=", <<0, 0>>) \in Nat \X Nat
      /\ Pairs(PortsOf(text, "server_port=", <<0, 0>>))
           = Answered(r, "server_port=", Pairs(<<0, 0>>))
  BY <1>1, PortsRead DEF text
<1> QED
  BY <1>3, <1>4, <1>5, <1>6

\* What SETUP of one stream writes, when it has a control and when it has none.
LEMMA SetupWrites ==
  ASSUME DataInv, NEW m \in Media, NEW next, SetupStream(m, next), asked[m] = <<>>
  PROVE  /\ asked' = [asked EXCEPT ![m] = SetupOf(m)]
         /\ SetupOf(m) \in Seq(Tokens)
         /\ IF SetupOf(m) = <<>> THEN transport' = transport
            ELSE /\ transport'[m] \in [client : Nat \X Nat, server : Nat \X Nat]
                 /\ \A n \in Media : n # m => transport'[n] = transport[n]
                 /\ transport' \in [Media -> [client : Nat \X Nat, server : Nat \X Nat]]
                 /\ PortsAnswered(m)'
         /\ sessid' \in Seq(Tokens)
<1>1. /\ asked \in [Media -> Seq(Tokens)] /\ sessid \in Seq(Tokens)
      /\ transport \in [Media -> [client : Nat \X Nat, server : Nat \X Nat]]
      /\ control[m] \in Controls \union {None}
  BY DEF DataInv, DataTypeOK, TypeOK
<1>2. CASE control[m] = None
  <2>1. /\ asked' = asked /\ transport' = transport /\ sessid' = sessid
        /\ SetupOf(m) = <<>>
    BY <1>2 DEF SetupStream, SetupOf
  <2>2. asked = [asked EXCEPT ![m] = <<>>] /\ <<>> \in Seq(Tokens)
    BY <1>1
  <2> QED
    BY <1>1, <2>1, <2>2
<1>3. CASE control[m] # None
  <2> DEFINE r == replies[m]
             ports == ParseUdpPort(Reply(r), transport[m])
  <2>1. /\ asked' = [asked EXCEPT ![m] = SetupUrl(m)]
        /\ transport' = [transport EXCEPT ![m] = ports]
        /\ sessid' = IF m = "audio" /\ sessid # <<>> THEN sessid ELSE ParseSessionID(Reply(r))
        /\ replies' = replies
    BY <1>3, Zenon DEF SetupStream
  <2>2. r \in Seq(Fields) /\ ReplyMeant(r) /\ UrlMeant(url)
    BY DEF DataInv, Meant, Exchanges
  <2>3. SetupOf(m) = SetupUrl(m) /\ SetupUrl(m) \in Seq(Tokens) /\ SetupUrl(m) # <<>>
    BY <1>1, <1>3, <2>2, SetupUrlTyped DEF SetupOf
  <2>4. transport[m] = FirstPorts(m)
    BY DEF DataInv, PortsInTurn
  <2> HIDE DEF r, ports
  <2>5. /\ ports \in [client : Nat \X Nat, server : Nat \X Nat]
        /\ Pairs(ports.server) = Answered(r, "server_port=", Pairs(<<0, 0>>))
        /\ Pairs(ports.client) =
              Answered(r, "client_port=",
                       IF m = "video" THEN Pairs(<<Interleaved, 0>>) ELSE Pairs(<<0, 0>>))
    <3>1. ports = ParseUdpPort(Reply(r), FirstPorts(m))
      BY <2>4 DEF ports
    <3> QED
      BY <2>2, <3>1, UdpPortsRead
  <2>6. /\ transport'[m] = ports /\ \A n \in Media : n # m => transport'[n] = transport[n]
        /\ transport' \in [Media -> [client : Nat \X Nat, server : Nat \X Nat]]
    BY <1>1, <2>1, <2>5
  <2>7. PortsAnswered(m)'
    <3>1. replies'[m] = r
      BY <2>1 DEF r
    <3> QED
      BY <2>5, <2>6, <3>1, Zenon DEF PortsAnswered
  <2>8. sessid' \in Seq(Tokens)
    <3>1. ParseSessionID(Reply(r)) \in Seq(Tokens)
      BY <1>1, <2>2, ReplyTyped, CutTyped DEF ParseSessionID
    <3> QED
      BY <1>1, <2>1, <3>1
  <2> QED
    BY <2>1, <2>3, <2>5, <2>6, <2>7, <2>8
<1> QED
  BY <1>2, <1>3

\* SETUP keeps the invariant.
LEMMA SetupStep ==
  DataInv /\ RtspSetupCommand => DataInv'
<1> SUFFICES ASSUME DataInv,
                    NEW m, NEW next, NEW other,
                    \/ m = "video" /\ next = "audio" /\ other = "audio"
                    \/ m = "audio" /\ next = "play" /\ other = "video",
                    SetupStream(m, next)
             PROVE  DataInv'
  BY DEF RtspSetupCommand
<1>1. /\ at = m /\ at' = next /\ UNCHANGED <<sdp, pc, trans, control>>
      /\ UNCHANGED <<url, replies, address, timeout>>
  BY DEF SetupStream, vars
<1>2. m \in Media /\ other \in Media /\ other # m /\ \A n \in Media : n = m \/ n = other
  BY DEF Media
<1>3. asked[m] = <<>> /\ asked \in [Media -> Seq(Tokens)]
  BY <1>1 DEF DataInv, AskedInTurn, DataTypeOK
<1>4. /\ asked' = [asked EXCEPT ![m] = SetupOf(m)] /\ SetupOf(m) \in Seq(Tokens)
      /\ sessid' \in Seq(Tokens)
      /\ SetupOf(m) = <<>> => transport' = transport
      /\ SetupOf(m) # <<>> =>
           /\ \A n \in Media : n # m => transport'[n] = transport[n]
           /\ transport' \in [Media -> [client : Nat \X Nat, server : Nat \X Nat]]
           /\ PortsAnswered(m)'
  BY <1>2, <1>3, SetupWrites
<1>5. asked'[m] = SetupOf(m) /\ asked'[other] = asked[other]
  BY <1>2, <1>3, <1>4
<1>6. \A n : SetupOf(n)' = SetupOf(n)
  BY <1>1 DEF SetupOf, SetupUrl
<1>7. Given' = Given
  BY <1>1 DEF Given
<1>8. Meant' /\ \A n : ControlOf(n)' = ControlOf(n)
  BY <1>7, GivenStays DEF DataInv
<1>9. Stages' /\ AddressParsed' /\ TimeoutInTurn'
  BY <1>1 DEF DataInv, Stages, AddressParsed, TimeoutInTurn
<1>10. Searched'
  BY <1>1, <1>8 DEF DataInv, Searched
<1>11. AskedInTurn'
  BY <1>1, <1>5, <1>6 DEF DataInv, AskedInTurn
<1>12. PortsInTurn'
  <2>1. ASSUME NEW n \in Media, asked'[n] = asked[n], transport'[n] = transport[n]
        PROVE  IF asked'[n] = <<>> THEN transport'[n] = FirstPorts(n) ELSE PortsAnswered(n)'
    <3>1. replies'[n] = replies[n]
      BY <1>1
    <3>2. IF asked[n] = <<>> THEN transport[n] = FirstPorts(n) ELSE PortsAnswered(n)
      BY DEF DataInv, PortsInTurn
    <3> QED
      BY <2>1, <3>1, <3>2 DEF PortsAnswered
  <2>2. CASE SetupOf(m) = <<>>
    BY <1>2, <1>3, <1>4, <1>5, <2>1, <2>2 DEF PortsInTurn, FirstPorts
  <2>3. CASE SetupOf(m) # <<>>
    <3>1. IF asked'[other] = <<>> THEN transport'[other] = FirstPorts(other)
          ELSE PortsAnswered(other)'
      BY <1>2, <1>4, <1>5, <2>1, <2>3
    <3>2. asked'[m] # <<>> /\ PortsAnswered(m)'
      BY <1>4, <1>5, <2>3
    <3> QED
      BY <1>2, <3>1, <3>2 DEF PortsInTurn, FirstPorts
  <2> QED
    BY <2>2, <2>3
<1>13. DataTypeOK'
  <2>1. TypeOK'
    BY <1>1 DEF DataInv, DataTypeOK, TypeOK
  <2>2. asked' \in [Media -> Seq(Tokens)]
    BY <1>2, <1>3, <1>4
  <2>3. transport' \in [Media -> [client : Nat \X Nat, server : Nat \X Nat]]
    BY <1>4 DEF DataInv, DataTypeOK
  <2> QED
    BY <1>1, <1>4, <2>1, <2>2, <2>3 DEF DataInv, DataTypeOK
<1> QED
  BY <1>8, <1>9, <1>10, <1>11, <1>12, <1>13 DEF DataInv

\* PLAY keeps it: the timeout is what its reply says.
LEMMA PlayStep ==
  DataInv /\ RtspPlayCommand => DataInv'
<1> SUFFICES ASSUME DataInv, RtspPlayCommand
             PROVE  DataInv'
  OBVIOUS
<1>1. /\ at = "play" /\ at' = "up" /\ UNCHANGED <<sdp, pc, trans, control>>
      /\ UNCHANGED <<url, replies, address, asked, transport, sessid>>
      /\ timeout' = ParseTimeout(Reply(replies["play"]))
  BY DEF RtspPlayCommand, vars
<1>2. Given' = Given
  BY <1>1 DEF Given
<1>3. Meant' /\ \A n : ControlOf(n)' = ControlOf(n)
  BY <1>2, GivenStays DEF DataInv
<1>4. timeout = 0
  BY <1>1 DEF DataInv, TimeoutInTurn
<1> DEFINE r == replies["play"]
           answer == Answered(r, "timeout=", <<>>)
<1>5. r \in Seq(Fields) /\ ReplyMeant(r)
  BY DEF DataInv, Meant, Exchanges
<1> HIDE DEF r
<1>6. timeout' = atol(answer)
  <2>1. (IF Has(Reply(r), "timeout=") THEN atol(UpTo(After(Reply(r), "timeout="), {";", "\r"}))
         ELSE 0) = atol(answer)
    BY <1>5, TimeoutRead
  <2>2. timeout' = (IF Has(Reply(r), "timeout=")
                    THEN atol(UpTo(After(Reply(r), "timeout="), {";", "\r"})) ELSE 0)
    BY <1>1, <1>4, Zenon DEF ParseTimeout, r
  <2> QED
    BY <2>1, <2>2, Zenon
<1>7. atol(answer) \in Nat
  <2>1. answer \in Seq(Tokens)
    <3>1. \A i \in 1 .. Len(r) : r[i].value \in Seq(Tokens)
      BY <1>5, FieldTyped
    <3>2. <<>> \in Seq(Tokens)
      OBVIOUS
    <3>3. CASE \E i \in 1 .. Len(r) : r[i].name = "timeout="
      <4>1. PICK i \in 1 .. Len(r) : r[i].name = "timeout="
        BY <3>3
      <4>2. answer = r[i].value
        BY <1>5, <4>1, AnsweredIs
      <4> QED
        BY <3>1, <4>2
    <3>4. CASE \A i \in 1 .. Len(r) : r[i].name # "timeout="
      <4>1. answer = <<>>
        BY <1>5, <3>4, AnsweredIs
      <4> QED
        BY <3>2, <4>1
    <3> QED
      BY <3>3, <3>4
  <2> HIDE DEF answer
  <2>2. answer = <<>> \/ answer[1] \in Tokens
    BY <2>1
  <2> QED
    BY <2>2 DEF atol, Tokens
<1>8. TimeoutInTurn'
  <2>1. replies'["play"] = r
    BY <1>1 DEF r
  <2> QED
    BY <1>1, <1>6, <2>1 DEF TimeoutInTurn
<1>9. Stages' /\ AddressParsed'
  BY <1>1 DEF DataInv, Stages, AddressParsed
<1>10. Searched'
  BY <1>1, <1>3 DEF DataInv, Searched
<1>11. AskedInTurn' /\ PortsInTurn'
  BY <1>1 DEF DataInv, AskedInTurn, SetupOf, SetupUrl, PortsInTurn, PortsAnswered, FirstPorts
<1>12. DataTypeOK'
  BY <1>1, <1>6, <1>7 DEF DataInv, DataTypeOK, TypeOK
<1> QED
  BY <1>3, <1>8, <1>9, <1>10, <1>11, <1>12 DEF DataInv

\* The invariant holds in every reachable state.
LEMMA DataInvariant ==
  DataSpec => []DataInv
<1>1. DataInv /\ [DataNext]_dataVars => DataInv'
  <2>1. DataInv /\ UNCHANGED dataVars => DataInv'
    <3> SUFFICES ASSUME DataInv, UNCHANGED dataVars
                 PROVE  DataInv'
      OBVIOUS
    <3>1. /\ UNCHANGED <<sdp, pc, trans, control>>
          /\ UNCHANGED <<url, replies, at, address, asked, transport, sessid, timeout>>
      BY DEF dataVars, vars
    <3>2. Given' = Given
      BY <3>1 DEF Given
    <3>3. Meant' /\ Searched'
      BY <3>1, <3>2, GivenStays DEF DataInv, Searched
    <3>4. DataTypeOK' /\ Stages' /\ AddressParsed' /\ TimeoutInTurn'
      BY <3>1 DEF DataInv, DataTypeOK, TypeOK, Stages, AddressParsed, TimeoutInTurn
    <3>5. AskedInTurn' /\ PortsInTurn'
      BY <3>1 DEF DataInv, AskedInTurn, SetupOf, SetupUrl, PortsInTurn, PortsAnswered, FirstPorts
    <3> QED
      BY <3>3, <3>4, <3>5 DEF DataInv
  <2> QED
    BY <2>1, UrlStep, DescribeStep, SetupStep, PlayStep DEF DataNext
<1> QED
  BY <1>1, DataStart, PTL DEF DataSpec

-----------------------------------------------------------------------------
(* Theorems                                                                *)

\* What a session learned is of its type, whatever texts it was given: the
\* parsers of ParseRtspUrl, ParseSdpProto, ParseUdpPort, ParseSessionID and
\* ParseTimeout cut texts and numbers out of texts.
THEOREM DataTyped ==
  DataSpec => []DataTypeOK
<1>1. DataInv => DataTypeOK
  BY DEF DataInv
<1> QED
  BY <1>1, DataInvariant, PTL

\* A stream whose section names one track has that control, however long the
\* description and in whatever order its sections come: the first match behind
\* the media line lies in that section (GetSdpVideoAcontrol,
\* GetSdpAudioAcontrol).
THEOREM ControlsAreOwn ==
  DataSpec => []OwnControlUsed
<1>1. DataInv => OwnControlUsed
  <2> SUFFICES ASSUME DataInv, Parsed, NEW m \in Media, NEW c \in Controls,
                      OwnControls(m) = {c}
               PROVE  control[m] = c
    BY DEF OwnControlUsed
  <2>1. sdp \in Seq(Lines) /\ OneSectionEach(sdp)
    BY DEF DataInv, Meant
  <2>2. c # "*"
    BY LineAssumption
  <2>3. ControlOf(m) = c
    BY <2>1, <2>2, ControlIsOwn
  <2>4. pc > 4 /\ pc > 2
    <3>1. pc > 4 /\ pc \in 1 .. Len(Calls) + 1
      BY FourCalls DEF Parsed, DataInv, DataTypeOK, TypeOK
    <3>2. pc \in Int
      BY <3>1, FourCalls
    <3> QED
      BY <3>1, <3>2
  <2>5. control[m] = ControlOf(m)
    BY <2>4 DEF DataInv, Searched
  <2> QED
    BY <2>3, <2>5
<1> QED
  BY <1>1, DataInvariant, PTL

\* The URL of a SETUP is that of the one track its section names.
LEMMA SetupsDescribed ==
  DataInv => SetupAsDescribed
<1> SUFFICES ASSUME DataInv, at = "up", NEW m \in Media, NEW c \in Controls,
                    OwnControls(m) = {c}
             PROVE  asked[m] = IF c \in Absolute THEN <<Word(c)>>
                               ELSE Written(url) \o <<Word("/"), Word(c)>>
  BY DEF SetupAsDescribed
<1>1. sdp \in Seq(Lines) /\ OneSectionEach(sdp) /\ UrlMeant(url)
  BY DEF DataInv, Meant
<1>2. c # None /\ ControlOf(m) = c
  <2>1. c # "*"
    BY LineAssumption
  <2> QED
    BY <1>1, <2>1, ControlIsOwn
<1>3. control[m] = ControlOf(m)
  <2>1. pc = 5
    BY DEF DataInv, Stages
  <2> QED
    BY <2>1 DEF DataInv, Searched
<1>4. asked[m] = SetupOf(m)
  BY DEF DataInv, AskedInTurn, Media
<1>5. control[m] = c /\ asked[m] = SetupUrl(m)
  BY <1>2, <1>3, <1>4 DEF SetupOf
<1> DEFINE last == <<Word(c)>>
           slash == <<Word("/")>>
           text == Written(url)
<1>6. /\ last \in Seq(Tokens) /\ slash \in Seq(Tokens) /\ text \in Seq(Tokens)
      /\ <<Word("/"), Word(c)>> = slash \o last
  BY <1>1, InputsAssumption, OneWord, UrlIs
<1>7. SetupUrl(m) = (IF c \in Absolute THEN <<>> ELSE text \o slash) \o last
  BY <1>5, Zenon DEF SetupUrl
<1> HIDE DEF last, slash, text
<1>8. <<>> \o last = last /\ (text \o slash) \o last = text \o (slash \o last)
  BY <1>6
<1>9. c \in Absolute => asked[m] = last
  BY <1>5, <1>7, <1>8, Zenon
<1>10. c \notin Absolute => asked[m] = text \o (slash \o last)
  BY <1>5, <1>7, <1>8, Zenon
<1>11. c \notin Absolute => asked[m] = text \o <<Word("/"), Word(c)>>
  BY <1>6, <1>10, Zenon
<1> QED
  BY <1>9, <1>11, Zenon DEF last, text

\* Each stream has the ports its reply names.
LEMMA PortsNamed ==
  DataInv => PortsAsAnswered
<1> SUFFICES ASSUME DataInv, at = "up", NEW m \in Media, asked[m] # <<>>,
                    NEW i \in 1 .. Len(replies[m])
             PROVE  /\ replies[m][i].name = "server_port="
                         => Pairs(transport[m].server) = replies[m][i].value
                    /\ replies[m][i].name = "client_port="
                         => Pairs(transport[m].client) = replies[m][i].value
  BY DEF PortsAsAnswered
<1>1. replies[m] \in Seq(Fields) /\ ReplyMeant(replies[m])
  BY DEF DataInv, Meant, Exchanges
<1>2. PortsAnswered(m)
  BY DEF DataInv, PortsInTurn
<1>3. \A name, old : replies[m][i].name = name
        => Answered(replies[m], name, old) = replies[m][i].value
  BY <1>1, AnsweredIs
<1> QED
  BY <1>2, <1>3 DEF PortsAnswered

\* The timeout is the one of the PLAY reply.
LEMMA TimeoutNamed ==
  DataInv => TimeoutOfPlay
<1> SUFFICES ASSUME DataInv, at = "up", NEW i \in 1 .. Len(replies["play"]),
                    replies["play"][i].name = "timeout="
             PROVE  timeout = atol(replies["play"][i].value)
  BY DEF TimeoutOfPlay
<1>1. replies["play"] \in Seq(Fields) /\ ReplyMeant(replies["play"])
  BY DEF DataInv, Meant, Exchanges
<1>2. timeout = atol(Answered(replies["play"], "timeout=", <<>>))
  BY DEF DataInv, TimeoutInTurn
<1>3. Answered(replies["play"], "timeout=", <<>>) = replies["play"][i].value
  BY <1>1, AnsweredIs
<1> QED
  BY <1>2, <1>3

\* A session works with what the user and the server wrote: for every URL,
\* description and reply that InputsAssumption allows, of any length and with
\* the fields in any order (ParseRtspUrl, ParseUdpPort, ParseTimeout,
\* RtspSendSetupCommand).  Ports and timeouts they left out are not covered.
THEOREM WorksAsWritten ==
  DataSpec => []AsWritten
<1>1. DataInv => AddressAsWritten
  BY DEF DataInv, AddressParsed, AddressAsWritten
<1>2. DataInv => AsWritten
  BY <1>1, PortsNamed, SetupsDescribed, TimeoutNamed DEF AsWritten
<1> QED
  BY <1>2, DataInvariant, PTL
=============================================================================
