---------------------------- MODULE SessionData -----------------------------
(***************************************************************************)
(* What a session learns from texts, and what it does with it: the URL     *)
(* given to startRtspClient (ParseRtspUrl), the description (SdpParse),    *)
(* and the replies to SETUP and PLAY (ParseUdpPort, ParseSessionID,        *)
(* ParseTimeout).  All of them search for a word and read up to the next   *)
(* delimiter.  The URL and the controls make the URLs of the SETUPs.       *)
(*                                                                         *)
(* A text is a sequence of tokens: words, numbers and delimiters.  The     *)
(* exchanges succeed; RtspSession has the ones that do not.                *)
(***************************************************************************)
EXTENDS SdpParse

CONSTANTS
  Words,        \* what texts are made of, besides numbers
  Inputs,       \* the URL, the description and the replies of each session
  Absolute,     \* the controls that hold "rtsp://"
  Interleaved   \* cport_from of a transport that no reply set: 256

VARIABLES
  url,          \* the parts of the URL the user typed
  replies,      \* what the server answers to the SETUPs and to PLAY
  at,           \* the next exchange
  address,      \* sess->username, password, ip and port
  asked,        \* the URL of the SETUP of each stream, if there was one
  transport,    \* sess->transport for video, transport2 for audio
  sessid,       \* sess->sessid
  timeout       \* sess->timeout

dataVars == <<vars, url, replies, at, address, asked, transport, sessid, timeout>>

-----------------------------------------------------------------------------
(* Texts                                                                   *)

Tokens    == [word : Words, num : Nat]
Word(w)   == [word |-> w, num |-> 0]
Number(n) == [word |-> "digits", num |-> n]

\* The place of the first of these words, 0 if there is none.
Place(text, words) == SelectInSeq(text, LAMBDA t : t.word \in words)

Has(text, word) == Place(text, {word}) > 0

UpTo(text, words) ==
  IF Place(text, words) = 0 THEN text ELSE SubSeq(text, 1, Place(text, words) - 1)

After(text, word) == SubSeq(text, Place(text, {word}) + 1, Len(text))

\* The number a text starts with, 0 if it does not.
atol(text) == IF text = <<>> THEN 0 ELSE text[1].num

-----------------------------------------------------------------------------
(* What users and servers write                                            *)

\* rtsp://[<username>[:<password>]@]<address>[:<port>][/<stream>]; an absent
\* part is empty, and a stream has its slash.
PasswordPart(u) == IF u.password = <<>> THEN <<>> ELSE <<Word(":")>> \o u.password
LoginPart(u)    == IF u.username = <<>> THEN <<>>
                   ELSE (u.username \o PasswordPart(u)) \o <<Word("@")>>
PortPart(u)     == IF u.port = <<>> THEN <<>> ELSE <<Word(":")>> \o u.port
AddressPart(u)  == u.ip \o (PortPart(u) \o u.stream)

Written(u) == <<Word(u.protocol)>> \o (LoginPart(u) \o AddressPart(u))

\* A reply is a sequence of fields in any order, each with its name, its value
\* and the delimiter that ends it.
FieldText(f) == <<Word(f.name)>> \o (f.value \o <<Word(f.end)>>)
Reply(r)     == FlattenSeq([i \in 1 .. Len(r) |-> FieldText(r[i])])

\* What a field of ports holds.
Pairs(ports) == <<Number(ports[1]), Word("-"), Number(ports[2])>>

Lacks(text, words) == \A i \in 1 .. Len(text) : text[i].word \notin words

\* No part of a URL holds the delimiter that ends it.  A user without a name
\* has no password.
UrlMeant(u) ==
  /\ u \in [protocol : Words, username : Seq(Tokens), password : Seq(Tokens),
            ip : Seq(Tokens), port : Seq(Tokens), stream : Seq(Tokens)]
  /\ Lacks(u.username, {":", "@", "/"}) /\ Lacks(u.password, {"@", "/"})
  /\ Lacks(u.ip, {":", "@", "/"}) /\ Lacks(u.port, {"@", "/"})
  /\ u.username = <<>> => u.password = <<>>
  /\ u.stream = <<>> \/ u.stream[1] = Word("/")

Delimiters == {";", "\r"}
Names      == {"client_port=", "server_port=", "Session: ", "timeout="}
Exchanges  == Media \union {"play"}
Fields == [name : Words \ Delimiters, value : Seq(Tokens), end : Delimiters]

\* A reply has a field at most once, and no value holds a delimiter or the name
\* of a field.  Ports come in pairs.
ReplyMeant(r) ==
  /\ \A i, j \in 1 .. Len(r) : r[i].name = r[j].name => i = j
  /\ \A i \in 1 .. Len(r) :
       /\ Lacks(r[i].value, Delimiters \union Names)
       /\ r[i].name \in {"client_port=", "server_port="}
            => LET v == r[i].value IN Len(v) = 3 /\ v = Pairs(<<v[1].num, v[3].num>>)

ASSUME InputsAssumption ==
  /\ {":", "@", "/", "-", "digits"} \union Delimiters \union Controls \subseteq Words
  /\ Absolute \subseteq Controls /\ Interleaved \in Nat
  /\ \A i \in Inputs :
       /\ i.sdp \in Seq(Lines) /\ OneSectionEach(i.sdp)
       /\ UrlMeant(i.url)
       /\ i.replies \in [Exchanges -> Seq(Fields)]
       /\ \A e \in Exchanges : ReplyMeant(i.replies[e])

-----------------------------------------------------------------------------
(* The session                                                             *)

NoPorts == [client |-> <<0, 0>>, server |-> <<0, 0>>]

\* The channels 0 and 1 of the interleaved transport are bytes 0 and 1 of
\* cport_from, because transport is a union; transport2 is all zero.
InitRtspClientSession ==
  /\ Init
  /\ at = "url"
  /\ address = [username |-> <<>>, password |-> <<>>, ip |-> <<>>, port |-> 0]
  /\ asked = [m \in Media |-> <<>>]
  /\ transport = [m \in Media |->
       IF m = "video" THEN [NoPorts EXCEPT !.client = <<Interleaved, 0>>] ELSE NoPorts]
  /\ sessid = <<>>
  /\ timeout = 0

DataInit ==
  /\ \E i \in Inputs : sdp = i.sdp /\ url = i.url /\ replies = i.replies
  /\ InitRtspClientSession

\* The search for "@" that goes on behind the first "/".
AuthorityAll(text) == text

\* The loop for user name and password ends at the first "/".
Authority(text) == UpTo(text, {"/"})

\* The address ends at ":", "/" or the end, the port at "/".  Without a port
\* sess->port stays 0.
ParseRtspUrl(text) ==
  LET login == UpTo(Authority(text), {"@"})
      named == Has(Authority(text), "@")
      rest  == IF named THEN After(text, "@") ELSE text
      ip    == UpTo(rest, {":", "/"})
      next  == SubSeq(rest, Len(ip) + 1, Len(rest))
  IN  [username |-> IF named THEN UpTo(login, {":"}) ELSE <<>>,
       password |-> IF named /\ Has(login, ":") THEN After(login, ":") ELSE <<>>,
       ip       |-> ip,
       port     |-> IF next # <<>> /\ next[1] = Word(":")
                    THEN atol(UpTo(Tail(next), {"/"})) ELSE 0]

\* startRtspClient starts no thread for an address of another protocol.
ParseUrl ==
  /\ at = "url"
  /\ IF Head(Written(url)) = Word("rtsp://")
     THEN /\ address' = ParseRtspUrl(Tail(Written(url)))
          /\ at' = "describe"
     ELSE at' = "refused" /\ UNCHANGED address
  /\ UNCHANGED <<vars, url, replies, asked, transport, sessid, timeout>>

RtspDescribeCommand ==
  /\ at = "describe"
  /\ ParseSdpProto
  /\ at' = IF Parsed' THEN "video" ELSE at
  /\ UNCHANGED <<url, replies, address, asked, transport, sessid, timeout>>

\* The control as it is, or behind the URL of the session.
SetupUrl(m) ==
  (IF control[m] \in Absolute THEN <<>> ELSE Written(url) \o <<Word("/")>>)
    \o <<Word(control[m])>>

\* A pair of ports: up to "-", and up to the end of the field.
PortsOf(text, name, old) ==
  LET pair == After(text, name)
  IN  IF Has(text, name)
      THEN <<atol(UpTo(pair, {"-"})), atol(UpTo(After(pair, "-"), {";", "\r"}))>>
      ELSE old

GetClientPort(text, udp) == [udp EXCEPT !.client = PortsOf(text, "client_port=", @)]
GetServerPort(text, udp) == [udp EXCEPT !.server = PortsOf(text, "server_port=", @)]
ParseUdpPort(text, udp)  == GetServerPort(text, GetClientPort(text, udp))

ParseSessionID(text) ==
  IF Has(text, "Session: ") THEN UpTo(After(text, "Session: "), {";", "\r"}) ELSE sessid

\* SETUP of one stream, if it has a control.  The session id of the audio reply
\* counts only when the video reply brought none.
SetupStream(m, next) ==
  /\ at = m
  /\ at' = next
  /\ IF control[m] = None
     THEN UNCHANGED <<asked, transport, sessid>>
     ELSE LET text == Reply(replies[m])
          IN  /\ asked' = [asked EXCEPT ![m] = SetupUrl(m)]
              /\ transport' = [transport EXCEPT ![m] = ParseUdpPort(text, @)]
              /\ sessid' = IF m = "audio" /\ sessid # <<>> THEN sessid ELSE ParseSessionID(text)
  /\ UNCHANGED <<vars, url, replies, address, timeout>>

RtspSetupCommand == SetupStream("video", "audio") \/ SetupStream("audio", "play")

ParseTimeout(text) ==
  IF Has(text, "timeout=") THEN atol(UpTo(After(text, "timeout="), {";", "\r"})) ELSE timeout

RtspPlayCommand ==
  /\ at = "play"
  /\ at' = "up"
  /\ timeout' = ParseTimeout(Reply(replies["play"]))
  /\ UNCHANGED <<vars, url, replies, address, asked, transport, sessid>>

DataNext == ParseUrl \/ RtspDescribeCommand \/ RtspSetupCommand \/ RtspPlayCommand

DataSpec == DataInit /\ [][DataNext]_dataVars

-----------------------------------------------------------------------------
(* Properties                                                              *)

DataTypeOK ==
  /\ TypeOK
  /\ at \in {"url", "describe", "video", "audio", "play", "up", "refused"}
  /\ address \in [username : Seq(Tokens), password : Seq(Tokens), ip : Seq(Tokens), port : Nat]
  /\ asked \in [Media -> Seq(Tokens)]
  /\ transport \in [Media -> [client : Nat \X Nat, server : Nat \X Nat]]
  /\ sessid \in Seq(Tokens)
  /\ timeout \in Nat

\* The URL is taken apart as it was put together.  Without a port in it
\* sess->port is 0, and nothing is promised of that.
AddressAsWritten ==
  at \notin {"url", "refused"} =>
    /\ address.username = url.username
    /\ address.password = url.password
    /\ address.ip = url.ip
    /\ url.port # <<>> => address.port = atol(url.port)

\* Each stream has the ports that its own reply names.
PortsAsAnswered ==
  at = "up" => \A m \in Media : asked[m] # <<>> =>
    \A i \in 1 .. Len(replies[m]) :
      LET field == replies[m][i]
      IN  /\ field.name = "server_port=" => Pairs(transport[m].server) = field.value
          /\ field.name = "client_port=" => Pairs(transport[m].client) = field.value

\* The URL of a SETUP is that of the one track its section names.
SetupAsDescribed ==
  at = "up" => \A m \in Media : \A c \in Controls :
    OwnControls(m) = {c} =>
      asked[m] = IF c \in Absolute THEN <<Word(c)>>
                 ELSE Written(url) \o <<Word("/"), Word(c)>>

\* A timeout in the PLAY reply is the one that counts, although servers name
\* one in their SETUP replies as well.
TimeoutOfPlay ==
  at = "up" => \A i \in 1 .. Len(replies["play"]) :
    LET field == replies["play"][i]
    IN  field.name = "timeout=" => timeout = atol(field.value)

\* A session works with what the user and the server wrote, in whatever order
\* the server writes its fields, with or without the login, and although "@" and
\* ":" may occur in the stream name, and ":" in the password (ParseRtspUrl,
\* ParseUdpPort, ParseTimeout, RtspSendSetupCommand).  It says nothing of what
\* they did not write: a missing port stays 0, missing client ports 256 and 0.
AsWritten == AddressAsWritten /\ PortsAsAnswered /\ SetupAsDescribed /\ TimeoutOfPlay
=============================================================================
