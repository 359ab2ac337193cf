---------------------------- MODULE MCSessionData ----------------------------
(* Sessions for TLC: the URL, the description and the replies each take all *)
(* their values while the other two are ordinary.                           *)
EXTENDS SessionData

WordsForCheck == STRING

\* URLs with and without each part, with delimiters in password and stream.
Urls ==
  {u \in [protocol : {"rtsp://", "http://"},
          username : {<<>>, <<Word("user")>>},
          password : {<<>>, <<Word("secret")>>, <<Word("se"), Word(":"), Word("cret")>>},
          ip       : {<<Word("10.0.0.1")>>},
          port     : {<<>>, <<Number(8554)>>},
          stream   : {<<>>, <<Word("/")>>, <<Word("/"), Word("live")>>,
                      <<Word("/"), Word("cam"), Word("@"), Word("home")>>,
                      <<Word("/"), Word("live"), Word(":"), Number(2), Word("/"), Word("sub")>>}] :
     u.username = <<>> => u.password = <<>>}

UrlForCheck == CHOOSE u \in Urls : u.protocol = "rtsp://" /\ u.username # <<>> /\ Len(u.stream) > 2

SdpForCheck ==
  <<MediaLine("video", "RTP/AVP"), ControlLine("track1"),
    MediaLine("audio", "RTP/AVP"), ControlLine("rtsp://h/track2")>>

\* Every field at most once, in every order.
Answers(fields) ==
  {r \in BoundedSeq([name : DOMAIN fields, end : {";", "\r"}], Cardinality(DOMAIN fields)) :
     \A i, j \in 1 .. Len(r) : r[i].name = r[j].name => i = j}

Filled(r, fields) == [i \in 1 .. Len(r) |->
  [name |-> r[i].name, end |-> r[i].end, value |-> fields[r[i].name]]]

Values(server, id) ==
  [name \in Names |->
     CASE name = "client_port=" -> Pairs(<<31690, 31691>>)
       [] name = "server_port=" -> Pairs(<<server, server + 1>>)
       [] name = "Session: "    -> <<Word(id)>>
       [] name = "timeout="     -> <<Number(60)>>]

\* The video reply varies, the audio reply has the same fields the other way
\* round, and the PLAY reply the fields of the video reply.
RepliesForCheck ==
  {[video |-> Filled(r, Values(6970, "1")),
    audio |-> Filled(Reverse(r), Values(6972, "2")),
    play  |-> Filled(r, Values(6970, "1"))] :
     r \in Answers(Values(0, ""))}

ReplyForCheck == CHOOSE r \in RepliesForCheck : Len(r.video) = 4

InputsForCheck ==
  [url : Urls, sdp : {SdpForCheck}, replies : {ReplyForCheck}]
    \cup [url : {UrlForCheck}, sdp : Sdps, replies : {ReplyForCheck}]
    \cup [url : {UrlForCheck}, sdp : {SdpForCheck}, replies : RepliesForCheck]
=============================================================================
