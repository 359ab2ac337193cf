------------------------------ MODULE SdpParse -------------------------------
(***************************************************************************)
(* What the client takes from the SDP of a DESCRIBE reply (ParseSdpProto   *)
(* of rtsp_common.c): the transport and the control attribute of the video *)
(* and of the audio section.  The parser searches for texts and knows no   *)
(* sections: it takes the first match behind "m=video" or "m=audio".       *)
(*                                                                         *)
(* The description is a sequence of lines; only those the searches tell    *)
(* apart are distinguished.  Each media line names a transport, so that a  *)
(* search for RTP/AVP behind one succeeds.                                 *)
(***************************************************************************)
EXTENDS Integers, FiniteSets, SequencesExt

CONSTANTS
  Controls,   \* values of a=control other than "*"
  MaxLines    \* bound: lines of the description

\* The control of a stream that has none, and what no line names.
None == ""

ASSUME LineAssumption == MaxLines \in Nat /\ "*" \notin Controls /\ None \notin Controls \union {"*"}

Media      == {"video", "audio"}
Transports == {"RTP/AVP", "RTP/AVP/TCP"}

MediaLine(m, t) == [kind |-> "m=", media |-> m, text |-> t]
ControlLine(c)  == [kind |-> "a=control:", media |-> None, text |-> c]

Lines == {MediaLine(m, t) : m \in Media, t \in Transports}
           \union {ControlLine(c) : c \in Controls \union {"*"}}

\* At most one section of each media type.
OneSectionEach(s) ==
  \A i, j \in 1 .. Len(s) :
    s[i].kind = "m=" /\ s[j].kind = "m=" /\ s[i].media = s[j].media => i = j

Sdps == {s \in BoundedSeq(Lines, MaxLines) : OneSectionEach(s)}

VARIABLES
  sdp,      \* the description
  pc,       \* the next call of ParseSdpProto
  trans,    \* sess->trans and trans2; the zero they start with stands for TCP
  control   \* sess->vmedia.control and amedia.control

vars == <<sdp, pc, trans, control>>

Calls == <<"VideoTransport", "VideoAcontrol", "AudioTransport", "AudioAcontrol">>

TypeOK ==
  /\ sdp \in Seq(Lines)
  /\ pc \in 1 .. Len(Calls) + 1
  /\ trans \in [Media -> {"UDP", "TCP"}]
  /\ control \in [Media -> Controls \union {None}]

\* InitRtspClientSession sets trans and leaves trans2 alone.
Init ==
  /\ pc = 1
  /\ trans = [m \in Media |-> IF m = "video" THEN "UDP" ELSE "TCP"]
  /\ control = [m \in Media |-> None]

-----------------------------------------------------------------------------

\* A search from the start of the description.
BehindNothing(m, matching) == {i \in 1 .. Len(sdp) : sdp[i] \in matching}

\* Positions of the lines behind the media line of m that a search matches.
Behind(m, matching) ==
  {i \in 1 .. Len(sdp) :
     sdp[i] \in matching /\ \E j \in 1 .. i : sdp[j].kind = "m=" /\ sdp[j].media = m}

ControlLines == {l \in Lines : l.kind = "a=control:"}

\* The line of the first match, if any.
First(m, matching) ==
  {sdp[i] : i \in {j \in Behind(m, matching) : \A k \in Behind(m, matching) : j <= k}}

\* "RTP/AVP" is found in "RTP/AVP/TCP" too.
UdpLines == {l \in Lines : l.text \in Transports}

GetSdpTransport(m) ==
  /\ trans' = IF First(m, UdpLines) # {} THEN [trans EXCEPT ![m] = "UDP"] ELSE trans
  /\ UNCHANGED <<sdp, control>>

\* "*" taken for a control like any other.
GetSdpAcontrolStar(m) ==
  /\ control' =
       [control EXCEPT ![m] =
          IF First(m, ControlLines) # {}
          THEN (CHOOSE l \in First(m, ControlLines) : TRUE).text
          ELSE @]
  /\ UNCHANGED <<sdp, trans>>

\* "a=control:*" leaves the control empty.
GetSdpAcontrol(m) ==
  /\ control' =
       [control EXCEPT ![m] =
          IF \E l \in First(m, ControlLines) : l.text # "*"
          THEN (CHOOSE l \in First(m, ControlLines) : TRUE).text
          ELSE @]
  /\ UNCHANGED <<sdp, trans>>

Call(name) == pc <= Len(Calls) /\ Calls[pc] = name /\ pc' = pc + 1

ParseSdpProto ==
  \/ Call("VideoTransport") /\ GetSdpTransport("video")
  \/ Call("VideoAcontrol")  /\ GetSdpAcontrol("video")
  \/ Call("AudioTransport") /\ GetSdpTransport("audio")
  \/ Call("AudioAcontrol")  /\ GetSdpAcontrol("audio")

-----------------------------------------------------------------------------
(* Properties                                                              *)

Parsed == pc > Len(Calls)

\* The lines of the section of m: from its media line to the next one.
Section(m) ==
  {i \in Behind(m, Lines) :
     \A j \in 1 .. i : sdp[j].kind = "m=" /\ sdp[j].media # m
                       => \E k \in j .. i : sdp[k].kind = "m=" /\ sdp[k].media = m}

OwnControls(m) == {sdp[i].text : i \in {j \in Section(m) : sdp[j] \in ControlLines}}

\* When the section of a stream has one control attribute, and names a track
\* in it, that is the control of the stream, in whatever order the sections come
\* and whatever session level attributes precede them (GetSdpVideoAcontrol,
\* GetSdpAudioAcontrol).  Nothing is promised of "a=control:*", which leaves the
\* control empty, and of a section without a control, for which the parser takes
\* the next section's.
OwnControlUsed ==
  Parsed => \A m \in Media : \A c \in Controls :
    OwnControls(m) = {c} => control[m] = c
=============================================================================
