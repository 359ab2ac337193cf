------------------------------- MODULE RtpNal --------------------------------
(***************************************************************************)
(* The payload of RTP packets turned into a byte stream (UnpackRtpNAL of   *)
(* rtp.c): one NAL unit a packet, a NAL unit in fragments (FU-A), or       *)
(* several NAL units a packet (STAP-A).  The server's side is RFC 3984.    *)
(*                                                                         *)
(* The first byte of a NAL unit is F (1 bit), NRI (2) and TYPE (5); the    *)
(* second byte of a fragment is S, E, R (1 bit each) and TYPE (5).         *)
(***************************************************************************)
EXTENDS Integers, SequencesExt

CONSTANTS
  Nals,       \* NAL units the server may send: sequences of bytes
  MaxNals,    \* bound: NAL units sent
  MaxLosses   \* bound: packets lost

ASSUME BoundAssumption == MaxNals \in Nat /\ MaxLosses \in Nat

\* The server's NAL units are bytes; F is 0, the type is one of a single NAL
\* unit, and the size fits the two bytes it has in a STAP-A.
ASSUME NalsAssumption ==
  \A nal \in Nals :
    /\ nal \in Seq(0 .. 255) /\ Len(nal) > 0 /\ Len(nal) \div 256 < 256
    /\ nal[1] \in 1 .. 127 /\ nal[1] % 32 \in 1 .. 23

\* An encoder puts a 3 between two zeros and a byte below 4 (H.264, emulation
\* prevention), so that no start code is inside a NAL unit.
ASSUME EmulationAssumption ==
  \A nal \in Nals : \A i \in 1 .. Len(nal) - 2 :
    nal[i] = 0 /\ nal[i + 1] = 0 => nal[i + 2] > 2

h264prefix == <<0, 0, 0, 1>>

-----------------------------------------------------------------------------
(* rtp.c                                                                   *)

TYPE(b) == b % 32
ForbiddenZero(b) == (b \div 128) % 2

UnpackRtpSingle_NAL(buf) == h264prefix \o buf

\* The byte at position i; no packet of the server leads the walk behind its end.
Byte(q, i) == IF i <= Len(q) THEN q[i] ELSE 0

\* A walk that stops one byte short of each unit.
UnpackRtpSTAP_A_NALShort(buf) ==
  LET q == Tail(buf)
      size(nidx) == Byte(q, nidx + 1) * 256 + Byte(q, nidx + 2)
      walk[nidx \in Nat] ==
        IF nidx >= Len(buf) - 1 THEN <<>>
        ELSE h264prefix \o <<size(nidx) % 256>>
               \o SubSeq(q, nidx + 3, nidx + 1 + size(nidx))
               \o walk[nidx + 2 + size(nidx)]
  IN  walk[0]

\* The units of a STAP-A from position nidx of q, the packet without its first
\* byte: a start code, the low byte of the size, and the unit.  A unit of size
\* 0 makes the walk skip a byte more.
UnpackRtpSTAP_A_NAL(buf) ==
  LET q == Tail(buf)
      size(nidx) == Byte(q, nidx + 1) * 256 + Byte(q, nidx + 2)
      walk[nidx \in Nat] ==
        IF nidx >= Len(buf) - 1 THEN <<>>
        ELSE h264prefix \o <<size(nidx) % 256>> \o
             IF size(nidx) = 0 THEN walk[nidx + 3]
             ELSE SubSeq(q, nidx + 3, nidx + 2 + size(nidx))
                    \o walk[nidx + 2 + size(nidx)]
  IN  walk[0]

\* Indicator and header added up unmasked.
FuaNalUnmasked(head1, head2) == head1 + head2

\* The byte of a fragment that only keeps the type.
FuaNalOfType(head1, head2) == TYPE(head2)

\* The first byte of the NAL unit: NRI of the indicator, type of the header.
FuaNal(head1, head2) == (head1 - TYPE(head1)) + TYPE(head2)

\* Only the first fragment (S) carries a start code and the unit's first byte.
UnpackRtpFU_A_NAL(buf) ==
  IF buf[2] >= 128
  THEN h264prefix \o <<FuaNal(buf[1], buf[2])>> \o SubSeq(buf, 3, Len(buf))
  ELSE SubSeq(buf, 3, Len(buf))

UnpackRtpNAL(buf) ==
  LET type == TYPE(buf[1])
  IN  CASE ForbiddenZero(buf[1]) # 0 -> buf
        [] ForbiddenZero(buf[1]) = 0 /\ type \in 1 .. 23 -> UnpackRtpSingle_NAL(buf)
        [] ForbiddenZero(buf[1]) = 0 /\ type = 24 -> UnpackRtpSTAP_A_NAL(buf)
        [] ForbiddenZero(buf[1]) = 0 /\ type = 28 -> UnpackRtpFU_A_NAL(buf)
        [] OTHER -> buf

-----------------------------------------------------------------------------
(* The server                                                              *)

VARIABLES
  nals,      \* NAL units sent, the one being fragmented included
  together,  \* history: numbers of the units sent in a STAP-A
  left,      \* bytes of the last one still to be sent in fragments
  gaps,      \* history: lengths of framebuf when a packet was lost
  losses,    \* packets lost so far
  framebuf   \* what the receiver has made of the packets

vars == <<nals, together, left, gaps, losses, framebuf>>

TypeOK ==
  /\ nals \in Seq(Nals) /\ Len(nals) <= MaxNals
  /\ together \subseteq 1 .. Len(nals)
  /\ left \in Seq(0 .. 255)
  /\ gaps \subseteq 0 .. Len(framebuf)
  /\ losses \in 0 .. MaxLosses
  /\ framebuf \in Seq(0 .. 255)

Init ==
  /\ nals = <<>> /\ together = {} /\ left = <<>>
  /\ gaps = {} /\ losses = 0
  /\ framebuf = <<>>

\* A packet arrives and its payload goes to the end of the frame, or is lost.
Transmit(buf) ==
  \/ framebuf' = framebuf \o UnpackRtpNAL(buf) /\ UNCHANGED <<gaps, losses>>
  \/ /\ losses < MaxLosses /\ losses' = losses + 1
     /\ gaps' = gaps \union {Len(framebuf)}
     /\ UNCHANGED framebuf

SendSingle(nal) ==
  /\ left = <<>> /\ Len(nals) < MaxNals
  /\ nals' = Append(nals, nal)
  /\ Transmit(nal)
  /\ UNCHANGED <<left, together>>

Indicator(nal) == (nal[1] - TYPE(nal[1])) + 28

\* The first fragment: the header goes without the unit's first byte.
SendFirst(nal, n) ==
  /\ left = <<>> /\ Len(nals) < MaxNals
  /\ n \in 1 .. Len(nal) - 2
  /\ nals' = Append(nals, nal)
  /\ left' = SubSeq(nal, n + 2, Len(nal))
  /\ Transmit(<<Indicator(nal), 128 + TYPE(nal[1])>> \o SubSeq(nal, 2, n + 1))
  /\ UNCHANGED together

\* A middle fragment, or the last one with the E bit.
SendFragment(n) ==
  LET nal == Last(nals)
      e   == IF n = Len(left) THEN 64 ELSE 0
  IN  /\ n \in 1 .. Len(left)
      /\ left' = SubSeq(left, n + 1, Len(left))
      /\ Transmit(<<Indicator(nal), e + TYPE(nal[1])>> \o SubSeq(left, 1, n))
      /\ UNCHANGED <<nals, together>>

Sized(nal) == <<Len(nal) \div 256, Len(nal) % 256>> \o nal

SendTogether(nal1, nal2) ==
  /\ left = <<>> /\ Len(nals) + 1 < MaxNals
  /\ nals' = nals \o <<nal1, nal2>>
  /\ together' = together \union {Len(nals) + 1, Len(nals) + 2}
  /\ Transmit(<<96 + 24>> \o Sized(nal1) \o Sized(nal2))
  /\ UNCHANGED left

Next ==
  \/ \E nal \in Nals : SendSingle(nal) \/ \E n \in 1 .. Len(nal) : SendFirst(nal, n)
  \/ \E n \in 1 .. Len(left) : SendFragment(n)
  \/ \E nal1, nal2 \in Nals : SendTogether(nal1, nal2)

Spec == Init /\ [][Next]_vars

-----------------------------------------------------------------------------
(* Properties                                                              *)

\* What stands between the start code of the unit with number i and the unit:
\* the low byte of its size, if it came in a STAP-A.
Between(i) == IF i \in together THEN <<Len(nals[i]) % 256>> ELSE <<>>

\* While nothing is lost the frame is the server's NAL units, each whole, in
\* order and behind a start code, however they were cut into fragments or put
\* together; those of a STAP-A come with a byte of their size (UnpackRtpNAL).
UnitsComplete ==
  losses = 0 =>
    framebuf \o left =
      FlattenSeq([i \in 1 .. Len(nals) |-> h264prefix \o Between(i) \o nals[i]])

\* The bytes from i on that would make a start code were never next to each other.
AcrossGap(i) == \E g \in gaps : i <= g /\ g < i + 3

StartCodes ==
  {i \in 1 .. Len(framebuf) - 3 :
     SubSeq(framebuf, i, i + 3) = h264prefix /\ ~AcrossGap(i)}

\* Whatever is lost, a start code is followed by the beginning of a NAL unit the
\* server sent, and there is at most one for each.  Only what meets across a lost
\* fragment can look like one (UnpackRtpFU_A_NAL).
StartCodesTrue ==
  /\ \A i \in StartCodes : \E n \in 1 .. Len(nals) :
       IsPrefix(Between(n) \o <<nals[n][1]>>, SubSeq(framebuf, i + 4, Len(framebuf)))
  /\ Cardinality(StartCodes) <= Len(nals)

\* rtp.c:141 draws a STAP-A with the sizes outside the units, and the frame goes
\* to playCb as "video/H264" (rtsp_client.c:295): a decoder expects each NAL unit
\* right behind its start code.
FrameIsByteStream ==
  losses = 0 =>
    framebuf \o left = FlattenSeq([i \in 1 .. Len(nals) |-> h264prefix \o nals[i]])
=============================================================================
