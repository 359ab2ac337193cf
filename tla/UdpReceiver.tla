----------------------------- MODULE UdpReceiver -----------------------------
(***************************************************************************)
(* The receiver thread RtspHandleUdpConnect (rtsp_client.c) of one session *)
(* with the stream that reaches its two sockets: RTP packets that the      *)
(* network may lose or let overtake one another, RTCP datagrams of the     *)
(* server, and time.  One pass of the loop is one select and up to three   *)
(* steps: an RTP datagram, an RTCP datagram, a receiver report.            *)
(*                                                                         *)
(* The payload of a packet is its number; a frame is the sequence of       *)
(* payloads handed to playCb.  Time is in half seconds and gettimeofday's  *)
(* tv_sec drops the half.  Both sockets were opened, rtpfd below rtcpfd,   *)
(* and a datagram is at least as long as the headers the code reads.       *)
(***************************************************************************)
EXTENDS RtpStats, FiniteSets, SequencesExt

CONSTANTS
  Isns,        \* first sequence numbers the server may choose
  MaxPackets,  \* bound: RTP packets of the server
  MaxMishaps,  \* bound: packets lost or overtaken
  MaxRtcp,     \* bound: RTCP datagrams of the server
  MaxTime      \* bound: half seconds

ASSUME StreamAssumption ==
  /\ MaxPackets \in Nat /\ MaxMishaps \in Nat /\ MaxRtcp \in Nat
  /\ MaxTime \in Nat \ {0}
  /\ \A isn \in Isns : isn \in Nat /\ isn + MaxPackets <= Byte * Byte

VARIABLES
  now,        \* the clock
  isn,        \* the server's first sequence number
  sent,       \* packets the server sent, in order
  mishaps,    \* packets lost or overtaken so far
  rtp,        \* datagrams waiting in the RTP socket
  rtcp,       \* datagrams waiting in the RTCP socket
  rtcpSent,   \* RTCP datagrams the server sent
  times,      \* the static counter of datagrams sent to open the path
  pc,         \* the next step of the pass, or "ended"
  readfd,     \* sockets select found readable
  writefd,    \* sockets select found writable
  framebuf,   \* payloads of the frame being assembled
  frames,     \* frames handed to playCb
  stats,      \* the session's RtpStats
  rtcptv,     \* the session's rtcptv
  heard,      \* history: sequence numbers of the packets read
  arrived,    \* history: payloads of the packets read, in the order of reading
  report,     \* history: the last receiver report
  lastSr      \* history: number and arrival of the last complete sender report

serverVars == <<isn, sent, mishaps, rtcpSent>>
vars == <<now, serverVars, rtp, rtcp, times, pc, readfd, writefd, framebuf,
          frames, stats, rtcptv, heard, arrived, report, lastSr>>

Sec(t) == t \div 2

Parts == {<<>>, <<"SR">>, <<"shortSR">>, <<"SDES">>, <<"SR", "SDES">>,
          <<"SR", "BYE">>, <<"BYE", "SR">>}

NoReport == [at |-> 0, highest |-> 0, lsr |-> 0, dlsr |-> 0]

Packets ==
  [mpt : Bytes, hi : Bytes, lo : Bytes, payload : 1 .. MaxPackets]

Datagrams == [parts : Parts, ts : 1 .. MaxRtcp]

TypeOK ==
  /\ now \in 1 .. MaxTime
  /\ isn \in Isns
  /\ sent \in Seq(Packets) /\ Len(sent) <= MaxPackets
  /\ mishaps \in 0 .. MaxMishaps
  /\ rtp \in Seq(Packets)
  /\ rtcp \in Seq(Datagrams)
  /\ rtcpSent \in 0 .. MaxRtcp
  /\ times \in 0 .. 2
  /\ pc \in {"select", "rtp", "rtcp", "report", "ended"}
  /\ readfd \subseteq {"rtp", "rtcp"} /\ writefd \subseteq {"rtp", "rtcp"}
  /\ framebuf \in Seq(1 .. MaxPackets) /\ arrived \in Seq(1 .. MaxPackets)
  /\ \A i \in 1 .. Len(frames) : frames[i] \in Seq(1 .. MaxPackets)
  /\ {stats.highest, stats.first, stats.lost} \subseteq 0 .. Byte * Byte - 1
  /\ stats.received \in 0 .. MaxPackets
  /\ stats.srTs \in 0 .. MaxRtcp
  /\ rtcptv \in 1 .. now

\* The thread has started, bound its sockets and read the clock.
Init ==
  /\ now = 1
  /\ isn \in Isns
  /\ sent = <<>> /\ mishaps = 0 /\ rtcpSent = 0
  /\ rtp = <<>> /\ rtcp = <<>>
  /\ times \in 0 .. 2   \* the receivers of all sessions share the counter
  /\ pc = "select"
  /\ readfd = {} /\ writefd = {}
  /\ framebuf = <<>> /\ frames = <<>>
  /\ stats = NoStats
  /\ rtcptv = 1
  /\ heard = {} /\ arrived = <<>> /\ report = NoReport /\ lastSr = [ts |-> 0, at |-> 0]

-----------------------------------------------------------------------------
(* The stream                                                              *)

NextPacket(marker) ==
  LET seq == isn + Len(sent)
  IN  [mpt     |-> IF marker THEN Byte \div 2 + 1 ELSE 1,
       hi      |-> seq \div Byte,
       lo      |-> seq % Byte,
       payload |-> Len(sent) + 1]

streamUnchanged == UNCHANGED <<isn, rtcp, rtcpSent, now, times, pc, readfd, writefd,
  framebuf, frames, stats, rtcptv, heard, arrived, report, lastSr>>

\* The server sends a packet, with the marker on the last one of a frame.
SendRtp ==
  /\ Len(sent) < MaxPackets
  /\ \E marker \in BOOLEAN :
       LET p == NextPacket(marker)
       IN  /\ sent' = Append(sent, p)
           /\ rtp' = Append(rtp, p)
  /\ UNCHANGED mishaps
  /\ streamUnchanged

\* The packet is lost, or overtakes the one before it.
Mishap ==
  /\ Len(sent) < MaxPackets
  /\ mishaps < MaxMishaps
  /\ mishaps' = mishaps + 1
  /\ \E marker \in BOOLEAN :
       LET p == NextPacket(marker)
       IN  /\ sent' = Append(sent, p)
           /\ \/ rtp' = rtp
              \/ /\ rtp # <<>>
                 /\ rtp' = InsertAt(rtp, Len(rtp), p)
  /\ streamUnchanged

\* The server sends an RTCP datagram.
SendRtcp ==
  /\ rtcpSent < MaxRtcp
  /\ rtcpSent' = rtcpSent + 1
  /\ \E parts \in Parts :
       rtcp' = Append(rtcp, [parts |-> parts, ts |-> rtcpSent + 1])
  /\ UNCHANGED <<now, isn, sent, mishaps, rtp, times, pc, readfd, writefd, framebuf,
                 frames, stats, rtcptv, heard, arrived, report, lastSr>>

Tick ==
  /\ now < MaxTime
  /\ now' = now + 1
  /\ UNCHANGED <<serverVars, rtp, rtcp, times, pc, readfd, writefd, framebuf, frames,
                 stats, rtcptv, heard, arrived, report, lastSr>>

-----------------------------------------------------------------------------
(* The receiver                                                            *)

\* An interest set without the RTP socket.
ReadableRtcp == {s \in {"rtcp"} : rtcp # <<>>}

Readable ==
  {s \in {"rtp", "rtcp"} : (s = "rtp" /\ rtp # <<>>) \/ (s = "rtcp" /\ rtcp # <<>>)}

\* A select that is not asked about writing.
WritableNever == {}

\* A datagram can always be sent.
Writable == {"rtp", "rtcp"}

\* select never waits, since both sockets are writable.  The first two passes
\* send a datagram to the server's RTP port.
Select ==
  /\ pc = "select"
  /\ readfd' = Readable
  /\ writefd' = Writable
  /\ times' = IF times < 2 THEN times + 1 ELSE times
  /\ pc' = "rtp"
  /\ UNCHANGED <<now, serverVars, rtp, rtcp, framebuf, frames, stats, rtcptv,
                 heard, arrived, report, lastSr>>

\* A payload that is written to the start of the buffer.
AssembleOverwrites(p) ==
  IF CheckRtpHeaderMarker(p)
  THEN framebuf' = <<>> /\ frames' = Append(frames, <<p.payload>>)
  ELSE framebuf' = <<p.payload>> /\ UNCHANGED frames

\* The payload goes to the end of the frame; the marker hands the frame over
\* and empties the buffer.
Assemble(p) ==
  IF CheckRtpHeaderMarker(p)
  THEN framebuf' = <<>> /\ frames' = Append(frames, Append(framebuf, p.payload))
  ELSE framebuf' = Append(framebuf, p.payload) /\ UNCHANGED frames

ReceiveRtp ==
  /\ pc = "rtp"
  /\ "rtp" \in readfd
  /\ LET p == Head(rtp)
     IN  /\ stats' = UpdateRtpStats(stats, ParseSeq(p), now)
         /\ Assemble(p)
         /\ heard' = heard \union {SentSeq(p)}
         /\ arrived' = Append(arrived, p.payload)
  /\ rtp' = Tail(rtp)
  /\ pc' = "rtcp"
  /\ UNCHANGED <<now, serverVars, rtcp, times, readfd, writefd, rtcptv, report, lastSr>>

\* select or recvfrom fails: the loop ends (and asks for the TEARDOWN).
ReceiveFails ==
  /\ pc = "select" \/ pc \in readfd
  /\ pc' = "ended"
  /\ UNCHANGED <<now, serverVars, rtp, rtcp, times, readfd, writefd, framebuf, frames,
                 stats, rtcptv, heard, arrived, report, lastSr>>

SkipRtp ==
  /\ pc = "rtp"
  /\ "rtp" \notin readfd
  /\ pc' = "rtcp"
  /\ UNCHANGED <<now, serverVars, rtp, rtcp, times, readfd, writefd, framebuf, frames,
                 stats, rtcptv, heard, arrived, report, lastSr>>

\* Every datagram without a BYE counts as a sign of life; BYE ends the loop.
ReceiveRtcp ==
  /\ pc = "rtcp"
  /\ "rtcp" \in readfd
  /\ LET d == Head(rtcp)
     IN  /\ stats' = ParseRtcpStats(stats, d, now)
         /\ lastSr' = IF Len(d.parts) > 0 /\ d.parts[1] = "SR"
                      THEN [ts |-> d.ts, at |-> now] ELSE lastSr
         /\ IF ParseRtcp(d) = "BYE"
            THEN pc' = "ended" /\ UNCHANGED rtcptv
            ELSE pc' = "report" /\ rtcptv' = now
  /\ rtcp' = Tail(rtcp)
  /\ UNCHANGED <<now, serverVars, rtp, times, readfd, writefd, framebuf, frames,
                 heard, arrived, report>>

SkipRtcp ==
  /\ pc = "rtcp"
  /\ "rtcp" \notin readfd
  /\ pc' = "report"
  /\ UNCHANGED <<now, serverVars, rtp, rtcp, times, readfd, writefd, framebuf, frames,
                 stats, rtcptv, heard, arrived, report, lastSr>>

Overdue == 2 < Sec(now) - Sec(rtcptv)

\* A report that leaves rtcptv as it was.
SendReportAgain ==
  /\ pc = "report"
  /\ "rtcp" \in writefd /\ Overdue
  /\ stats' = ReportStats(stats, now)
  /\ report' = RtcpReceiveReport(stats, now)
  /\ pc' = "select"
  /\ UNCHANGED <<now, serverVars, rtp, rtcp, times, readfd, writefd, framebuf, frames,
                 rtcptv, heard, arrived, lastSr>>

\* More than two seconds without RTCP, or since the last report.
SendReport ==
  /\ pc = "report"
  /\ "rtcp" \in writefd /\ Overdue
  /\ rtcptv' = now
  /\ stats' = ReportStats(stats, now)
  /\ report' = RtcpReceiveReport(stats, now)
  /\ pc' = "select"
  /\ UNCHANGED <<now, serverVars, rtp, rtcp, times, readfd, writefd, framebuf, frames,
                 heard, arrived, lastSr>>

SkipReport ==
  /\ pc = "report"
  /\ ~("rtcp" \in writefd /\ Overdue)
  /\ pc' = "select"
  /\ UNCHANGED <<now, serverVars, rtp, rtcp, times, readfd, writefd, framebuf, frames,
                 stats, rtcptv, heard, arrived, report, lastSr>>

RtspHandleUdpConnect ==
  \/ Select
  \/ ReceiveRtp \/ SkipRtp
  \/ ReceiveRtcp \/ SkipRtcp
  \/ SendReport \/ SkipReport

Next ==
  \/ SendRtp \/ Mishap \/ SendRtcp \/ Tick
  \/ RtspHandleUdpConnect
  \/ ReceiveFails

Spec == Init /\ [][Next]_vars

\* The thread runs; the server, the network and the clock owe nothing.
LiveSpec == Spec /\ WF_vars(RtspHandleUdpConnect)

-----------------------------------------------------------------------------
(* Properties                                                              *)

Payloads == FlattenSeq(frames) \o framebuf

HasMarker(payload) == sent[payload].mpt >= Byte \div 2

\* While nothing is lost or overtaken the frames are the server's: every payload
\* read so far is in a frame or in the buffer, in the order of sending
\* (RtspHandleUdpConnect, ParseRtp).
FramesIntact ==
  mishaps = 0 => Payloads = [i \in 1 .. Len(sent) - Len(rtp) |-> i]

MarkerIsLast ==
  \A i \in 1 .. Len(frames) :
    /\ frames[i] # <<>>
    /\ \A j \in 1 .. Len(frames[i]) :
         HasMarker(frames[i][j]) <=> j = Len(frames[i])

\* Whatever is lost or overtaken, the frames cut what was read, and all of it, at
\* the markers and nowhere else: a frame is what was read after the marker before
\* it up to its own.  So a lost marker merges two frames and none is split; which
\* packets lie between two markers is up to the network (CheckRtpHeaderMarker,
\* framelen).
FrameEndsAtMarker == Payloads = arrived /\ MarkerIsLast

MaxHeard == CHOOSE n \in heard : \A k \in heard : k <= n

BelowSign(n) == 2 * (n \div Byte) < Byte /\ 2 * (n % Byte) < Byte

\* While no byte of a sequence number has its high bit set, highest_seq is the
\* highest number heard, in whatever order packets came (UpdateRtpStats).
HighestExactBelowSign ==
  heard # {} /\ (\A n \in heard : BelowSign(n)) => stats.highest = MaxHeard

\* A report names the last complete sender report, and its delay is the time
\* since that one arrived, whatever short or empty RTCP came between
\* (ParseSenderReport, RtcpReceiveReport).
DelayMatchesReport ==
  [][report' # report
       => /\ report'.lsr = lastSr.ts
          /\ lastSr.ts # 0 => report'.dlsr = now - lastSr.at]_vars

\* Two receiver reports are more than two seconds apart, although tv_sec
\* drops the fraction (rtcptv).
ReportsSpaced ==
  [][report' # report /\ report.at # 0 => now - report.at > 4]_vars

\* An overdue report goes out, or RTCP comes in or the loop ends: the pass
\* never waits for a datagram, because select also watches for writing.
OverdueAnswered == Overdue ~> (~Overdue \/ pc = "ended")

\* The receiver reads all the server sends.
EveryDatagramRead == rtp # <<>> ~> (rtp = <<>> \/ pc = "ended")
=============================================================================
