------------------------------- MODULE RtpStats -------------------------------
(***************************************************************************)
(* What the receiver keeps about the stream: the header fields of rtp.c,   *)
(* the statistics a packet or a sender report updates, and the receiver    *)
(* report of rtcp.c made from them.                                        *)
(*                                                                         *)
(* A packet is a record of the bytes the code reads: mpt holds the marker  *)
(* bit above the payload type, hi and lo the sequence number.  The buffer  *)
(* is of type char, which the Linux build takes as signed.                 *)
(***************************************************************************)
EXTENDS Integers, Sequences

CONSTANT Byte       \* values of a byte: 256

ASSUME ByteAssumption == Byte \in Nat /\ Byte > 2 /\ Byte % 2 = 0

Bytes == 0 .. Byte - 1

\* A byte read through a signed char.
Signed(b) == IF 2 * b >= Byte THEN b - Byte ELSE b

\* The marker bit with the payload type left in.
MarkerOfAnyType(p) == p.mpt > 0

\* CHECK_BIT(buf[1], 8) tests the bit above the byte: the sign extension of a
\* signed char has put the marker there.
CheckRtpHeaderMarker(p) == Signed(p.mpt) < 0

\* The sequence number the sender wrote.
SentSeq(p) == p.hi * Byte + p.lo

\* A sequence number that is not cut to sixteen bits.
ParseSeqWide(p) == Signed(p.hi) * Byte + Signed(p.lo)

\* The sequence number the code reads: two signed bytes, cut to the width of
\* the bit field.
ParseSeq(p) == (Signed(p.hi) * Byte + Signed(p.lo)) % (Byte * Byte)

NoStats ==
  [received |-> 0, highest |-> 0, first |-> 0, lost |-> 0, \* packets
   lastRcv |-> 0,                                         \* time of the first
   srTs |-> 0, srTime |-> 0, dlsr |-> 0]                   \* sender reports

\* Statistics that follow the last packet.
UpdateRtpStatsLatest(stats, seq, now) ==
  [stats EXCEPT !.received = @ + 1,
                !.highest  = seq,
                !.first    = IF stats.lastRcv = 0 THEN seq ELSE @,
                !.lastRcv  = IF @ = 0 THEN now ELSE @]

\* One packet more.  Despite its name lastRcv is the time of the first one.
UpdateRtpStats(stats, seq, now) ==
  [stats EXCEPT !.received = @ + 1,
                !.highest  = IF seq > @ THEN seq ELSE @,
                !.first    = IF stats.lastRcv = 0 THEN seq ELSE @,
                !.lastRcv  = IF @ = 0 THEN now ELSE @]

\* A sender report that keeps its time of arrival only.
ParseSenderReportTime(stats, ts, now) == [stats EXCEPT !.srTime = now]

\* The middle of the NTP time stamp and the time the report arrived.
ParseSenderReport(stats, ts, now) ==
  [stats EXCEPT !.srTs = ts, !.srTime = now]

Holds(parts, type) == \E i \in 1 .. Len(parts) : parts[i] = type

\* The statistics after a compound packet: its parts are read in order up to a
\* BYE; a report that is too short leaves the statistics alone.
ParseRtcpStats(stats, d, now) ==
  IF \E i \in 1 .. Len(d.parts) :
       d.parts[i] = "SR" /\ \A j \in 1 .. i : d.parts[j] # "BYE"
  THEN ParseSenderReport(stats, d.ts, now)
  ELSE stats

\* What ParseRtcp returns: "SR" for everything that holds no BYE, an empty
\* datagram included.
ParseRtcp(d) == IF Holds(d.parts, "BYE") THEN "BYE" ELSE "SR"

\* The statistics a report leaves behind.  The packets received cancel out of
\* the number of packets lost.
ReportStats(stats, now) ==
  LET extended_max == stats.received + stats.highest
      expected     == extended_max - stats.first + 1
  IN  [stats EXCEPT !.lost = expected - stats.received - 1,
                    !.dlsr = IF stats.srTs # 0 THEN now - stats.srTime ELSE @]

\* The fields of the report that are about the sender.
RtcpReceiveReport(stats, now) ==
  LET after == ReportStats(stats, now)
  IN  [at |-> now, highest |-> after.highest, lsr |-> after.srTs, dlsr |-> after.dlsr]
=============================================================================
