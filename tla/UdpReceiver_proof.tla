-------------------------- MODULE UdpReceiver_proof --------------------------
(***************************************************************************)
(* The frames and the reports of the receiver, for every stream, every     *)
(* loss and every size of a byte: the frames are what was read, cut at the *)
(* markers, reports are more than two seconds apart, and the delay in a    *)
(* report is that of the sender report it names.                           *)
(***************************************************************************)
EXTENDS UdpReceiver, SequenceFacts

-----------------------------------------------------------------------------
(* Frames                                                                  *)

StatFields == {"received", "highest", "first", "lost", "lastRcv", "srTs", "srTime", "dlsr"}

\* The packets in the socket are some of those the server sent, and the payload
\* is the number of the packet.
StreamInv ==
  /\ isn \in Isns
  /\ sent \in Seq(Packets) /\ Len(sent) <= MaxPackets
  /\ rtp \in Seq(Packets)
  /\ \A i \in 1 .. Len(rtp) :
       rtp[i].payload \in 1 .. Len(sent) /\ sent[rtp[i].payload] = rtp[i]

\* No payload in the buffer has a marker, because a marker empties it.
FrameInv ==
  /\ framebuf \in Seq(Nat)
  /\ \A i \in 1 .. Len(framebuf) :
       framebuf[i] \in 1 .. Len(sent) /\ ~HasMarker(framebuf[i])
  /\ frames \in Seq(Seq(Nat))
  /\ \A i \in 1 .. Len(frames) : \A j \in 1 .. Len(frames[i]) :
       frames[i][j] \in 1 .. Len(sent)
  /\ MarkerIsLast

FramesInv == StreamInv /\ FrameInv

\* A socket that select found readable has its datagram until it is read: no
\* one else reads the socket.
QueueInv ==
  /\ rtp \in Seq(Packets)
  /\ pc = "rtp" /\ "rtp" \in readfd => rtp # <<>>
  /\ pc \in {"rtp", "rtcp"} /\ "rtcp" \in readfd => rtcp # <<>>

\* The test of the byte behind the sign finds the marker (CheckRtpHeaderMarker).
LEMMA MarkerFound ==
  ASSUME NEW p \in Packets
  PROVE  CheckRtpHeaderMarker(p) <=> p.mpt >= Byte \div 2
BY ByteAssumption DEF Packets, Bytes, CheckRtpHeaderMarker, Signed

\* What the network does to a packet that overtakes the one before it.
LEMMA InsertedBeforeLast ==
  ASSUME NEW S, NEW s \in Seq(S), s # <<>>, NEW e \in S
  PROVE  LET n == Len(s)
             t == InsertAt(s, n, e)
         IN  /\ t \in Seq(S) /\ Len(t) = n + 1
             /\ \A i \in 1 .. n - 1 : t[i] = s[i]
             /\ t[n] = e /\ t[n + 1] = s[n]
<1> DEFINE n == Len(s)
           front == SubSeq(s, 1, n - 1)
           back == SubSeq(s, n, n)
           most == front \o <<e>>
           t == most \o back
<1>1. n \in Nat /\ n > 0 /\ \A i \in 1 .. n : s[i] \in S
  OBVIOUS
<1>2. InsertAt(s, n, e) = t
  BY DEF InsertAt
<1> HIDE DEF n
<1>3. /\ front \in Seq(S) /\ Len(front) = n - 1
      /\ \A i \in 1 .. n - 1 : front[i] = s[i]
  BY <1>1, SubSeqProperties
<1>4. back \in Seq(S) /\ Len(back) = 1 /\ back[1] = s[n]
  BY <1>1, SubSeqProperties
<1> HIDE DEF front, back
<1>5. <<e>> \in Seq(S) /\ Len(<<e>>) = 1 /\ <<e>>[1] = e
  OBVIOUS
<1>6. /\ most \in Seq(S) /\ Len(most) = n
      /\ \A i \in 1 .. n : most[i] = IF i <= n - 1 THEN s[i] ELSE e
  BY <1>1, <1>3, <1>5, ConcatProperties
<1> HIDE DEF most
<1>7. /\ t \in Seq(S)
      /\ Len(t) = Len(most) + Len(back)
      /\ \A i \in 1 .. Len(most) + Len(back) :
           t[i] = IF i <= Len(most) THEN most[i] ELSE back[i - Len(most)]
  BY <1>4, <1>6, ConcatProperties
<1> HIDE DEF t
<1>8. Len(t) = n + 1
  BY <1>1, <1>4, <1>6, <1>7
<1>9. \A i \in 1 .. n : t[i] = most[i]
  BY <1>1, <1>4, <1>6, <1>7
<1>10. t[n + 1] = s[n]
  BY <1>1, <1>4, <1>6, <1>7
<1>11. /\ \A i \in 1 .. n - 1 : t[i] = s[i]
       /\ t[n] = e
  BY <1>1, <1>6, <1>9
<1> QED
  BY <1>2, <1>7, <1>8, <1>10, <1>11 DEF n

\* The sequence number fits its two bytes.
LEMMA SplitFits ==
  ASSUME NEW seq \in Nat, seq < Byte * Byte
  PROVE  /\ seq \div Byte \in Bytes /\ seq % Byte \in Bytes
         /\ (seq \div Byte) * Byte + (seq % Byte) = seq
<1> DEFINE q == seq \div Byte
           r == seq % Byte
<1>1. q \in Int /\ r \in 0 .. Byte - 1 /\ q * Byte + r = seq
  BY ByteAssumption
<1>2. Byte \in Nat /\ Byte > 2
  BY ByteAssumption
<1> HIDE DEF q, r
<1>3. q >= 0
  <2>1. SUFFICES ASSUME q <= -1
                 PROVE  FALSE
    BY <1>1
  <2>2. q * Byte <= -Byte
    BY <1>1, <1>2, <2>1
  <2> QED
    BY <1>1, <1>2, <2>2
<1>4. q < Byte
  <2>1. SUFFICES ASSUME q >= Byte
                 PROVE  FALSE
    BY <1>1, <1>2
  <2>2. q * Byte >= Byte * Byte
    BY <1>1, <1>2, <2>1
  <2> QED
    BY <1>1, <1>2, <2>2
<1>5. q \in Bytes /\ r \in Bytes /\ q * Byte + r = seq
  BY <1>1, <1>2, <1>3, <1>4 DEF Bytes
<1> QED
  BY <1>5 DEF q, r

LEMMA NextPacketShape ==
  ASSUME FramesInv, Len(sent) < MaxPackets, NEW marker \in BOOLEAN
  PROVE  /\ NextPacket(marker) \in Packets
         /\ NextPacket(marker).payload = Len(sent) + 1
<1>1. /\ isn + Len(sent) \in Nat /\ isn + Len(sent) < Byte * Byte
      /\ Len(sent) + 1 \in 1 .. MaxPackets
  BY StreamAssumption, ByteAssumption DEF FramesInv, StreamInv
<1>2. (isn + Len(sent)) \div Byte \in Bytes /\ (isn + Len(sent)) % Byte \in Bytes
  BY <1>1, SplitFits
<1>3. Byte \div 2 + 1 \in Bytes /\ 1 \in Bytes
  BY ByteAssumption DEF Bytes
<1> QED
  BY <1>1, <1>2, <1>3 DEF NextPacket, Packets

\* A packet more the server sent changes nothing about the earlier ones.
LEMMA SentGrows ==
  ASSUME FramesInv, Len(sent) < MaxPackets, NEW p \in Packets, sent' = Append(sent, p),
         UNCHANGED <<framebuf, frames>>
  PROVE  /\ sent' \in Seq(Packets) /\ Len(sent') = Len(sent) + 1 /\ Len(sent') <= MaxPackets
         /\ sent'[Len(sent) + 1] = p
         /\ \A i \in 1 .. Len(sent) : sent'[i] = sent[i]
         /\ FrameInv'
<1>1. /\ sent' \in Seq(Packets) /\ Len(sent') = Len(sent) + 1
      /\ sent'[Len(sent) + 1] = p
      /\ \A i \in 1 .. Len(sent) : sent'[i] = sent[i]
  BY DEF FramesInv, StreamInv
<1>2. Len(sent) \in Nat /\ MaxPackets \in Nat
  BY StreamAssumption DEF FramesInv, StreamInv
<1>3. \A i \in 1 .. Len(sent) : HasMarker(i)' <=> HasMarker(i)
  BY <1>1 DEF HasMarker
<1>4. \A i \in 1 .. Len(sent) : i \in 1 .. Len(sent')
  BY <1>1, <1>2
<1>5. MarkerIsLast'
  BY <1>3 DEF FramesInv, FrameInv, MarkerIsLast
<1>6. \A i \in 1 .. Len(framebuf) :
        framebuf[i] \in 1 .. Len(sent') /\ ~HasMarker(framebuf[i])'
  BY <1>3, <1>4 DEF FramesInv, FrameInv
<1>7. \A i \in 1 .. Len(frames) : \A j \in 1 .. Len(frames[i]) :
        frames[i][j] \in 1 .. Len(sent')
  BY <1>4 DEF FramesInv, FrameInv
<1> QED
  BY <1>1, <1>2, <1>5, <1>6, <1>7 DEF FramesInv, FrameInv

LEMMA FramesInit == Init => FramesInv
<1> SUFFICES ASSUME Init
             PROVE  FramesInv
  OBVIOUS
<1>1. StreamInv
  BY StreamAssumption DEF Init, StreamInv
<1>2. FrameInv
  BY DEF Init, FrameInv, MarkerIsLast
<1> QED
  BY <1>1, <1>2 DEF FramesInv

LEMMA SendRtpKeepsFrames == FramesInv /\ SendRtp => FramesInv'
<1> SUFFICES ASSUME FramesInv, SendRtp
             PROVE  FramesInv'
  OBVIOUS
<1>1. PICK marker \in BOOLEAN :
        sent' = Append(sent, NextPacket(marker)) /\ rtp' = Append(rtp, NextPacket(marker))
  BY DEF SendRtp
<1> DEFINE p == NextPacket(marker)
<1>2. Len(sent) < MaxPackets /\ p \in Packets /\ p.payload = Len(sent) + 1
  BY NextPacketShape DEF SendRtp
<1>3. UNCHANGED <<isn, framebuf, frames>>
  BY DEF SendRtp, streamUnchanged
<1> HIDE DEF p
<1>4. sent' = Append(sent, p) /\ rtp' = Append(rtp, p)
  BY <1>1 DEF p
<1>5. /\ sent' \in Seq(Packets) /\ Len(sent') = Len(sent) + 1 /\ Len(sent') <= MaxPackets
      /\ sent'[Len(sent) + 1] = p
      /\ \A i \in 1 .. Len(sent) : sent'[i] = sent[i]
      /\ FrameInv'
  BY <1>2, <1>3, <1>4, SentGrows
<1>6. /\ rtp' \in Seq(Packets) /\ Len(rtp') = Len(rtp) + 1
      /\ \A i \in 1 .. Len(rtp') : rtp'[i] = IF i <= Len(rtp) THEN rtp[i] ELSE p
  BY <1>2, <1>4 DEF FramesInv, StreamInv
<1>7. Len(sent) \in Nat /\ Len(rtp) \in Nat
  BY DEF FramesInv, StreamInv
<1>8. ASSUME NEW i \in 1 .. Len(rtp')
      PROVE  rtp'[i].payload \in 1 .. Len(sent') /\ sent'[rtp'[i].payload] = rtp'[i]
  <2>1. CASE i <= Len(rtp)
    BY <2>1, <1>5, <1>6, <1>7 DEF FramesInv, StreamInv
  <2>2. CASE ~(i <= Len(rtp))
    BY <2>2, <1>2, <1>5, <1>6, <1>7
  <2> QED
    BY <2>1, <2>2
<1> QED
  BY <1>3, <1>5, <1>6, <1>8 DEF FramesInv, StreamInv

LEMMA MishapKeepsFrames == FramesInv /\ Mishap => FramesInv'
<1> SUFFICES ASSUME FramesInv, Mishap
             PROVE  FramesInv'
  OBVIOUS
<1>1. PICK marker \in BOOLEAN :
        /\ sent' = Append(sent, NextPacket(marker))
        /\ \/ rtp' = rtp
           \/ rtp # <<>> /\ rtp' = InsertAt(rtp, Len(rtp), NextPacket(marker))
  BY DEF Mishap
<1> DEFINE p == NextPacket(marker)
<1>2. Len(sent) < MaxPackets /\ p \in Packets /\ p.payload = Len(sent) + 1
  BY NextPacketShape DEF Mishap
<1>3. UNCHANGED <<isn, framebuf, frames>>
  BY DEF Mishap, streamUnchanged
<1> HIDE DEF p
<1>4. /\ sent' = Append(sent, p)
      /\ \/ rtp' = rtp
         \/ rtp # <<>> /\ rtp' = InsertAt(rtp, Len(rtp), p)
  BY <1>1 DEF p
<1>5. /\ sent' \in Seq(Packets) /\ Len(sent') = Len(sent) + 1 /\ Len(sent') <= MaxPackets
      /\ sent'[Len(sent) + 1] = p
      /\ \A i \in 1 .. Len(sent) : sent'[i] = sent[i]
      /\ FrameInv'
  BY <1>2, <1>3, <1>4, SentGrows
<1>6. Len(sent) \in Nat /\ Len(rtp) \in Nat
  BY DEF FramesInv, StreamInv
<1>7. /\ rtp' \in Seq(Packets)
      /\ \A i \in 1 .. Len(rtp') : rtp'[i] = p \/ \E k \in 1 .. Len(rtp) : rtp'[i] = rtp[k]
  <2>1. CASE rtp' = rtp
    BY <2>1 DEF FramesInv, StreamInv
  <2>2. CASE rtp # <<>> /\ rtp' = InsertAt(rtp, Len(rtp), p)
    <3> DEFINE n == Len(rtp)
               t == InsertAt(rtp, n, p)
    <3>a. rtp \in Seq(Packets) /\ rtp # <<>> /\ p \in Packets
      BY <2>2, <1>2 DEF FramesInv, StreamInv
    <3>b. /\ t \in Seq(Packets) /\ Len(t) = n + 1
          /\ \A i \in 1 .. n - 1 : t[i] = rtp[i]
          /\ t[n] = p /\ t[n + 1] = rtp[n]
      BY <3>a, InsertedBeforeLast
    <3>c. rtp' = t
      BY <2>2
    <3> HIDE DEF t
    <3>1. /\ rtp' \in Seq(Packets) /\ Len(rtp') = n + 1
          /\ \A i \in 1 .. n - 1 : rtp'[i] = rtp[i]
          /\ rtp'[n] = p /\ rtp'[n + 1] = rtp[n]
      BY <3>b, <3>c
    <3>2. n \in Nat /\ n > 0
      BY <2>2, <1>6 DEF FramesInv, StreamInv
    <3> HIDE DEF n
    <3>3. \A i \in 1 .. n + 1 : i \in 1 .. n - 1 \/ i = n \/ i = n + 1
      BY <3>2
    <3>4. n \in 1 .. n /\ \A i \in 1 .. n - 1 : i \in 1 .. n
      BY <3>2
    <3> QED
      BY <3>1, <3>3, <3>4 DEF n
  <2> QED
    BY <2>1, <2>2, <1>4
<1>8. ASSUME NEW i \in 1 .. Len(rtp')
      PROVE  rtp'[i].payload \in 1 .. Len(sent') /\ sent'[rtp'[i].payload] = rtp'[i]
  <2>1. CASE rtp'[i] = p
    BY <2>1, <1>2, <1>5, <1>6
  <2>2. ASSUME NEW k \in 1 .. Len(rtp), rtp'[i] = rtp[k]
        PROVE  rtp'[i].payload \in 1 .. Len(sent') /\ sent'[rtp'[i].payload] = rtp'[i]
    BY <2>2, <1>5, <1>6 DEF FramesInv, StreamInv
  <2> QED
    BY <2>1, <2>2, <1>7
<1> QED
  BY <1>3, <1>5, <1>7, <1>8 DEF FramesInv, StreamInv

\* A packet is read: it joins the buffer, or ends the frame.
LEMMA ReceiveRtpKeepsFrames == FramesInv /\ ReceiveRtp /\ rtp # <<>> => FramesInv'
<1> SUFFICES ASSUME FramesInv, ReceiveRtp, rtp # <<>>
             PROVE  FramesInv'
  OBVIOUS
<1> DEFINE p == Head(rtp)
<1>1. Len(rtp) \in Nat /\ Len(rtp) > 0 /\ Len(sent) \in Nat
  BY DEF FramesInv, StreamInv
<1>2. p = rtp[1] /\ p \in Packets /\ p.payload \in 1 .. Len(sent) /\ sent[p.payload] = p
  BY <1>1 DEF FramesInv, StreamInv
<1>3. /\ rtp' \in Seq(Packets) /\ Len(rtp') = Len(rtp) - 1
      /\ \A i \in 1 .. Len(rtp') : rtp'[i] = rtp[i + 1] /\ i + 1 \in 1 .. Len(rtp)
  BY <1>1 DEF ReceiveRtp, FramesInv, StreamInv
<1>4. isn' = isn /\ sent' = sent
  BY DEF ReceiveRtp, serverVars
<1>5. StreamInv'
  BY <1>3, <1>4 DEF FramesInv, StreamInv
<1>6. CheckRtpHeaderMarker(p) <=> HasMarker(p.payload)
  BY <1>2, MarkerFound DEF HasMarker
<1>7. Assemble(p)
  BY DEF ReceiveRtp
<1> DEFINE whole == Append(framebuf, p.payload)
<1>8. p.payload \in Nat
  BY <1>1, <1>2
<1>9. /\ whole \in Seq(Nat) /\ Len(whole) = Len(framebuf) + 1 /\ Len(framebuf) \in Nat
      /\ \A i \in 1 .. Len(whole) :
           whole[i] = IF i <= Len(framebuf) THEN framebuf[i] ELSE p.payload
  BY <1>8 DEF FramesInv, FrameInv
<1>10. \A i \in 1 .. Len(whole) : whole[i] \in 1 .. Len(sent)
  BY <1>2, <1>9 DEF FramesInv, FrameInv
<1>11. \A i \in 1 .. Len(framebuf) : whole[i] = framebuf[i] /\ ~HasMarker(whole[i])
  BY <1>9 DEF FramesInv, FrameInv
<1>12. \A i : HasMarker(i)' <=> HasMarker(i)
  BY <1>4 DEF HasMarker
<1> HIDE DEF p, whole
<1>13. CASE CheckRtpHeaderMarker(p)
  <2>1. framebuf' = <<>> /\ frames' = Append(frames, whole)
    BY <1>7, <1>13 DEF Assemble, whole
  <2>2. whole[Len(whole)] = p.payload /\ HasMarker(p.payload)
    BY <1>6, <1>9, <1>13
  <2>3. \A j \in 1 .. Len(whole) : HasMarker(whole[j]) <=> j = Len(whole)
    <3> SUFFICES ASSUME NEW j \in 1 .. Len(whole)
                 PROVE  HasMarker(whole[j]) <=> j = Len(whole)
      OBVIOUS
    <3>1. CASE j = Len(whole)
      BY <3>1, <2>2
    <3>2. CASE j # Len(whole)
      <4>1. j \in 1 .. Len(framebuf)
        BY <3>2, <1>9
      <4> QED
        BY <4>1, <3>2, <1>11
    <3> QED
      BY <3>1, <3>2
  <2>4. /\ frames' \in Seq(Seq(Nat)) /\ Len(frames') = Len(frames) + 1 /\ Len(frames) \in Nat
        /\ \A i \in 1 .. Len(frames') :
             frames'[i] = IF i <= Len(frames) THEN frames[i] ELSE whole
    BY <2>1, <1>9 DEF FramesInv, FrameInv
  <2>5. whole # <<>>
    BY <1>9
  <2>6. ASSUME NEW i \in 1 .. Len(frames')
        PROVE  /\ frames'[i] # <<>>
               /\ \A j \in 1 .. Len(frames'[i]) :
                    /\ HasMarker(frames'[i][j]) <=> j = Len(frames'[i])
                    /\ frames'[i][j] \in 1 .. Len(sent)
    <3>1. CASE i <= Len(frames)
      <4>1. i \in 1 .. Len(frames) /\ frames'[i] = frames[i]
        BY <3>1, <2>4
      <4> QED
        BY <4>1 DEF FramesInv, FrameInv, MarkerIsLast
    <3>2. CASE ~(i <= Len(frames))
      BY <3>2, <2>3, <2>4, <2>5, <1>10
    <3> QED
      BY <3>1, <3>2
  <2>7. MarkerIsLast'
    BY <2>6, <1>12 DEF MarkerIsLast
  <2> QED
    BY <2>1, <2>4, <2>6, <2>7, <1>4, <1>5 DEF FramesInv, FrameInv
<1>14. CASE ~CheckRtpHeaderMarker(p)
  <2>1. framebuf' = whole /\ frames' = frames
    BY <1>7, <1>14 DEF Assemble, whole
  <2>2. \A i \in 1 .. Len(whole) : ~HasMarker(whole[i])
    BY <1>6, <1>9, <1>11, <1>14
  <2>3. MarkerIsLast'
    BY <2>1, <1>12 DEF FramesInv, FrameInv, MarkerIsLast
  <2> QED
    BY <2>1, <2>2, <2>3, <1>4, <1>5, <1>9, <1>10, <1>12 DEF FramesInv, FrameInv
<1> QED
  BY <1>13, <1>14

LEMMA FramesStep == FramesInv /\ QueueInv /\ [Next]_vars => FramesInv'
<1> SUFFICES ASSUME FramesInv, QueueInv, [Next]_vars
             PROVE  FramesInv'
  OBVIOUS
<1>1. CASE SendRtp
  BY <1>1, SendRtpKeepsFrames
<1>2. CASE Mishap
  BY <1>2, MishapKeepsFrames
<1>3. CASE ReceiveRtp
  BY <1>3, ReceiveRtpKeepsFrames DEF ReceiveRtp, QueueInv
<1>4. ASSUME UNCHANGED <<isn, sent, rtp, framebuf, frames>>
      PROVE  FramesInv'
  BY <1>4 DEF FramesInv, StreamInv, FrameInv, MarkerIsLast, HasMarker
<1>5. CASE SendRtcp \/ Tick \/ ReceiveFails \/ UNCHANGED vars
  BY <1>4, <1>5 DEF SendRtcp, Tick, ReceiveFails, vars, serverVars
<1>6. CASE Select \/ SkipRtp \/ ReceiveRtcp \/ SkipRtcp \/ SendReport \/ SkipReport
  BY <1>4, <1>6 DEF Select, SkipRtp, ReceiveRtcp, SkipRtcp, SendReport, SkipReport, serverVars
<1> QED
  BY <1>1, <1>2, <1>3, <1>5, <1>6 DEF Next, RtspHandleUdpConnect

LEMMA QueueInit == Init => QueueInv
BY DEF Init, QueueInv

\* Only the thread takes datagrams out of the sockets.
LEMMA QueueStep == FramesInv /\ QueueInv /\ [Next]_vars /\ FramesInv' => QueueInv'
<1> SUFFICES ASSUME FramesInv, QueueInv, [Next]_vars, FramesInv'
             PROVE  QueueInv'
  OBVIOUS
<1>0. rtp \in Seq(Packets) /\ rtp' \in Seq(Packets)
  BY DEF FramesInv, StreamInv
<1>1. CASE SendRtp
  <2>1. rtp' # <<>> /\ UNCHANGED <<pc, readfd, rtcp>>
    BY <1>0, <1>1 DEF SendRtp, streamUnchanged
  <2> QED
    BY <1>0, <2>1 DEF QueueInv
<1>2. CASE Mishap
  <2>1. UNCHANGED <<pc, readfd, rtcp>>
    BY <1>2 DEF Mishap, streamUnchanged
  <2>2. rtp # <<>> => rtp' # <<>>
    <3>1. PICK marker \in BOOLEAN :
            \/ rtp' = rtp
            \/ rtp # <<>> /\ rtp' = InsertAt(rtp, Len(rtp), NextPacket(marker))
      BY <1>2 DEF Mishap
    <3>2. NextPacket(marker) \in Packets
      BY <1>2, NextPacketShape DEF Mishap
    <3>3. SUFFICES ASSUME rtp # <<>>, rtp' = InsertAt(rtp, Len(rtp), NextPacket(marker))
                   PROVE  rtp' # <<>>
      BY <3>1
    <3>4. Len(rtp') = Len(rtp) + 1 /\ Len(rtp) \in Nat
      BY <1>0, <3>2, <3>3, InsertedBeforeLast
    <3> QED
      BY <3>4
  <2> QED
    BY <1>0, <2>1, <2>2 DEF QueueInv
<1>3. CASE SendRtcp
  BY <1>3 DEF SendRtcp, QueueInv, serverVars
<1>4. CASE Select
  <2>1. readfd' = Readable /\ UNCHANGED <<rtp, rtcp>>
    BY <1>4 DEF Select
  <2> QED
    BY <2>1, <1>0 DEF Readable, QueueInv
<1>5. CASE ReceiveRtp
  BY <1>0, <1>5 DEF ReceiveRtp, QueueInv
<1>6. CASE SkipRtp \/ Tick \/ ReceiveFails \/ UNCHANGED vars
  BY <1>0, <1>6 DEF SkipRtp, Tick, ReceiveFails, vars, QueueInv
<1>7. CASE ReceiveRtcp \/ SkipRtcp \/ SendReport \/ SkipReport
  <2>1. pc' \in {"select", "report", "ended"}
    BY <1>7 DEF ReceiveRtcp, SkipRtcp, SendReport, SkipReport
  <2> QED
    BY <2>1, <1>0 DEF QueueInv
<1> QED
  BY <1>1, <1>2, <1>3, <1>4, <1>5, <1>6, <1>7 DEF Next, RtspHandleUdpConnect

\* What was read is in the frames and the buffer, in the order of reading.
ArrivedInv == arrived \in Seq(1 .. MaxPackets) /\ Payloads = arrived

LEMMA ArrivedInit == Init => ArrivedInv
<1> SUFFICES ASSUME Init
             PROVE  ArrivedInv
  OBVIOUS
<1>1. Payloads = <<>>
  BY DEF Init, Payloads, FlattenSeq
<1> QED
  BY <1>1 DEF Init, ArrivedInv

\* A packet read is the next payload, whether it ends a frame or not.
LEMMA ReceiveAppends ==
  ASSUME FramesInv, ReceiveRtp, rtp # <<>>
  PROVE  Payloads' = Append(Payloads, Head(rtp).payload) /\ Payloads \in Seq(Nat)
<1> DEFINE p == Head(rtp)
           x == p.payload
           before == FlattenSeq(frames)
<1>1. x \in Nat
  BY DEF FramesInv, StreamInv, Packets
<1>2. framebuf \in Seq(Nat) /\ frames \in Seq(Seq(Nat)) /\ before \in Seq(Nat)
  BY FlattenType DEF FramesInv, FrameInv
<1>3. Assemble(p)
  BY DEF ReceiveRtp
<1>4. /\ Append(framebuf, x) \in Seq(Nat)
      /\ before \o Append(framebuf, x) \in Seq(Nat)
      /\ before \o Append(framebuf, x) = Append(before \o framebuf, x)
      /\ (before \o Append(framebuf, x)) \o <<>> = before \o Append(framebuf, x)
      /\ before \o framebuf \in Seq(Nat)
  <2> HIDE DEF x, before
  <2> QED
    BY <1>1, <1>2
<1>5. CASE CheckRtpHeaderMarker(p)
  <2>1. framebuf' = <<>> /\ frames' = Append(frames, Append(framebuf, x))
    BY <1>3, <1>5 DEF Assemble
  <2>2. FlattenSeq(Append(frames, Append(framebuf, x))) = before \o Append(framebuf, x)
    BY <1>2, <1>4, FlattenAppend
  <2> QED
    BY <1>4, <2>1, <2>2 DEF Payloads
<1>6. CASE ~CheckRtpHeaderMarker(p)
  BY <1>3, <1>4, <1>6 DEF Assemble, Payloads
<1> QED
  BY <1>5, <1>6

\* Only the reading of a packet changes the frames or the buffer, and it adds
\* the packet at their end.
LEMMA ArrivedStep == FramesInv /\ QueueInv /\ ArrivedInv /\ [Next]_vars => ArrivedInv'
<1> SUFFICES ASSUME FramesInv, QueueInv, ArrivedInv, [Next]_vars
             PROVE  ArrivedInv'
  OBVIOUS
<1>1. CASE ReceiveRtp
  <2>1. rtp # <<>>
    BY <1>1 DEF ReceiveRtp, QueueInv
  <2>2. Payloads' = Append(Payloads, Head(rtp).payload)
    BY <1>1, <2>1, ReceiveAppends
  <2>3. arrived' = Append(arrived, Head(rtp).payload)
    BY <1>1 DEF ReceiveRtp
  <2>4. Head(rtp).payload \in 1 .. MaxPackets
    <3>1. Head(rtp) \in Packets
      BY <2>1 DEF FramesInv, StreamInv
    <3> QED
      BY <3>1 DEF Packets
  <2>5. arrived \in Seq(1 .. MaxPackets) /\ Payloads = arrived
    BY DEF ArrivedInv
  <2>6. arrived' \in Seq(1 .. MaxPackets)
    BY <2>3, <2>4, <2>5
  <2> QED
    BY <2>2, <2>3, <2>5, <2>6 DEF ArrivedInv
<1>2. ASSUME UNCHANGED <<framebuf, frames, arrived>>
      PROVE  ArrivedInv'
  BY <1>2 DEF ArrivedInv, Payloads
<1>3. CASE SendRtp \/ Mishap \/ SendRtcp \/ Tick \/ ReceiveFails \/ UNCHANGED vars
  BY <1>2, <1>3 DEF SendRtp, Mishap, SendRtcp, Tick, ReceiveFails, streamUnchanged, vars
<1>4. CASE Select \/ SkipRtp \/ ReceiveRtcp \/ SkipRtcp \/ SendReport \/ SkipReport
  BY <1>2, <1>4 DEF Select, SkipRtp, ReceiveRtcp, SkipRtcp, SendReport, SkipReport
<1> QED
  BY <1>1, <1>3, <1>4 DEF Next, RtspHandleUdpConnect

\* Whatever is lost or overtaken, the frames with the buffer are all that was
\* read, in that order, cut at the markers and nowhere else: a frame holds what
\* was read after the marker before it up to its own (RtspHandleUdpConnect,
\* CheckRtpHeaderMarker).
THEOREM FramesEndAtMarkers == Spec => []FrameEndsAtMarker
<1>1. FramesInv /\ ArrivedInv => FrameEndsAtMarker
  BY DEF FramesInv, FrameInv, ArrivedInv, FrameEndsAtMarker
<1> QED
  BY <1>1, FramesInit, QueueInit, ArrivedInit, FramesStep, QueueStep, ArrivedStep, PTL DEF Spec

-----------------------------------------------------------------------------
(* Nothing is lost while nothing is lost                                   *)

\* While nothing was lost or overtaken the packets in the socket are the last
\* ones of the server, and those before them are in the frames and the buffer.
IntactInv ==
  /\ mishaps \in Nat
  /\ mishaps = 0 =>
       /\ Len(rtp) <= Len(sent)
       /\ \A i \in 1 .. Len(rtp) : rtp[i].payload = Len(sent) - Len(rtp) + i
       /\ FramesIntact

LEMMA IntactInit == Init => IntactInv
<1> SUFFICES ASSUME Init
             PROVE  IntactInv
  OBVIOUS
<1>1. Payloads = <<>>
  BY DEF Init, Payloads, FlattenSeq
<1>2. Len(sent) = 0 /\ Len(rtp) = 0 /\ mishaps = 0
  BY DEF Init
<1>3. <<>> = [i \in 1 .. 0 - 0 |-> i]
  OBVIOUS
<1> QED
  BY <1>1, <1>2, <1>3 DEF IntactInv, FramesIntact

LEMMA IntactStep == FramesInv /\ QueueInv /\ IntactInv /\ [Next]_vars => IntactInv'
<1> SUFFICES ASSUME FramesInv, QueueInv, IntactInv, [Next]_vars
             PROVE  IntactInv'
  OBVIOUS
<1>0. Len(sent) \in Nat /\ Len(rtp) \in Nat
  BY DEF FramesInv, StreamInv
<1>1. CASE SendRtp
  <2>1. PICK marker \in BOOLEAN :
          sent' = Append(sent, NextPacket(marker)) /\ rtp' = Append(rtp, NextPacket(marker))
    BY <1>1 DEF SendRtp
  <2> DEFINE p == NextPacket(marker)
  <2>2. p \in Packets /\ p.payload = Len(sent) + 1
    BY <1>1, NextPacketShape DEF SendRtp
  <2>3. UNCHANGED <<mishaps, Payloads>>
    BY <1>1 DEF SendRtp, streamUnchanged, Payloads
  <2> HIDE DEF p
  <2>4. sent' = Append(sent, p) /\ rtp' = Append(rtp, p)
    BY <2>1 DEF p
  <2>5. /\ Len(sent') = Len(sent) + 1 /\ Len(rtp') = Len(rtp) + 1
        /\ \A i \in 1 .. Len(rtp') : rtp'[i] = IF i <= Len(rtp) THEN rtp[i] ELSE p
    BY <2>2, <2>4 DEF FramesInv, StreamInv
  <2>6. SUFFICES ASSUME mishaps = 0
                 PROVE  /\ Len(rtp') <= Len(sent')
                        /\ \A i \in 1 .. Len(rtp') :
                             rtp'[i].payload = Len(sent') - Len(rtp') + i
                        /\ FramesIntact'
    BY <2>3 DEF IntactInv
  <2>7. Len(sent') - Len(rtp') = Len(sent) - Len(rtp)
    BY <1>0, <2>5
  <2>8. FramesIntact'
    BY <2>3, <2>6, <2>7 DEF IntactInv, FramesIntact
  <2>9. Len(rtp) <= Len(sent) /\ \A i \in 1 .. Len(rtp) : rtp[i].payload = Len(sent) - Len(rtp) + i
    BY <2>6 DEF IntactInv
  <2>10. ASSUME NEW i \in 1 .. Len(rtp')
         PROVE  rtp'[i].payload = Len(sent) - Len(rtp) + i
    <3>1. CASE i <= Len(rtp)
      <4>1. i \in 1 .. Len(rtp) /\ rtp'[i] = rtp[i]
        BY <1>0, <2>5, <3>1
      <4> QED
        BY <2>9, <4>1
    <3>2. CASE ~(i <= Len(rtp))
      <4>1. i = Len(rtp) + 1 /\ rtp'[i] = p
        BY <1>0, <2>5, <3>2
      <4> QED
        BY <1>0, <2>2, <4>1
    <3> QED
      BY <3>1, <3>2
  <2> QED
    BY <1>0, <2>5, <2>7, <2>8, <2>9, <2>10
<1>2. CASE Mishap
  BY <1>2 DEF Mishap, IntactInv, FramesIntact
<1>3. CASE ReceiveRtp
  <2>1. rtp # <<>>
    BY <1>3 DEF ReceiveRtp, QueueInv
  <2>2. UNCHANGED <<sent, mishaps>>
    BY <1>3 DEF ReceiveRtp, serverVars
  <2>3. SUFFICES ASSUME mishaps = 0
                 PROVE  /\ Len(rtp') <= Len(sent')
                        /\ \A i \in 1 .. Len(rtp') :
                             rtp'[i].payload = Len(sent') - Len(rtp') + i
                        /\ FramesIntact'
    BY <2>2 DEF IntactInv
  <2>4. /\ Len(rtp') = Len(rtp) - 1 /\ Len(rtp) > 0
        /\ \A i \in 1 .. Len(rtp') : rtp'[i] = rtp[i + 1] /\ i + 1 \in 1 .. Len(rtp)
        /\ Head(rtp) = rtp[1]
    BY <1>3, <1>0, <2>1 DEF ReceiveRtp, FramesInv, StreamInv
  <2> DEFINE k == Len(sent) - Len(rtp)
  <2>5. k \in Nat /\ Len(sent') - Len(rtp') = k + 1
    BY <1>0, <2>2, <2>3, <2>4 DEF IntactInv
  <2>6. /\ Payloads = [i \in 1 .. k |-> i]
        /\ \A i \in 1 .. Len(rtp) : rtp[i].payload = k + i
    BY <2>3 DEF IntactInv, FramesIntact
  <2>7. Payloads' = Append(Payloads, Head(rtp).payload)
    BY <1>3, <2>1, ReceiveAppends
  <2>8. Head(rtp).payload = k + 1
    BY <1>0, <2>4, <2>6
  <2> HIDE DEF k
  <2>9. Append([i \in 1 .. k |-> i], k + 1) = [i \in 1 .. k + 1 |-> i]
    BY <2>5
  <2>10. FramesIntact'
    BY <2>5, <2>6, <2>7, <2>8, <2>9 DEF FramesIntact
  <2>11. Len(rtp') <= Len(sent')
    BY <1>0, <2>2, <2>4, <2>3 DEF IntactInv
  <2>12. ASSUME NEW i \in 1 .. Len(rtp')
         PROVE  rtp'[i].payload = (k + 1) + i
    <3>1. i + 1 \in 1 .. Len(rtp) /\ rtp'[i] = rtp[i + 1]
      BY <2>4
    <3>2. k + (i + 1) = (k + 1) + i
      BY <2>5
    <3> QED
      BY <2>6, <3>1, <3>2
  <2> QED
    BY <2>5, <2>10, <2>11, <2>12
<1>4. ASSUME UNCHANGED <<sent, rtp, mishaps, framebuf, frames>>
      PROVE  IntactInv'
  BY <1>4 DEF IntactInv, FramesIntact, Payloads
<1>5. CASE SendRtcp \/ Tick \/ ReceiveFails \/ UNCHANGED vars
  BY <1>4, <1>5 DEF SendRtcp, Tick, ReceiveFails, vars, serverVars
<1>6. CASE Select \/ SkipRtp \/ ReceiveRtcp \/ SkipRtcp \/ SendReport \/ SkipReport
  BY <1>4, <1>6 DEF Select, SkipRtp, ReceiveRtcp, SkipRtcp, SendReport, SkipReport, serverVars
<1> QED
  BY <1>1, <1>2, <1>3, <1>5, <1>6 DEF Next, RtspHandleUdpConnect

\* While nothing is lost or overtaken, what is read is handed over whole and in
\* the order of sending (RtspHandleUdpConnect, ParseRtp).
THEOREM FramesAreIntact == Spec => []FramesIntact
<1>1. IntactInv => FramesIntact
  BY DEF IntactInv, FramesIntact
<1> QED
  BY <1>1, FramesInit, QueueInit, IntactInit, FramesStep, QueueStep, IntactStep, PTL DEF Spec

-----------------------------------------------------------------------------
(* The highest sequence number                                             *)

\* The code's maximum is a number it heard and none is higher.
HighestInv ==
  /\ DOMAIN stats = StatFields
  /\ stats.highest \in Nat
  /\ heard \subseteq Nat
  /\ (\A n \in heard : BelowSign(n)) =>
       IF heard = {} THEN stats.highest = 0
       ELSE stats.highest \in heard /\ \A k \in heard : k <= stats.highest

\* Two bytes without their high bit are read as the number they were written for.
LEMMA ReadBelowSign ==
  ASSUME NEW p \in Packets
  PROVE  /\ SentSeq(p) \in Nat /\ ParseSeq(p) \in Nat
         /\ BelowSign(SentSeq(p)) => ParseSeq(p) = SentSeq(p)
<1> DEFINE hi == p.hi
           lo == p.lo
           seq == hi * Byte + lo
<1>1. hi \in Bytes /\ lo \in Bytes
  BY DEF Packets
<1>2. Byte \in Nat /\ Byte > 2
  BY ByteAssumption
<1> HIDE DEF hi, lo
<1>3. hi \in 0 .. Byte - 1 /\ lo \in 0 .. Byte - 1
  BY <1>1 DEF Bytes
<1>4. hi * Byte \in Nat /\ hi * Byte <= (Byte - 1) * Byte /\ (Byte - 1) * Byte = Byte * Byte - Byte
  BY <1>2, <1>3
<1>5. seq \in Nat /\ seq < Byte * Byte /\ Byte * Byte \in Nat /\ Byte * Byte > 0
  BY <1>2, <1>3, <1>4
<1>6. seq \div Byte = hi /\ seq % Byte = lo
  <2>1. /\ seq \div Byte \in Bytes /\ seq % Byte \in Bytes
        /\ (seq \div Byte) * Byte + (seq % Byte) = seq
    BY <1>5, SplitFits
  <2> DEFINE q == seq \div Byte
             r == seq % Byte
  <2> HIDE DEF q, r
  <2>2. q \in Nat /\ r \in 0 .. Byte - 1 /\ q * Byte + r = hi * Byte + lo
    BY <1>2, <2>1 DEF Bytes, q, r
  <2>3. (q - hi) * Byte = lo - r
    BY <1>2, <1>3, <2>2
  <2>4. q - hi = 0
    <3>1. CASE q - hi >= 1
      <4>1. (q - hi) * Byte >= Byte
        BY <1>2, <1>3, <2>2, <3>1
      <4> QED
        BY <1>2, <1>3, <2>2, <2>3, <4>1
    <3>2. CASE q - hi <= -1
      <4>1. (q - hi) * Byte <= -Byte
        BY <1>2, <1>3, <2>2, <3>2
      <4> QED
        BY <1>2, <1>3, <2>2, <2>3, <4>1
    <3> QED
      BY <1>3, <2>2, <3>1, <3>2
  <2>5. q = hi
    BY <1>3, <2>2, <2>4
  <2>6. q * Byte = hi * Byte /\ r = lo
    BY <1>3, <1>4, <2>2, <2>5
  <2> QED
    BY <2>5, <2>6 DEF q, r
<1>7. SentSeq(p) = seq
  BY DEF SentSeq, hi, lo
<1> HIDE DEF seq
<1>8. ASSUME BelowSign(seq)
      PROVE  ParseSeq(p) = seq
  <2>1. 2 * hi < Byte /\ 2 * lo < Byte
    BY <1>6, <1>8 DEF BelowSign
  <2>2. Signed(hi) = hi /\ Signed(lo) = lo
    BY <1>2, <1>3, <2>1 DEF Signed
  <2>3. ParseSeq(p) = seq % (Byte * Byte)
    BY <2>2 DEF ParseSeq, seq, hi, lo
  <2>4. \A n \in Nat, w \in Nat : n < w => n % w = n
    OBVIOUS
  <2> QED
    BY <1>5, <2>3, <2>4
<1>9. ParseSeq(p) \in Nat
  <2>1. Signed(hi) * Byte + Signed(lo) \in Int
    BY <1>2, <1>3 DEF Signed
  <2>2. \A n \in Int, w \in Nat : w > 0 => n % w \in Nat
    OBVIOUS
  <2> QED
    BY <1>5, <2>1, <2>2 DEF ParseSeq, hi, lo
<1> QED
  BY <1>5, <1>7, <1>8, <1>9

LEMMA HighestInit == Init => HighestInv
BY DEF Init, HighestInv, NoStats, StatFields

LEMMA HighestStep == FramesInv /\ QueueInv /\ HighestInv /\ [Next]_vars => HighestInv'
<1> SUFFICES ASSUME FramesInv, QueueInv, HighestInv, [Next]_vars
             PROVE  HighestInv'
  OBVIOUS
<1>1. ASSUME UNCHANGED heard, DOMAIN stats' = StatFields, stats'.highest = stats.highest
      PROVE  HighestInv'
  BY <1>1 DEF HighestInv
<1>2. CASE SendRtp \/ Mishap \/ SendRtcp \/ Tick \/ ReceiveFails \/ UNCHANGED vars
  BY <1>1, <1>2 DEF HighestInv, SendRtp, Mishap, SendRtcp, Tick, ReceiveFails, vars,
                    streamUnchanged
<1>3. CASE Select \/ SkipRtp \/ SkipRtcp \/ SkipReport
  BY <1>1, <1>3 DEF HighestInv, Select, SkipRtp, SkipRtcp, SkipReport
<1>4. CASE ReceiveRtp
  <2> DEFINE p == Head(rtp)
             sequence == ParseSeq(p)
  <2>1. p \in Packets
    BY <1>4 DEF ReceiveRtp, QueueInv, FramesInv, StreamInv
  <2>2. /\ stats' = UpdateRtpStats(stats, sequence, now)
        /\ heard' = heard \union {SentSeq(p)}
    BY <1>4 DEF ReceiveRtp
  <2>3. /\ SentSeq(p) \in Nat /\ sequence \in Nat
        /\ BelowSign(SentSeq(p)) => sequence = SentSeq(p)
    BY <2>1, ReadBelowSign
  <2> HIDE DEF p, sequence
  <2>4. /\ DOMAIN stats' = StatFields
        /\ stats'.highest = IF sequence > stats.highest THEN sequence ELSE stats.highest
    BY <2>2 DEF UpdateRtpStats, HighestInv, StatFields
  <2>5. ASSUME \A n \in heard' : BelowSign(n)
        PROVE  stats'.highest \in heard' /\ \A k \in heard' : k <= stats'.highest
    <3>1. sequence = SentSeq(p)
      BY <2>2, <2>3, <2>5
    <3>2. IF heard = {} THEN stats.highest = 0
          ELSE stats.highest \in heard /\ \A k \in heard : k <= stats.highest
      BY <2>2, <2>5 DEF HighestInv
    <3>3. stats.highest \in Nat /\ heard \subseteq Nat
      BY DEF HighestInv
    <3> QED
      BY <2>2, <2>3, <2>4, <3>1, <3>2, <3>3
  <2> QED
    BY <2>2, <2>3, <2>4, <2>5 DEF HighestInv
<1>5. CASE ReceiveRtcp
  BY <1>1, <1>5 DEF ReceiveRtcp, ParseRtcpStats, ParseSenderReport, HighestInv, StatFields
<1>6. CASE SendReport
  BY <1>1, <1>6 DEF SendReport, ReportStats, HighestInv, StatFields
<1> QED
  BY <1>2, <1>3, <1>4, <1>5, <1>6 DEF Next, RtspHandleUdpConnect

\* As long as no byte of a sequence number has its high bit set, the highest
\* sequence number is that of the packets heard, in whatever order they came
\* (UpdateRtpStats, ParseSeq).
THEOREM HighestIsExactBelowSign == Spec => []HighestExactBelowSign
<1>1. HighestInv => HighestExactBelowSign
  <2> SUFFICES ASSUME HighestInv, heard # {}, \A n \in heard : BelowSign(n)
               PROVE  stats.highest = MaxHeard
    BY DEF HighestExactBelowSign
  <2>1. stats.highest \in heard /\ \A k \in heard : k <= stats.highest
    BY DEF HighestInv
  <2>2. MaxHeard \in heard /\ \A k \in heard : k <= MaxHeard
    BY <2>1 DEF MaxHeard
  <2> QED
    BY <2>1, <2>2 DEF HighestInv
<1> QED
  BY <1>1, FramesInit, QueueInit, HighestInit, FramesStep, QueueStep, HighestStep, PTL
     DEF Spec

-----------------------------------------------------------------------------
(* Types                                                                   *)

Places == {"select", "rtp", "rtcp", "report", "ended"}

\* What TypeOK says beside the frames; the packets counted were sent, and the
\* first sequence number is not above the highest, so that the difference the
\* report calls lost stays in range.
RangeInv ==
  /\ now \in 1 .. MaxTime /\ rtcptv \in 1 .. now
  /\ mishaps \in 0 .. MaxMishaps
  /\ rtcp \in Seq(Datagrams) /\ rtcpSent \in 0 .. MaxRtcp
  /\ times \in 0 .. 2 /\ pc \in Places
  /\ readfd \subseteq {"rtp", "rtcp"} /\ writefd \subseteq {"rtp", "rtcp"}
  /\ DOMAIN stats = StatFields
  /\ {stats.highest, stats.first, stats.lost} \subseteq 0 .. Byte * Byte - 1
  /\ stats.first <= stats.highest
  /\ stats.received \in Nat /\ stats.received + Len(rtp) <= Len(sent)
  /\ stats.srTs \in 0 .. MaxRtcp

LEMMA WordIsPositive == Byte * Byte \in Nat /\ Byte * Byte > 0
<1>1. Byte \in Nat /\ Byte > 2
  BY ByteAssumption
<1>2. Byte * Byte \in Nat /\ Byte * Byte >= Byte
  BY <1>1
<1> QED
  BY <1>1, <1>2

LEMMA ParseSeqInRange ==
  ASSUME NEW p \in Packets
  PROVE  ParseSeq(p) \in 0 .. Byte * Byte - 1
<1>1. p.hi \in Bytes /\ p.lo \in Bytes
  BY DEF Packets
<1>2. Signed(p.hi) \in Int /\ Signed(p.lo) \in Int /\ Byte \in Int
  BY <1>1, ByteAssumption DEF Signed, Bytes
<1>3. Signed(p.hi) * Byte + Signed(p.lo) \in Int
  BY <1>2
<1>4. \A n \in Int, w \in Nat : w > 0 => n % w \in 0 .. w - 1
  OBVIOUS
<1> QED
  BY <1>3, <1>4, WordIsPositive DEF ParseSeq

LEMMA RangeInit == Init => RangeInv
<1> SUFFICES ASSUME Init
             PROVE  RangeInv
  OBVIOUS
<1>1. /\ DOMAIN stats = StatFields
      /\ stats.highest = 0 /\ stats.first = 0 /\ stats.lost = 0 /\ stats.received = 0
      /\ stats.srTs = 0
  BY DEF Init, NoStats, StatFields
<1>2. 0 \in 0 .. Byte * Byte - 1
  BY WordIsPositive
<1> QED
  BY <1>1, <1>2, StreamAssumption DEF Init, RangeInv, Places

LEMMA RangeStep == FramesInv /\ QueueInv /\ RangeInv /\ [Next]_vars => RangeInv'
<1> SUFFICES ASSUME FramesInv, QueueInv, RangeInv, [Next]_vars
             PROVE  RangeInv'
  OBVIOUS
<1>0. /\ Len(sent) \in Nat /\ Len(rtp) \in Nat
      /\ sent \in Seq(Packets) /\ rtp \in Seq(Packets)
  BY DEF FramesInv, StreamInv
<1>1. CASE SendRtp
  <2>1. PICK p \in Packets : sent' = Append(sent, p) /\ rtp' = Append(rtp, p)
    BY <1>1, NextPacketShape DEF SendRtp
  <2>2. Len(sent') = Len(sent) + 1 /\ Len(rtp') = Len(rtp) + 1
    BY <1>0, <2>1
  <2> QED
    BY <1>0, <1>1, <2>2 DEF SendRtp, streamUnchanged, RangeInv
<1>2. CASE Mishap
  <2>1. PICK p \in Packets :
          /\ sent' = Append(sent, p)
          /\ rtp' = rtp \/ (rtp # <<>> /\ rtp' = InsertAt(rtp, Len(rtp), p))
    BY <1>2, NextPacketShape DEF Mishap
  <2>2. rtp # <<>> => Len(InsertAt(rtp, Len(rtp), p)) = Len(rtp) + 1
    BY <1>0, InsertedBeforeLast
  <2>3. Len(sent') = Len(sent) + 1 /\ (Len(rtp') = Len(rtp) \/ Len(rtp') = Len(rtp) + 1)
    BY <1>0, <2>1, <2>2
  <2>4. mishaps' \in 0 .. MaxMishaps
    BY <1>2, StreamAssumption DEF Mishap, RangeInv
  <2>5. stats' = stats /\ stats'.received + Len(rtp') <= Len(sent')
    BY <1>0, <1>2, <2>3 DEF Mishap, streamUnchanged, RangeInv
  <2> QED
    BY <1>2, <2>4, <2>5 DEF Mishap, streamUnchanged, RangeInv
<1>3. CASE SendRtcp
  <2>1. rtcpSent + 1 \in 1 .. MaxRtcp
    BY <1>3, StreamAssumption DEF SendRtcp, RangeInv
  <2>2. rtcp' \in Seq(Datagrams)
    BY <1>3, <2>1 DEF SendRtcp, RangeInv, Datagrams
  <2> QED
    BY <1>3, <2>1, <2>2 DEF SendRtcp, RangeInv
<1>4. CASE Tick
  BY <1>4, StreamAssumption DEF Tick, serverVars, RangeInv
<1>5. CASE Select
  BY <1>5 DEF Select, serverVars, RangeInv, Readable, Writable, Places
<1>6. CASE ReceiveRtp
  <2> DEFINE p == Head(rtp)
             sequence == ParseSeq(p)
  <2>1. rtp # <<>> /\ p \in Packets /\ Len(rtp') = Len(rtp) - 1
    BY <1>0, <1>6 DEF ReceiveRtp, QueueInv
  <2>2. sequence \in 0 .. Byte * Byte - 1
    BY <2>1, ParseSeqInRange
  <2>3. stats' = UpdateRtpStats(stats, sequence, now)
    BY <1>6 DEF ReceiveRtp
  <2> HIDE DEF p, sequence
  <2>4. /\ DOMAIN stats' = StatFields
        /\ stats'.highest = IF sequence > stats.highest THEN sequence ELSE stats.highest
        /\ stats'.first = IF stats.lastRcv = 0 THEN sequence ELSE stats.first
        /\ stats'.lost = stats.lost /\ stats'.srTs = stats.srTs
        /\ stats'.received = stats.received + 1
    BY <2>3 DEF UpdateRtpStats, RangeInv, StatFields
  <2>5. /\ {stats'.highest, stats'.first, stats'.lost} \subseteq 0 .. Byte * Byte - 1
        /\ stats'.first <= stats'.highest
    <3> DEFINE top == Byte * Byte - 1
    <3>1. top \in Nat
      BY WordIsPositive
    <3>2. /\ sequence \in 0 .. top
          /\ {stats.highest, stats.first, stats.lost} \subseteq 0 .. top
          /\ stats.first <= stats.highest
      BY <2>2 DEF RangeInv
    <3> HIDE DEF top
    <3>3. {stats'.highest, stats'.first, stats'.lost} \subseteq 0 .. top
      BY <2>4, <3>1, <3>2
    <3>4. stats'.first <= stats'.highest
      BY <2>4, <3>1, <3>2
    <3> QED
      BY <3>3, <3>4 DEF top
  <2>6. stats'.received \in Nat /\ stats'.received + Len(rtp') <= Len(sent)
    BY <1>0, <2>1, <2>4 DEF RangeInv
  <2> QED
    BY <1>6, <2>4, <2>5, <2>6 DEF ReceiveRtp, serverVars, RangeInv, Places
<1>7. CASE ReceiveRtcp
  <2> DEFINE d == Head(rtcp)
  <2>1. rtcp # <<>>
    BY <1>7 DEF ReceiveRtcp, QueueInv
  <2>2. d \in Datagrams /\ rtcp' \in Seq(Datagrams)
    BY <1>7, <2>1, HeadTailProperties DEF ReceiveRtcp, RangeInv
  <2>3. /\ stats' = ParseRtcpStats(stats, d, now)
        /\ rtcptv' = rtcptv \/ rtcptv' = now
        /\ pc' \in Places
        /\ UNCHANGED <<now, serverVars, rtp, times, readfd, writefd>>
    BY <1>7 DEF ReceiveRtcp, Places
  <2> HIDE DEF d
  <2>4. /\ DOMAIN stats' = StatFields
        /\ stats'.highest = stats.highest /\ stats'.first = stats.first
        /\ stats'.lost = stats.lost /\ stats'.received = stats.received
        /\ stats'.srTs = d.ts \/ stats'.srTs = stats.srTs
    BY <2>3 DEF ParseRtcpStats, ParseSenderReport, RangeInv, StatFields
  <2>5. d.ts \in 0 .. MaxRtcp
    BY <2>2, StreamAssumption DEF Datagrams
  <2>6. /\ {stats'.highest, stats'.first, stats'.lost} \subseteq 0 .. Byte * Byte - 1
        /\ stats'.first <= stats'.highest
        /\ stats'.received \in Nat /\ stats'.received + Len(rtp) <= Len(sent)
        /\ stats'.srTs \in 0 .. MaxRtcp
    BY <2>4, <2>5 DEF RangeInv
  <2>7. now' \in 1 .. MaxTime /\ rtcptv' \in 1 .. now'
    BY <2>3, StreamAssumption DEF RangeInv
  <2> QED
    BY <2>2, <2>3, <2>4, <2>6, <2>7 DEF RangeInv, serverVars
<1>8. CASE SendReport
  <2>1. /\ DOMAIN stats' = StatFields
        /\ stats'.highest = stats.highest /\ stats'.first = stats.first
        /\ stats'.received = stats.received /\ stats'.srTs = stats.srTs
        /\ stats'.lost = (stats.received + stats.highest - stats.first + 1)
                          - stats.received - 1
    BY <1>8 DEF SendReport, ReportStats, RangeInv, StatFields
  <2>2. stats'.lost = stats.highest - stats.first
    BY <2>1, WordIsPositive DEF RangeInv
  <2>3. stats'.lost \in 0 .. Byte * Byte - 1
    BY <2>2, WordIsPositive DEF RangeInv
  <2>4. UNCHANGED <<now, serverVars, rtp, rtcp, times, readfd, writefd>> /\ rtcptv' = now
        /\ pc' \in Places
    BY <1>8 DEF SendReport, Places
  <2> QED
    BY <2>1, <2>3, <2>4 DEF RangeInv, serverVars
<1>9. CASE ReceiveFails \/ UNCHANGED vars
  BY <1>9 DEF ReceiveFails, vars, serverVars, RangeInv, Places
<1>10. CASE SkipRtp \/ SkipRtcp \/ SkipReport
  BY <1>10 DEF SkipRtp, SkipRtcp, SkipReport, serverVars, RangeInv, Places
<1> QED
  BY <1>1, <1>2, <1>3, <1>4, <1>5, <1>6, <1>7, <1>8, <1>9, <1>10
     DEF Next, RtspHandleUdpConnect

\* The counters of the receiver stay in range: in particular the packets a
\* report calls lost are never negative, and none is counted that was not sent
\* (UpdateRtpStats, RtcpReceiveReport).
THEOREM ReceiverTypes == Spec => []TypeOK
<1>1. FramesInv /\ RangeInv /\ ArrivedInv => TypeOK
  <2> SUFFICES ASSUME FramesInv, RangeInv, ArrivedInv
               PROVE  TypeOK
    OBVIOUS
  <2>1. \A n \in 1 .. Len(sent) : n \in 1 .. MaxPackets
    BY StreamAssumption DEF FramesInv, StreamInv
  <2>2. ASSUME NEW s \in Seq(Nat), \A i \in 1 .. Len(s) : s[i] \in 1 .. Len(sent)
        PROVE  s \in Seq(1 .. MaxPackets)
    <3> DEFINE T == 1 .. MaxPackets
    <3>1. \E n \in Nat : s \in [1 .. n -> T]
      BY <2>1, <2>2
    <3> HIDE DEF T
    <3>2. s \in Seq(T)
      BY <3>1, SeqDef
    <3> QED
      BY <3>2 DEF T
  <2>3. framebuf \in Seq(1 .. MaxPackets)
    BY <2>2 DEF FramesInv, FrameInv
  <2>4. ASSUME NEW i \in 1 .. Len(frames)
        PROVE  frames[i] \in Seq(1 .. MaxPackets)
    <3>1. frames[i] \in Seq(Nat)
      BY DEF FramesInv, FrameInv
    <3>2. \A j \in 1 .. Len(frames[i]) : frames[i][j] \in 1 .. Len(sent)
      BY DEF FramesInv, FrameInv
    <3> QED
      BY <3>1, <3>2, <2>2
  <2>5. stats.received \in 0 .. MaxPackets
    BY StreamAssumption DEF FramesInv, StreamInv, RangeInv
  <2> QED
    BY <2>3, <2>4, <2>5 DEF TypeOK, FramesInv, StreamInv, RangeInv, Places, ArrivedInv
<1> QED
  BY <1>1, FramesInit, QueueInit, RangeInit, ArrivedInit, FramesStep, QueueStep, RangeStep,
     ArrivedStep, PTL DEF Spec

-----------------------------------------------------------------------------
(* Reports                                                                 *)

RtcpShape == [parts : Parts, ts : Nat]

\* The statistics remember the last complete sender report, and rtcptv is no
\* older than the last receiver report.
ReportsInv ==
  /\ now \in Nat /\ rtcptv \in Nat /\ rtcptv <= now
  /\ report.at \in Nat /\ report.at <= rtcptv
  /\ rtcpSent \in Nat
  /\ rtcp \in Seq(RtcpShape)
  /\ DOMAIN stats = StatFields
  /\ lastSr.ts \in Nat
  /\ stats.srTs = lastSr.ts
  /\ lastSr.ts # 0 => stats.srTime = lastSr.at

LEMMA ReportsInit == Init => ReportsInv
BY DEF Init, ReportsInv, NoReport, NoStats, StatFields

\* A sender report is taken from the first part of a datagram or not at all:
\* servers that send one begin with it, unless a BYE does.
LEMMA SenderReportTaken ==
  ASSUME NEW d \in RtcpShape, NEW old, NEW time, DOMAIN old = StatFields
  PROVE  LET new == ParseRtcpStats(old, d, time)
         IN  /\ DOMAIN new = StatFields
             /\ IF Len(d.parts) > 0 /\ d.parts[1] = "SR"
                THEN new.srTs = d.ts /\ new.srTime = time
                ELSE new = old
<1>1. (\E i \in 1 .. Len(d.parts) :
         d.parts[i] = "SR" /\ \A j \in 1 .. i : d.parts[j] # "BYE")
      <=> Len(d.parts) > 0 /\ d.parts[1] = "SR"
  BY DEF Parts, RtcpShape
<1> QED
  BY <1>1 DEF ParseRtcpStats, ParseSenderReport, StatFields, RtcpShape

LEMMA ReportsStep == ReportsInv /\ QueueInv /\ [Next]_vars => ReportsInv'
<1> SUFFICES ASSUME ReportsInv, QueueInv, [Next]_vars
             PROVE  ReportsInv'
  OBVIOUS
<1>1. ASSUME UNCHANGED <<now, rtcp, rtcpSent, stats, rtcptv, report, lastSr>>
      PROVE  ReportsInv'
  BY <1>1 DEF ReportsInv
<1>2. CASE SendRtp \/ Mishap \/ ReceiveFails \/ UNCHANGED vars
  BY <1>1, <1>2 DEF SendRtp, Mishap, ReceiveFails, vars, serverVars, streamUnchanged
<1>3. CASE Select \/ SkipRtp \/ SkipRtcp \/ SkipReport
  BY <1>1, <1>3 DEF Select, SkipRtp, SkipRtcp, SkipReport, serverVars
<1>4. CASE Tick
  BY <1>4 DEF Tick, ReportsInv, serverVars
<1>5. CASE SendRtcp
  BY <1>5 DEF SendRtcp, ReportsInv, RtcpShape
<1>6. CASE ReceiveRtp
  <2>1. /\ DOMAIN stats' = StatFields
        /\ stats'.srTs = stats.srTs /\ stats'.srTime = stats.srTime
    BY <1>6 DEF ReceiveRtp, UpdateRtpStats, ReportsInv, StatFields
  <2> QED
    BY <1>6, <2>1 DEF ReceiveRtp, ReportsInv, serverVars
<1>7. CASE ReceiveRtcp
  <2> DEFINE d == Head(rtcp)
  <2>1. rtcp # <<>>
    BY <1>7 DEF ReceiveRtcp, QueueInv
  <2>2. d \in RtcpShape /\ rtcp' \in Seq(RtcpShape)
    BY <1>7, <2>1, HeadTailProperties DEF ReceiveRtcp, ReportsInv
  <2>3. /\ stats' = ParseRtcpStats(stats, d, now)
        /\ lastSr' = IF Len(d.parts) > 0 /\ d.parts[1] = "SR"
                     THEN [ts |-> d.ts, at |-> now] ELSE lastSr
        /\ rtcptv' = rtcptv \/ rtcptv' = now
        /\ UNCHANGED <<now, report, rtcpSent>>
    BY <1>7 DEF ReceiveRtcp, serverVars
  <2> HIDE DEF d
  <2>4. /\ DOMAIN stats' = StatFields
        /\ IF Len(d.parts) > 0 /\ d.parts[1] = "SR"
           THEN stats'.srTs = d.ts /\ stats'.srTime = now
           ELSE stats' = stats
    BY <2>2, <2>3, SenderReportTaken DEF ReportsInv
  <2>5. /\ lastSr'.ts \in Nat /\ stats'.srTs = lastSr'.ts
        /\ lastSr'.ts # 0 => stats'.srTime = lastSr'.at
    BY <2>2, <2>3, <2>4 DEF ReportsInv, RtcpShape
  <2> QED
    BY <2>2, <2>3, <2>4, <2>5 DEF ReportsInv
<1>8. CASE SendReport
  <2>1. /\ DOMAIN stats' = StatFields
        /\ stats'.srTs = stats.srTs /\ stats'.srTime = stats.srTime
    BY <1>8 DEF SendReport, ReportStats, ReportsInv, StatFields
  <2>2. report'.at = now /\ rtcptv' = now /\ UNCHANGED <<now, rtcp, rtcpSent, lastSr>>
    BY <1>8 DEF SendReport, RtcpReceiveReport, serverVars
  <2> QED
    BY <2>1, <2>2 DEF ReportsInv
<1> QED
  BY <1>2, <1>3, <1>4, <1>5, <1>6, <1>7, <1>8 DEF Next, RtspHandleUdpConnect

\* A report changes only when one is sent.
LEMMA ReportIsSent == [Next]_vars /\ report' # report => SendReport
BY DEF Next, RtspHandleUdpConnect, SendRtp, Mishap, SendRtcp, Tick, Select, ReceiveRtp,
       ReceiveFails, SkipRtp, ReceiveRtcp, SkipRtcp, SkipReport, streamUnchanged, vars

\* The states of every behaviour.
LEMMA ReceiverInvariant == Spec => [](FramesInv /\ QueueInv /\ ReportsInv)
BY FramesInit, QueueInit, ReportsInit, FramesStep, QueueStep, ReportsStep, PTL DEF Spec

\* Whatever RTCP comes in between, two receiver reports are more than two
\* seconds apart (rtcptv).
THEOREM ReportsAreSpaced == Spec => ReportsSpaced
<1>1. ReportsInv /\ [Next]_vars
        => [report' # report /\ report.at # 0 => now - report.at > 4]_vars
  <2> SUFFICES ASSUME ReportsInv, [Next]_vars, report' # report
               PROVE  now - report.at > 4
    OBVIOUS
  <2>1. Overdue
    BY ReportIsSent DEF SendReport
  <2>2. now \in Nat /\ rtcptv \in Nat /\ report.at \in Nat /\ report.at <= rtcptv
    BY DEF ReportsInv
  <2>3. now - rtcptv > 4
    BY <2>1, <2>2 DEF Overdue, Sec
  <2> QED
    BY <2>2, <2>3
<1> QED
  BY <1>1, ReceiverInvariant, PTL DEF Spec, ReportsSpaced

\* The delay of a report is the time since the sender report it names
\* (ParseSenderReport, RtcpReceiveReport).
THEOREM DelaysMatchReports == Spec => DelayMatchesReport
<1>1. ReportsInv /\ [Next]_vars
        => [report' # report
              => /\ report'.lsr = lastSr.ts
                 /\ lastSr.ts # 0 => report'.dlsr = now - lastSr.at]_vars
  <2> SUFFICES ASSUME ReportsInv, [Next]_vars, report' # report
               PROVE  /\ report'.lsr = lastSr.ts
                      /\ lastSr.ts # 0 => report'.dlsr = now - lastSr.at
    OBVIOUS
  <2>1. report' = RtcpReceiveReport(stats, now)
    BY ReportIsSent DEF SendReport
  <2>2. report'.lsr = ReportStats(stats, now).srTs /\ report'.dlsr = ReportStats(stats, now).dlsr
    BY <2>1 DEF RtcpReceiveReport
  <2>3. /\ ReportStats(stats, now).srTs = stats.srTs
        /\ stats.srTs # 0 => ReportStats(stats, now).dlsr = now - stats.srTime
    BY DEF ReportStats, ReportsInv, StatFields
  <2> QED
    BY <2>2, <2>3 DEF ReportsInv
<1> QED
  BY <1>1, ReceiverInvariant, PTL DEF Spec, DelayMatchesReport
=============================================================================
