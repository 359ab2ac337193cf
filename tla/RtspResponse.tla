---------------------------- MODULE RtspResponse ----------------------------
(***************************************************************************)
(* How RtspReceiveResponse cuts replies out of the TCP stream.  It calls   *)
(* recv once, looks for the empty line and for Content-Length in what came,*)
(* and calls recv at most once more, for the bytes of the body it believes *)
(* to be outstanding.  TCP may cut the stream anywhere; what one exchange  *)
(* leaves unread is what the next exchange finds first.                    *)
(*                                                                         *)
(* A reply is a sequence of units: the status line, a Content-Length line  *)
(* when it has a body, the empty line, and the units of the body.  A cut   *)
(* inside a line is not modelled, nor a reply larger than the buffer.      *)
(***************************************************************************)
EXTENDS Integers, Sequences, SequencesExt

CONSTANTS
  MaxExchanges,  \* bound on the request/reply exchanges of a run
  Bodies,        \* lengths of the bodies the server may send
  SizeMod        \* values of the size passed to recv: 2^32 for uint32_t

ASSUME BoundAssumption ==
  /\ MaxExchanges \in Nat
  /\ Bodies \subseteq Nat
  /\ SizeMod \in Nat \ {0} /\ \A b \in Bodies : b + 3 < SizeMod

VARIABLES
  stream,    \* units the server sent and the client has not read
  pc,        \* "idle", "first" or "second": the recv the client waits in
  buf,       \* bctrl->buffer
  offset,    \* bctrl->offset, kept from one exchange to the next
  want,      \* size passed to the second recv
  exchange,  \* number of the present or last exchange
  acted,     \* exchange whose status line the reply began with; 0 for none
  whole      \* so far each header came in one recv and each body ended in the
             \* next: the cuts RtspReceiveResponse is written for

vars == <<stream, pc, buf, offset, want, exchange, acted, whole>>

Unit(m, p, n) == [msg |-> m, part |-> p, len |-> n]

\* The reply of exchange m with b units of body; the Content-Length line
\* carries b.
Reply(m, b) ==
  <<Unit(m, "status", 0)>>
  \o (IF b > 0 THEN <<Unit(m, "clen", b)>> ELSE <<>>)
  \o <<Unit(m, "empty", 0)>>
  \o [i \in 1 .. b |-> Unit(m, "body", 0)]

\* strstr: the first unit of a kind, 0 when there is none.
FirstOf(s, p) == SelectInSeq(s, LAMBDA u : u.part = p)

\* The offset of the empty line itself instead of what follows it.
SeperatorStart(s) ==
  IF FirstOf(s, "empty") > 0 THEN FirstOf(s, "empty") - 1 ELSE offset

\* Behind the empty line; without one the offset of an earlier reply stays.
GetSeperator(s) == IF FirstOf(s, "empty") > 0 THEN FirstOf(s, "empty") ELSE offset

GetContentLength(s) ==
  IF FirstOf(s, "clen") > 0 THEN s[FirstOf(s, "clen")].len ELSE 0

\* The whole body asked for again.
OutstandingIsAll(n, off, contentlen) == contentlen

\* The difference not converted to the unsigned size: negative when more than
\* the body came.
OutstandingSigned(n, off, contentlen) == contentlen - (n - off)

\* contentlen-(num-bctrl->offset), an int subtracted from a uint32_t.
Outstanding(n, off, contentlen) == (contentlen - (n - off)) % SizeMod

TypeOK ==
  /\ \A i \in 1 .. Len(stream) : stream[i].msg \in 1 .. exchange
  /\ \A i \in 1 .. Len(buf) : buf[i].msg \in 1 .. exchange
  /\ pc \in {"idle", "first", "second"}
  /\ offset \in Nat
  /\ want \in 0 .. SizeMod - 1
  /\ exchange \in 0 .. MaxExchanges
  /\ acted \in 0 .. exchange
  /\ whole \in BOOLEAN

Init ==
  /\ stream = <<>>
  /\ pc = "idle"
  /\ buf = <<>>
  /\ offset = 0
  /\ want = 0
  /\ exchange = 0
  /\ acted = 0
  /\ whole = TRUE

\* A command is sent, the buffer is cleared, the server answers.
Exchange ==
  /\ pc = "idle"
  /\ exchange < MaxExchanges
  /\ exchange' = exchange + 1
  /\ \E b \in Bodies : stream' = stream \o Reply(exchange + 1, b)
  /\ buf' = <<>>
  /\ acted' = 0
  /\ pc' = "first"
  /\ UNCHANGED <<offset, want, whole>>

\* RtspReceiveResponse returns: the handler looks at the start of the buffer.
Return(s) ==
  /\ pc' = "idle"
  /\ acted' = IF s[1].part = "status" THEN s[1].msg ELSE 0

\* recv with the whole buffer as its size returns any part of what is there.
FirstRecv ==
  /\ pc = "first"
  /\ \E n \in 1 .. Len(stream) :
       LET got == SubSeq(stream, 1, n)
           off == GetSeperator(got)
           contentlen == GetContentLength(got)
       IN /\ buf' = got
          /\ stream' = SubSeq(stream, n + 1, Len(stream))
          /\ offset' = off
          /\ whole' = (whole /\ FirstOf(got, "empty") > 0)
          /\ IF contentlen = 0 \/ n - off = contentlen
             THEN Return(got) /\ UNCHANGED want
             ELSE /\ pc' = "second"
                  /\ want' = Outstanding(n, off, contentlen)
                  /\ UNCHANGED acted
  /\ UNCHANGED exchange

\* The second and last recv; what it does not bring stays in the stream.
SecondRecv ==
  /\ pc = "second"
  /\ \E n \in 1 .. Len(stream) :
       /\ n <= want
       /\ buf' = buf \o SubSeq(stream, 1, n)
       /\ stream' = SubSeq(stream, n + 1, Len(stream))
       /\ whole' = (whole /\ n = want)
  /\ Return(buf)
  /\ UNCHANGED <<offset, want, exchange>>

Next == Exchange \/ FirstRecv \/ SecondRecv

Spec == Init /\ [][Next]_vars

\* As long as headers come whole and a body in at most two pieces, every
\* exchange acts on the reply to its own request and leaves the stream empty
\* for the next one, whatever the lengths: the offset kept in bctrl between
\* exchanges does no harm.
InStep ==
  whole /\ pc = "idle" /\ exchange > 0 => acted = exchange /\ stream = <<>>

\* Under the same cuts the second recv asks for what is on its way and no
\* more: it never waits for bytes the server will not send, and never eats
\* into a later reply.
AsksForTheRest == whole /\ pc = "second" => want = Len(stream) /\ want > 0
=============================================================================
