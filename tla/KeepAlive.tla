------------------------------ MODULE KeepAlive ------------------------------
(***************************************************************************)
(* When the client sends keep-alives, against the server that forgets a    *)
(* session it has not heard of for longer than its timeout.  The client    *)
(* knows the timeout only from the reply to PLAY (ParseTimeout); without   *)
(* "timeout=" there it stays 0.                                            *)
(*                                                                         *)
(* Time is in half seconds, gettimeofday's tv_sec drops the half.  The     *)
(* event loop spins, so that a due keep-alive is sent before time passes;  *)
(* a request or a reply takes up to Delay.                                 *)
(*                                                                         *)
(* A keep-alive is a GET_PARAMETER, which names the session, or an OPTIONS *)
(* without a Session header.  Whether the latter keeps the session is the  *)
(* server's choice: lenient ones count every request on the connection.    *)
(***************************************************************************)
EXTENDS Integers

CONSTANTS
  Timeouts,   \* timeouts of the server, in seconds
  Word,       \* values of the unsigned timeout: 2^32
  Delay,      \* half seconds a request or a reply travels at most
  MaxTime     \* bound: half seconds

\* A message takes two seconds at most, and the clock stays below the values
\* the subtraction wraps to.
ASSUME TimeAssumption ==
  /\ Word \in Nat /\ MaxTime \in Nat /\ MaxTime < Word - 5
  /\ Timeouts \subseteq 0 .. Word - 1
  /\ Delay \in 0 .. 4 /\ Delay <= MaxTime

VARIABLES
  now,            \* the clock
  timeout,        \* sess->timeout
  last_cmd_time,  \* sess->last_cmd_time
  pc,             \* the event loop: "idle", "request", "reply"
  since,          \* when the message under way was sent
  request,        \* the keep-alive under way, or the last one
  supported,      \* the mask holds GET_PARAMETER since the first OPTIONS
  expiry,         \* the server's timeout
  lenient,        \* the server counts requests without a Session header
  heard           \* when the server got the last request that it counts

serverVars == <<expiry, lenient>>
vars == <<now, timeout, last_cmd_time, pc, since, request, supported, serverVars,
          heard>>

TypeOK ==
  /\ now \in 0 .. MaxTime
  /\ expiry \in Timeouts
  /\ timeout \in {0, expiry}
  /\ last_cmd_time \in 0 .. now
  /\ pc \in {"idle", "request", "reply"}
  /\ since \in 0 .. now
  /\ request \in {"GET_PARAMETER", "OPTIONS"}
  /\ supported \in BOOLEAN
  /\ lenient \in BOOLEAN
  /\ heard \in 0 .. now

Sec(t) == t \div 2

\* The reply to PLAY has just been parsed; the request reached the server up to
\* Delay ago.
Init ==
  /\ now \in 0 .. Delay
  /\ heard = 0
  /\ last_cmd_time = now
  /\ expiry \in Timeouts
  /\ timeout \in {0, expiry}   \* with or without "timeout=" in the reply
  /\ pc = "idle"
  /\ since = 0
  /\ request = "OPTIONS"
  /\ supported \in BOOLEAN
  /\ lenient \in BOOLEAN

\* A subtraction that does not wrap.
MarginSigned == timeout - 5

\* sess->timeout - 5 is unsigned.
Margin == (timeout - 5) % Word

\* The five seconds on the wrong side.
DueAfterTimeout == Sec(now) - Sec(last_cmd_time) - 5 > Margin

Due == Sec(now) - Sec(last_cmd_time) > Margin

\* RtspSendKeepAliveCommand: a mask that holds GET_PARAMETER keeps it
\* (AnnouncedStaysSupported of RtspOptions); in one that does not, the carries of
\* repeated OPTIONS replies may set its bit and clear it again.
Requests == IF supported THEN {"GET_PARAMETER"} ELSE {"GET_PARAMETER", "OPTIONS"}

\* The next keep-alive counted from when this one was due at the latest.
RtspKeepAliveCommandByTimeout ==
  /\ pc = "idle"
  /\ Due
  /\ last_cmd_time' = last_cmd_time + 2 * timeout
  /\ request' \in Requests
  /\ pc' = "request"
  /\ since' = now
  /\ UNCHANGED <<now, timeout, supported, serverVars, heard>>

\* The time is the one before the request, whatever the exchange takes.
RtspKeepAliveCommand ==
  /\ pc = "idle"
  /\ Due
  /\ last_cmd_time' = now
  /\ request' \in Requests
  /\ pc' = "request"
  /\ since' = now
  /\ UNCHANGED <<now, timeout, supported, serverVars, heard>>

\* The request reaches the server, which looks for the session it is about.
ServerHears ==
  /\ pc = "request"
  /\ heard' = IF request = "GET_PARAMETER" \/ lenient THEN now ELSE heard
  /\ since' = now
  /\ pc' = "reply"
  /\ UNCHANGED <<now, timeout, last_cmd_time, request, supported, serverVars>>

\* The reply, of whatever status, reaches the client.
ReplyArrives ==
  /\ pc = "reply"
  /\ pc' = "idle"
  /\ UNCHANGED <<now, timeout, last_cmd_time, since, request, supported,
                 serverVars, heard>>

\* Time waits for a due keep-alive and for messages that take Delay already.
Tick ==
  /\ now < MaxTime
  /\ pc = "idle" => ~Due
  /\ pc # "idle" => now - since < Delay
  /\ now' = now + 1
  /\ UNCHANGED <<timeout, last_cmd_time, pc, since, request, supported,
                 serverVars, heard>>

Next == RtspKeepAliveCommand \/ ServerHears \/ ReplyArrives \/ Tick

Spec == Init /\ [][Next]_vars

-----------------------------------------------------------------------------
(* Properties                                                              *)

\* The keep-alives are ones the server counts.
Counted == supported \/ lenient

\* A session whose timeout of five seconds or more came with the reply to PLAY
\* is never forgotten by a server that announced GET_PARAMETER, or that counts
\* requests without a Session header: five seconds less than the timeout, the
\* truncation of tv_sec and two slow messages still leave the next request in
\* time (RtspKeepAliveCommand).  Against any other server the keep-alives are
\* OPTIONS that do not name the session (CMD_OPTIONS), and nothing is promised.
SessionKept == timeout >= 5 /\ Counted => now - heard <= 2 * expiry

\* A timeout below five, and 0 that stands for none, wraps to an interval
\* that never ends: no keep-alive is sent and the server forgets the session.
ShortTimeoutIsSilent == timeout < 5 => pc = "idle" /\ heard = 0

\* What makes both inductive: where the clock may be, by what is under way.
Kept ==
  timeout >= 5 /\ Counted =>
    /\ pc = "idle" =>
         /\ last_cmd_time - heard <= Delay
         /\ \/ now - last_cmd_time <= 2 * (timeout - 4)
            \/ now - heard <= Delay
    /\ pc = "request" =>
         /\ lenient \/ request = "GET_PARAMETER"
         /\ since = last_cmd_time
         /\ since - heard <= 2 * (timeout - 4) + Delay
         /\ now - since <= Delay
    /\ pc = "reply" =>
         /\ since = heard
         /\ last_cmd_time <= heard
         /\ now - since <= Delay

KInv == TypeOK /\ Kept /\ ShortTimeoutIsSilent
=============================================================================
