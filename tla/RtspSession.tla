----------------------------- MODULE RtspSession -----------------------------
(***************************************************************************)
(* One client session: the application thread that starts, quits and       *)
(* closes it (client.c, rtsp_client.c), the event-loop thread that walks   *)
(* the command table of rtsp.c and talks RTSP over one TCP connection, and *)
(* the receiver thread that PLAY starts, as far as it touches the session. *)
(*                                                                         *)
(* The server is external: it answers each request in one of four ways,    *)
(*   "ok"       a 200 reply                                                *)
(*   "error"    a reply with another status code                           *)
(*   "garbage"  bytes without an "RTSP/1.0 <code> " status line, for which *)
(*              RtspCheckResponseStatus returns -1, which no caller refuses*)
(*   "closed"   end of stream or an error from recv                        *)
(* sess->state, csess->quit and the thread interleavings are modelled one  *)
(* access at a time; a handler is split where it waits for the server and  *)
(* where another thread can write sess->state between two writes of it.    *)
(*                                                                         *)
(* Of sess->cseq, an int32, the model keeps whether its value is on a      *)
(* request already.  Every pass of the table increments it, so that a      *)
(* spinning KEEPALIVE overflows it after 2^31 passes, and a value comes    *)
(* again after 2^32.  Sessions of fewer passes are assumed.                *)
(***************************************************************************)
EXTENDS RtspCommands

CONSTANTS
  Sids,      \* the session ids the server may hand out
  NoSid,     \* the empty sess->sessid
  Publics,   \* the sets of names a server may announce
  CmdMod     \* values of the mask sess->cmdstats: its width, 2^w

ASSUME SidAssumption    == NoSid \notin Sids
ASSUME PublicAssumption == Publics \subseteq SUBSET Names
ASSUME CmdModAssumption == CmdMod \in Nat \ {0}

Streams  == {"video", "audio"}
SidOrNo  == Sids \cup {NoSid}
Replies  == {"ok", "error", "garbage", "closed"}
Requests == {"OPTIONS", "DESCRIBE", "SETUP1", "SETUP2", "PLAY", "KA_GET",
             "KA_OPTIONS", "TEARDOWN"}
Handshake == {"OPTIONS", "DESCRIBE", "SETUP1", "SETUP2", "PLAY", "TEARDOWN"}

VARIABLES
  \* -- RtspClientSession / RtspSession fields
  state,     \* sess->state, written by the event loop and by the receiver
  quit,      \* csess->quit
  cmdstats,  \* sess->cmdstats
  media,     \* streams whose a=control the SDP gave (vmedia, amedia)
  sessid,    \* sess->sessid
  timed,     \* sess->timeout - 5 has not wrapped: a keep-alive becomes due
  cseq,      \* whether the value of sess->cseq is on a request already
  \* -- event-loop thread
  evpc,      \* where the thread stands
  idx,       \* row of rtspcmdhdl that RtspStatusMachine looks at
  \* -- receiver thread and application thread
  rx, app,
  \* -- chosen by the caller of startRtspClient: a playStartCb is registered
  usrPlay,
  \* -- the connection and the server
  conn,      \* "down" once an exchange failed on the connection
  pub,       \* what the server announces in every OPTIONS reply
  granted,   \* for each stream, the session id its 200 SETUP reply carried
  \* -- last request on the wire and the Session header it carried
  req, reqSid

evVars   == <<evpc, idx>>
cfgVars  == <<usrPlay, pub>>
\* everything a reply or a send may change besides the thread position
dataVars == <<cmdstats, media, sessid, timed, granted>>
wireVars == <<req, reqSid, cseq>>
vars == <<state, quit, cmdstats, media, sessid, timed, cseq, evpc, idx, rx,
          app, usrPlay, conn, pub, granted, req, reqSid>>

EvPcs == {"none", "nothread", "connect", "top", "scan", "await", "setup2",
          "spawned", "kareset", "ended", "killed"}
RxPcs == {"none", "failed", "run", "stop", "done", "killed"}
AppPcs == {"init", "failed", "running", "joining", "joined", "closed",
           "crashed"}

TypeOK ==
  /\ state \in States
  /\ quit \in BOOLEAN
  /\ cmdstats \in 0 .. CmdMod - 1
  /\ media \in SUBSET Streams
  /\ sessid \in SidOrNo
  /\ timed \in BOOLEAN
  /\ cseq \in {"unused", "sent"}
  /\ evpc \in EvPcs
  /\ idx \in 1 .. Rows + 1
  /\ rx \in RxPcs
  /\ app \in AppPcs
  /\ usrPlay \in BOOLEAN
  /\ conn \in {"up", "down"}
  /\ pub \in Publics
  /\ granted \in [Streams -> SidOrNo]
  /\ req \in Requests \cup {"none"}
  /\ reqSid \in SidOrNo

\* InitRtspClientSession: calloc, then state and transport.
Init ==
  /\ state = "OPTIONS"
  /\ quit = FALSE
  /\ cmdstats = 0
  /\ media = {}
  /\ sessid = NoSid
  /\ timed = FALSE
  /\ cseq = "unused"
  /\ evpc = "none"
  /\ idx = 1
  /\ rx = "none"
  /\ app = "init"
  /\ usrPlay \in BOOLEAN
  /\ conn = "up"
  /\ pub \in Publics
  /\ granted = [s \in Streams |-> NoSid]
  /\ req = "none"
  /\ reqSid = NoSid

-----------------------------------------------------------------------------
(* The application thread.                                                 *)

appOnly == <<state, cmdstats, media, sessid, timed, cseq, idx, rx, usrPlay,
             conn, pub, granted, req, reqSid>>

\* No memory, or an address without the rtsp:// prefix: startRtspClient
\* returns NULL and nothing was started.
StartFails ==
  /\ app = "init"
  /\ app' = "failed"
  /\ UNCHANGED <<appOnly, quit, evpc>>

\* RtspCreateThread returns -1 in an unsigned pthread_t, so the test
\* cses->rtspid < 0 does not see a failure: the caller gets a session.
startRtspClient ==
  /\ app = "init"
  /\ app' = "running"
  /\ evpc' \in {"connect", "nothread"}
  /\ UNCHANGED <<appOnly, quit>>

SetRtspClientSessionQuit ==
  /\ app = "running"
  /\ quit' = TRUE
  /\ UNCHANGED <<appOnly, app, evpc>>

\* closeRtspClient enters TrykillThread.
CloseBegins ==
  /\ app = "running"
  /\ app' = "joining"
  /\ UNCHANGED <<appOnly, quit, evpc>>

\* The first pthread_join: blocks until the event loop has returned; on the
\* id -1 of a thread that was never created it faults.
TrykillThread ==
  /\ app = "joining"
  /\ \/ evpc = "ended" /\ app' = "joined"
     \/ evpc = "nothread" /\ app' = "crashed"
  /\ UNCHANGED <<appOnly, quit, evpc>>

\* TrykillThread joins again until ESRCH: a second join of a joined thread is
\* undefined; glibc returns ESRCH while the dead thread's stack is cached and
\* faults once it is unmapped.  After ESRCH the session is freed.
closeRtspClient ==
  /\ app = "joined"
  /\ app' \in {"closed", "crashed"}
  /\ UNCHANGED <<appOnly, quit, evpc>>

AppNext == \/ StartFails \/ startRtspClient \/ SetRtspClientSessionQuit
           \/ CloseBegins \/ TrykillThread \/ closeRtspClient
-----------------------------------------------------------------------------
(* The event-loop thread: connection, loop and table walk.                 *)

\* What every step of the event loop leaves alone.
evKeeps == <<quit, app, usrPlay, pub>>

TcpConnect ==
  /\ evpc = "connect"
  /\ evpc' \in {"top", "ended"}
  /\ UNCHANGED <<evKeeps, state, dataVars, wireVars, idx, rx, conn>>

\* The loop left at once on the quit flag.
EventLoopBreaksOnQuit ==
  /\ evpc = "top"
  /\ IF quit
     THEN evpc' = "ended" /\ state' = "TEARDOWN" /\ UNCHANGED idx
     ELSE evpc' = "scan" /\ idx' = 1 /\ UNCHANGED state
  /\ UNCHANGED <<evKeeps, dataVars, wireVars, rx, conn>>

\* Head of the loop.  With the quit flag set the loop writes TEARDOWN and
\* comes straight back, without a call of RtspStatusMachine.
RtspEventLoop ==
  /\ evpc = "top"
  /\ IF quit
     THEN state' = "TEARDOWN" /\ UNCHANGED <<evpc, idx>>
     ELSE evpc' = "scan" /\ idx' = 1 /\ UNCHANGED state
  /\ UNCHANGED <<evKeeps, dataVars, wireVars, rx, conn>>

\* The walk not stopping behind the last row.
RowSkippedNoBound ==
  /\ evpc = "scan" /\ idx <= Rows + 1
  /\ idx = Rows + 1 \/ state # rtspcmdhdl[idx]
  /\ idx' = idx + 1
  /\ UNCHANGED <<evKeeps, state, dataVars, wireVars, evpc, rx, conn>>

\* RtspStatusMachine: the row does not serve the present state.
RowSkipped ==
  /\ evpc = "scan" /\ idx <= Rows
  /\ state # rtspcmdhdl[idx]
  /\ idx' = idx + 1
  /\ UNCHANGED <<evKeeps, state, dataVars, wireVars, evpc, rx, conn>>

\* The walk is over and returned True.
PassEnds ==
  /\ evpc = "scan" /\ idx > Rows
  /\ evpc' = IF state = "QUIT" THEN "ended" ELSE "top"
  /\ UNCHANGED <<evKeeps, state, dataVars, wireVars, idx, rx, conn>>

\* The row serves the present state: its handler runs.
Handling(s) == evpc = "scan" /\ idx <= Rows /\ rtspcmdhdl[idx] = s /\ state = s

\* A handler returned True: RtspIncreaseCseq, and on to the next row.
HandlerDone == evpc' = "scan" /\ idx' = idx + 1 /\ cseq' = "unused"

\* A request is on the wire and the thread waits in recv.
Send(r, sid) ==
  /\ evpc' = "await"
  /\ req' = r
  /\ reqSid' = sid
  /\ cseq' = "sent"
  /\ UNCHANGED <<evKeeps, state, dataVars, idx, rx, conn>>

\* The thread waits for the reply to r.
Awaiting(r) == evpc = "await" /\ req = r

\* What can come back: nothing but the end of stream once the connection is
\* gone.
Arriving == IF conn = "up" THEN Replies ELSE {"closed"}

\* recv gave data and the status check did not say False.
Accepted(k) == k \in {"ok", "garbage"}

\* The reply to r is one the handler takes for a success.
Succeeds(r) == Awaiting(r) /\ \E k \in Arriving : Accepted(k)

ConnAfter(k) == IF k = "closed" THEN "down" ELSE conn

-----------------------------------------------------------------------------
(* Sending.  A handler of the handshake or TEARDOWN whose send fails       *)
(* returns False, and the event loop returns.                              *)

RtspSendOptionsCommand  == Handling("OPTIONS")  /\ Send("OPTIONS", NoSid)
RtspSendDescribeCommand == Handling("DESCRIBE") /\ Send("DESCRIBE", NoSid)

RtspSendSetupCommand ==
  /\ Handling("SETUP") /\ "video" \in media
  /\ Send("SETUP1", NoSid)

\* The audio SETUP sent whether or not the SDP gave an audio control.
SecondSetupAlways == evpc = "setup2" \/ (Handling("SETUP") /\ "video" \notin media)

\* Before the audio SETUP: either the video one was accepted, or there is no
\* video.
AtSecondSetup ==
  \/ evpc = "setup2"
  \/ Handling("SETUP") /\ "video" \notin media /\ "audio" \in media

\* The audio SETUP without the Session header.
RtspSendSetupCommand2Plain == AtSecondSetup /\ Send("SETUP2", NoSid)

\* The audio SETUP carries a Session header when a session id is known.
RtspSendSetupCommand2 == AtSecondSetup /\ Send("SETUP2", sessid)

RtspSendPlayCommand == Handling("PLAY") /\ Send("PLAY", sessid)

RtspSendTeardownCommand == Handling("TEARDOWN") /\ Send("TEARDOWN", sessid)

\* send failed in one of these handlers.
SendFails ==
  /\ \/ \E s \in {"OPTIONS", "DESCRIBE", "PLAY", "TEARDOWN"} : Handling(s)
     \/ Handling("SETUP") /\ media # {}
     \/ evpc = "setup2"
  /\ evpc' = "ended"
  /\ conn' = "down"
  /\ UNCHANGED <<evKeeps, state, dataVars, wireVars, idx, rx>>

\* The reply ended the handler with False.
HandlerRefused ==
  /\ evpc = "await" /\ req \in Handshake
  /\ \E k \in Arriving : ~Accepted(k) /\ conn' = ConnAfter(k)
  /\ evpc' = "ended"
  /\ UNCHANGED <<evKeeps, state, dataVars, wireVars, idx, rx>>

-----------------------------------------------------------------------------
(* Accepted replies of the handshake.                                      *)

\* Keys added to the mask by an accepted OPTIONS reply: a reply without a
\* Public header, and garbage, add none.
PublicParsed ==
  cmdstats' \in {cmdstats, ParseOptionsPublic(cmdstats, pub, CmdMod)}

\* RtspOptionsCommand that forgets to advance the state.
RtspOptionsCommandStays ==
  /\ Succeeds("OPTIONS")
  /\ PublicParsed
  /\ HandlerDone
  /\ UNCHANGED <<evKeeps, state, media, sessid, timed, granted, rx, conn, req,
                 reqSid>>

RtspOptionsCommand ==
  /\ Succeeds("OPTIONS")
  /\ PublicParsed
  /\ state' = "DESCRIBE"
  /\ HandlerDone
  /\ UNCHANGED <<evKeeps, media, sessid, timed, granted, rx, conn, req,
                 reqSid>>

\* ParseSdpProto finds the control of any subset of the streams.
RtspDescribeCommand ==
  /\ Succeeds("DESCRIBE")
  /\ media' \in SUBSET Streams
  /\ state' = "SETUP"
  /\ HandlerDone
  /\ UNCHANGED <<evKeeps, cmdstats, sessid, timed, granted, rx, conn, req,
                 reqSid>>

\* The server puts stream s into the session the request names, or into any
\* session when it names none, and says so in the reply's Session header;
\* sid = NoSid stands for a reply without that header, and for garbage.
Granted(s, sid) ==
  /\ reqSid = NoSid \/ sid \in {reqSid, NoSid}
  /\ granted' = [granted EXCEPT ![s] = sid]

\* ParseSessionID leaves sess->sessid alone when the header is missing.
ParseSessionID(sid) == sessid' = IF sid = NoSid THEN sessid ELSE sid

\* End of RtspSetupCommand.
SetupDone == state' = "PLAY" /\ HandlerDone

\* The two SETUPs sharing one CSeq.
VideoSetupAcceptedSameCseq ==
  /\ Succeeds("SETUP1")
  /\ \E sid \in SidOrNo : Granted("video", sid) /\ ParseSessionID(sid)
  /\ IF "audio" \in media
     THEN evpc' = "setup2" /\ UNCHANGED <<state, idx, cseq>>
     ELSE SetupDone
  /\ UNCHANGED <<evKeeps, cmdstats, media, timed, rx, conn, req, reqSid>>

\* First half of RtspSetupCommand; the audio SETUP gets a CSeq of its own.
VideoSetupAccepted ==
  /\ Succeeds("SETUP1")
  /\ \E sid \in SidOrNo : Granted("video", sid) /\ ParseSessionID(sid)
  /\ IF "audio" \in media
     THEN evpc' = "setup2" /\ cseq' = "unused" /\ UNCHANGED <<state, idx>>
     ELSE SetupDone
  /\ UNCHANGED <<evKeeps, cmdstats, media, timed, rx, conn, req, reqSid>>

\* Second half: the id is parsed only when the first reply gave none.
AudioSetupAccepted ==
  /\ Succeeds("SETUP2")
  /\ \E sid \in SidOrNo :
       /\ Granted("audio", sid)
       /\ IF sessid = NoSid THEN ParseSessionID(sid) ELSE UNCHANGED sessid
  /\ SetupDone
  /\ UNCHANGED <<evKeeps, cmdstats, media, timed, rx, conn, req, reqSid>>

\* An SDP without any usable control: no SETUP is sent, PLAY comes next.
SetupNothing ==
  /\ Handling("SETUP") /\ media = {}
  /\ SetupDone
  /\ UNCHANGED <<evKeeps, dataVars, rx, conn, req, reqSid>>

\* RtspPlayCommand up to the creation of the receiver.  Only the PLAY reply
\* is searched for "timeout="; without it sess->timeout stays 0.  A failed
\* thread creation is not noticed (the id is unsigned).
RtspPlayCommand ==
  /\ Succeeds("PLAY")
  /\ timed' \in BOOLEAN
  /\ IF usrPlay
     THEN state' = "KEEPALIVE" /\ HandlerDone /\ UNCHANGED rx
     ELSE /\ rx' \in {"run", "failed"}
          /\ evpc' = "spawned"
          /\ UNCHANGED <<state, idx, cseq>>
  /\ UNCHANGED <<evKeeps, cmdstats, media, sessid, granted, conn, req, reqSid>>

\* End of RtspPlayCommand, the receiver already running.
PlayDone ==
  /\ evpc = "spawned"
  /\ state' = "KEEPALIVE"
  /\ HandlerDone
  /\ UNCHANGED <<evKeeps, dataVars, rx, conn, req, reqSid>>

\* RtspTeardownCommand that forgets to write QUIT.
RtspTeardownCommandStays ==
  /\ Succeeds("TEARDOWN")
  /\ HandlerDone
  /\ UNCHANGED <<evKeeps, state, dataVars, rx, conn, req, reqSid>>

RtspTeardownCommand ==
  /\ Succeeds("TEARDOWN")
  /\ state' = "QUIT"
  /\ HandlerDone
  /\ UNCHANGED <<evKeeps, dataVars, rx, conn, req, reqSid>>

-----------------------------------------------------------------------------
(* Keep-alive.  RtspKeepAliveCommand always returns True.                  *)

\* Not due yet.
KeepAliveIdle ==
  /\ Handling("KEEPALIVE")
  /\ HandlerDone
  /\ UNCHANGED <<evKeeps, state, dataVars, rx, conn, req, reqSid>>

GetParameterSupported ==
  RtspCommandIsSupported(gcmdtbl["GET_PARAMETER"], cmdstats)

RtspSendGetParameterCommand ==
  /\ Handling("KEEPALIVE") /\ timed /\ GetParameterSupported
  /\ Send("KA_GET", sessid)

RtspSendKeepAliveOptions ==
  /\ Handling("KEEPALIVE") /\ timed /\ ~GetParameterSupported
  /\ Send("KA_OPTIONS", NoSid)

\* The send fails with an error: the handlers ignore it, but after OPTIONS
\* the state is written all the same.
KeepAliveSendFails ==
  /\ Handling("KEEPALIVE") /\ timed
  /\ conn' = "down"
  /\ IF GetParameterSupported
     THEN HandlerDone
     ELSE evpc' = "kareset" /\ UNCHANGED <<idx, cseq>>
  /\ UNCHANGED <<evKeeps, state, dataVars, rx, req, reqSid>>

\* A send on a connection the peer has reset raises SIGPIPE, which nothing
\* catches: the process ends, with all its threads.
SendKilled ==
  /\ \/ Handling("KEEPALIVE") /\ timed
     \/ Handling("TEARDOWN")
  /\ conn = "down"
  /\ app' = "crashed" /\ evpc' = "killed" /\ rx' = "killed"
  /\ UNCHANGED <<quit, cfgVars, state, dataVars, wireVars, idx, conn>>

\* RtspGetParameterCommand that resets the state as the OPTIONS branch does.
RtspGetParameterCommandResets ==
  /\ Awaiting("KA_GET")
  /\ \E k \in Arriving : conn' = ConnAfter(k)
  /\ state' = "KEEPALIVE"
  /\ HandlerDone
  /\ UNCHANGED <<evKeeps, dataVars, rx, req, reqSid>>

\* Whatever the reply was, RtspSendKeepAliveCommand drops the result.
RtspGetParameterCommand ==
  /\ Awaiting("KA_GET")
  /\ \E k \in Arriving : conn' = ConnAfter(k)
  /\ HandlerDone
  /\ UNCHANGED <<evKeeps, state, dataVars, rx, req, reqSid>>

\* RtspOptionsCommand as a keep-alive: an accepted reply moves the state back
\* to DESCRIBE until RtspSendKeepAliveCommand resets it.
KeepAliveOptionsReply ==
  /\ Awaiting("KA_OPTIONS")
  /\ \E k \in Arriving :
       /\ conn' = ConnAfter(k)
       /\ IF Accepted(k)
          THEN PublicParsed /\ state' = "DESCRIBE"
          ELSE UNCHANGED <<cmdstats, state>>
  /\ evpc' = "kareset"
  /\ UNCHANGED <<evKeeps, media, sessid, timed, granted, wireVars, idx, rx>>

\* "sess->state = RTSP_KEEPALIVE;//reset the status"
KeepAliveReset ==
  /\ evpc = "kareset"
  /\ state' = "KEEPALIVE"
  /\ HandlerDone
  /\ UNCHANGED <<evKeeps, dataVars, rx, conn, req, reqSid>>

-----------------------------------------------------------------------------
(* The receiver thread, RtspHandleUdpConnect: how it leaves its loop (a    *)
(* BYE, a failed select or recv) and what it then does to the session.     *)
(* UdpReceiver and MediaSockets look at the rest of it.                    *)

rxKeeps == <<quit, app, cfgVars, dataVars, wireVars, evVars, conn>>

\* The file it writes the stream to cannot be opened: the thread returns before
\* its loop, and nobody learns of it.
RxFileFails ==
  /\ rx = "run"
  /\ rx' = "failed"
  /\ UNCHANGED <<rxKeeps, state>>

RxLeavesLoop ==
  /\ rx = "run"
  /\ rx' = "stop"
  /\ UNCHANGED <<rxKeeps, state>>

RtspHandleUdpConnectQuits ==
  /\ rx = "stop"
  /\ rx' = "done"
  /\ state' = "TEARDOWN"
  /\ UNCHANGED rxKeeps
-----------------------------------------------------------------------------
(* The whole.                                                              *)

\* Steps the event loop takes on its own.
EvStep ==
  \/ TcpConnect \/ RtspEventLoop \/ RowSkipped \/ PassEnds
  \/ RtspSendOptionsCommand \/ RtspSendDescribeCommand
  \/ RtspSendSetupCommand \/ RtspSendSetupCommand2 \/ RtspSendPlayCommand
  \/ RtspSendTeardownCommand \/ SendFails \/ SetupNothing \/ PlayDone
  \/ KeepAliveIdle \/ RtspSendGetParameterCommand
  \/ RtspSendKeepAliveOptions \/ KeepAliveSendFails \/ SendKilled
  \/ KeepAliveReset

\* Steps that need an answer of the server, or the end of its stream.
ReplyStep ==
  \/ RtspOptionsCommand \/ RtspDescribeCommand \/ VideoSetupAccepted
  \/ AudioSetupAccepted \/ RtspPlayCommand \/ RtspTeardownCommand
  \/ HandlerRefused \/ RtspGetParameterCommand \/ KeepAliveOptionsReply

RxStep == RxFileFails \/ RxLeavesLoop \/ RtspHandleUdpConnectQuits

Next == AppNext \/ EvStep \/ ReplyStep \/ RxStep

Spec == Init /\ [][Next]_vars

\* The scheduler runs every thread that can run; the server answers or drops
\* the connection.  Nothing makes the application quit, the stream end, or a
\* keep-alive fall due.
Fairness ==
  /\ WF_vars(EvStep)
  /\ WF_vars(ReplyStep)
  /\ WF_vars(RtspHandleUdpConnectQuits)

FairSpec == Spec /\ Fairness
-----------------------------------------------------------------------------
(* Properties.                                                             *)

\* A pass of the table takes a session from OPTIONS through PLAY, so between
\* two passes, where the quit flag is looked at, the session is never half
\* set up (RtspStatusMachine over rtspcmdhdl; the loop of RtspEventLoop).
HandshakeUninterrupted ==
  evpc = "top" => state \in {"OPTIONS", "KEEPALIVE", "TEARDOWN"}

\* The id that PLAY, GET_PARAMETER and TEARDOWN carry is the one under which
\* the server granted every stream it granted: the two SETUPs of
\* RtspSetupCommand never end up in two sessions of which one is forgotten.
SessionNamesStreams ==
  evpc = "await" /\ req \in {"PLAY", "KA_GET", "TEARDOWN"}
    => \A s \in Streams : granted[s] # NoSid => reqSid = granted[s]

\* When closeRtspClient has freed the session, neither the event loop nor the
\* receiver, which nobody joins, can touch it any more.
NoUseAfterFree ==
  app = "closed" => evpc = "ended" /\ rx \notin {"run", "stop"}

\* A request never reuses the CSeq of an earlier one, across handlers, the two
\* SETUPs of one handler, failed sends and keep-alives (sess->cseq), as long as
\* the integer has not gone round.
FreshCSeq == [][evpc # "await" /\ evpc' = "await" => cseq = "unused"]_vars

\* Where the event loop overwrites sess->state without looking at it while a
\* receiver may be running: the end of RtspPlayCommand and a keep-alive by
\* OPTIONS.
LossWindow == evpc \in {"spawned", "kareset"} \/ Awaiting("KA_OPTIONS")

\* Outside these windows the TEARDOWN the receiver leaves in sess->state is
\* replaced by nothing but the QUIT of an answered TEARDOWN request.
TeardownKept ==
  [][state = "TEARDOWN" /\ ~LossWindow
       => \/ state' = "TEARDOWN"
          \/ state' = "QUIT" /\ Awaiting("TEARDOWN")]_vars

\* The order of the requests on the wire is the one RtspDialogue promises.
DialogueLast == IF req \in {"KA_GET", "KA_OPTIONS"} THEN "KEEPALIVE" ELSE req

Dialogue == INSTANCE RtspDialogue WITH last <- DialogueLast

\* RtspSession implements RtspDialogue.
ImplementsDialogue == Dialogue!Spec

\* Once the thread runs, the session gets as far as KEEPALIVE or the thread
\* ends, unless the application quits: no state of the table is a trap.
HandshakeSettles ==
  evpc = "connect" ~> (state = "KEEPALIVE" \/ evpc = "ended" \/ quit)

\* A TEARDOWN that was not lost ends the event loop, unless the application
\* sets the quit flag first or the process dies of the send.
TeardownServed ==
  (state = "TEARDOWN" /\ rx = "done" /\ ~LossWindow /\ ~quit)
    ~> (evpc \in {"ended", "killed"} \/ quit)

\* client.c:108: after SetRtspClientSessionQuit and closeRtspClient the program
\* prints "RTSP Event Loop stopped...".  A loop that has seen the quit flag
\* never returns.
QuitStopsLoop == (quit /\ evpc = "top") ~> (evpc \in {"ended", "killed"})
-----------------------------------------------------------------------------
(* The inductive invariant: where the event loop stands fixes what the     *)
(* other fields hold.  Until a PLAY was answered no receiver exists, so    *)
(* only the event loop writes sess->state; afterwards the state is one of  *)
(* KEEPALIVE, TEARDOWN and, inside a keep-alive by OPTIONS, DESCRIBE.      *)

\* Last request of an established session.
Established == req \in {"PLAY", "KA_GET", "KA_OPTIONS"}

\* No PLAY reply was accepted yet.
BeforePlay ==
  \/ req \in {"none", "OPTIONS", "DESCRIBE", "SETUP1", "SETUP2"}
  \/ Awaiting("PLAY")

\* The request that precedes PLAY.
LastSetup == IF "audio" \in media THEN "SETUP2"
             ELSE IF "video" \in media THEN "SETUP1" ELSE "DESCRIBE"

StartInv ==
  evpc \in {"none", "nothread", "connect"}
    => state = "OPTIONS" /\ req = "none" /\ idx = 1

\* Rows 1 to 4 find the handshake in step with them.
HandshakeScan ==
  \/ idx = 1 /\ state = "OPTIONS" /\ req = "none"
  \/ idx = 2 /\ state = "DESCRIBE" /\ req = "OPTIONS"
  \/ idx = 3 /\ state = "SETUP" /\ req = "DESCRIBE"
  \/ idx = 4 /\ state = "PLAY" /\ req = LastSetup

ScanInv ==
  evpc = "scan"
    => \/ HandshakeScan
       \/ state = "KEEPALIVE" /\ Established
       \/ state = "TEARDOWN" /\ Established /\ rx = "done"
       \/ state = "QUIT" /\ req = "TEARDOWN" /\ rx = "done" /\ idx > 6

TopInv ==
  evpc = "top"
    => \/ state = "OPTIONS" /\ req = "none"
       \/ state = "KEEPALIVE" /\ Established
       \/ state = "TEARDOWN" /\ (quit \/ (Established /\ rx = "done"))

AwaitInv ==
  evpc = "await"
    => \/ req = "OPTIONS" /\ idx = 1 /\ state = "OPTIONS"
       \/ req = "DESCRIBE" /\ idx = 2 /\ state = "DESCRIBE"
       \/ req = "SETUP1" /\ idx = 3 /\ state = "SETUP" /\ "video" \in media
       \/ req = "SETUP2" /\ idx = 3 /\ state = "SETUP" /\ "audio" \in media
       \/ req = "PLAY" /\ idx = 4 /\ state = "PLAY"
       \/ req \in {"KA_GET", "KA_OPTIONS"} /\ idx = 7 /\ state = "KEEPALIVE"
       \/ /\ req \in {"KA_GET", "KA_OPTIONS"} /\ idx = 7
          /\ state = "TEARDOWN" /\ rx = "done"
       \/ req = "TEARDOWN" /\ idx = 6 /\ state = "TEARDOWN" /\ rx = "done"

BetweenInv ==
  /\ evpc = "setup2" => /\ req = "SETUP1" /\ idx = 3 /\ state = "SETUP"
                        /\ "video" \in media /\ "audio" \in media
  /\ evpc = "spawned" => /\ req = "PLAY" /\ idx = 4
                         /\ state \in {"PLAY", "TEARDOWN"}
  /\ evpc = "kareset" => /\ Established /\ idx = 7
                         /\ state \in {"KEEPALIVE", "DESCRIBE", "TEARDOWN"}

\* The receiver exists only after PLAY and is gone before the loop ends.
RxInv ==
  /\ BeforePlay /\ evpc # "killed" => rx = "none"
  /\ evpc = "ended" => rx \notin {"run", "stop"}
  /\ evpc = "killed" => rx = "killed"

AppInv ==
  /\ app = "init" => evpc = "none"
  /\ app \in {"joined", "closed"} => evpc = "ended"

\* One session id for everything the server granted.
SidInv ==
  /\ \A s \in Streams : granted[s] # NoSid => sessid = granted[s]
  /\ (req \in {"none", "OPTIONS", "DESCRIBE"} \/ Awaiting("SETUP1"))
       => \A s \in Streams : granted[s] = NoSid
  /\ evpc = "await" /\ req \in {"SETUP2", "PLAY", "KA_GET", "TEARDOWN"}
       => reqSid = sessid

FreshInv ==
  evpc \in {"none", "nothread", "connect", "top", "scan", "setup2"}
    => cseq = "unused"

MediaInv ==
  (req \in {"none", "OPTIONS"} \/ Awaiting("DESCRIBE")) => media = {}

IInv ==
  /\ TypeOK /\ StartInv /\ ScanInv /\ TopInv /\ AwaitInv /\ BetweenInv
  /\ RxInv /\ AppInv /\ SidInv /\ FreshInv /\ MediaInv
=============================================================================
