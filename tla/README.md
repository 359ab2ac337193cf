# A TLA+ model of rtsp_client_linux

rtsp_client_linux is an RTSP client in C: for each camera or server URL it runs
one thread that talks RTSP over TCP (the *event loop*) and one that receives the
stream over UDP (the *receiver*). This directory holds TLA+ modules of the
client's logic, the TLC configurations that check them on small instances, and
theorems about them proved with TLAPS. `PROJECT.json` is the machine-readable
side: which definition models which lines, which run checks which property,
which mutation of a definition breaks it, and the list of hazards.

Contents: [the system](#1-the-system),
[modules and code](#2-modules-and-code),
[runs](#3-runs),
[what the model assumes and leaves out](#4-what-the-model-assumes-and-leaves-out),
[fairness](#5-fairness),
[proofs](#6-proofs),
[what the checks found](#7-what-the-checks-found),
[plan](#8-plan).

## 1. The system

### Components

| component | source | state it keeps | operations |
|---|---|---|---|
| Application | `client.c` | the quit flag of `main`, one session per URL | `startRtspClient`, `SetRtspClientSessionQuit`, `closeRtspClient` |
| Session and event loop | `rtsp_client.c`, `rtsp.c` | `sess->state`, `csess->quit`, `sessid`, `cseq`, `timeout`, `last_cmd_time`, the TCP socket | `RtspEventLoop`, `RtspStatusMachine`, one send/reply handler per method |
| Command table and mask | `rtsp_common.c` | `sess->cmdstats` | `ParseOptionsPublic`, `RtspCommandIsSupported` |
| Header parsers | `rtsp_common.c` | none, they write `sessid`, `timeout` and the transports | `ParseSessionID`, `ParseTimeout`, `ParseUdpPort` |
| SDP parsing | `rtsp_common.c` | transport and control of video and audio | `ParseSdpProto` |
| Reply framing | `rtsp_response.c` | the buffer and `offset` | `RtspReceiveResponse`, `RtspCheckResponseStatus` |
| Port allocation | `net.c` | the static cursor `portTmp`, shared by all sessions | `GetSomePort` |
| Socket helpers | `net.c` | the descriptors of the process | `TcpConnect`, `CreateUdpServer`, `CloseScokfd`, send, receive, options, addresses |
| UDP receiver | `rtsp_client.c` | `framebuf`, `rtcptv`, the static counter `times` | `RtspHandleUdpConnect` |
| RTP statistics, RTCP reports | `rtp.c`, `rtcp.c` | `RtpStats` | `ParseRtp`, `UpdateRtpStats`, `ParseRtcp`, `RtcpReceiveReport` |
| NAL unit unpacking | `rtp.c` | none, it appends to `framebuf` | `UnpackRtpNAL` |
| Keep-alive timing | `rtsp.c` | `timeout`, `last_cmd_time` | `RtspKeepAliveCommand` |
| Thread helper | `tpool.c` | thread ids | `RtspCreateThread`, `TrykillThread` |
| URL parsing | `rtsp_client.c` | none after start-up | `ParseRtspUrl` |
| Interleaved TCP receiver | `rtsp_client.c` | | `RtspHandleTcpConnect`, not reached |
| Portability layer, utilities | `port.c`, `utils.c` | | wrappers of the operating system |
| Build | `Makefile` | | |

### How they interact

* The application calls `startRtspClient` once per URL. It allocates the session
  and creates the event-loop thread. `SetRtspClientSessionQuit` sets a flag the
  event loop reads at its head; `closeRtspClient` joins the thread and frees the
  session.
* The event loop walks a table of handlers (`rtspcmdhdl`): OPTIONS, DESCRIBE,
  SETUP, PLAY, GET_PARAMETER, TEARDOWN, KEEPALIVE. A handler whose row is
  `sess->state` runs: it sends a request, waits for the reply in `recv`, and
  writes the next state. Since the walk goes on after a handler, one pass takes a
  session from OPTIONS to KEEPALIVE.
* DESCRIBE hands the reply to the SDP parser, SETUP calls `GetSomePort` once per
  stream, PLAY creates the receiver thread, which shares the session.
* The receiver reads RTP and RTCP, hands frames to `playCb` and sends receiver
  reports. When it ends (RTCP BYE, or an error) it writes
  `sess->state = RTSP_TEARDOWN` without a lock; the event loop finds it there.
  Nobody joins the receiver.
* Shared without a lock: `sess->state` (event loop, receiver), `csess->quit`
  (application, event loop), `portTmp` (event loops of all sessions), `times`
  (receivers of all sessions).
* Shared through the operating system: the descriptor table of the process,
  whose numbers the kernel gives out again as soon as they are free, and the UDP
  ports of the host. `main` runs four sessions in one process.

### What is hard here, and what makes each component correct

| component | hard behaviour | correct when |
|---|---|---|
| Session | two threads write `sess->state`; quit, close and end of stream at any time; replies that are errors, garbage or missing | the handshake is never interrupted half way; one session id covers all streams; no CSeq is reused; a TEARDOWN is not lost; a freed session is not used; the requests come in the order of the protocol; the handshake and a teardown come to an end |
| Mask | it is a *sum* of keys, added to by every OPTIONS reply | one reply makes it exact; a server with GET_PARAMETER is never taken for one without |
| Reply framing | TCP cuts replies anywhere; `offset` survives an exchange | requests and replies stay in step; no `recv` waits for bytes that are not coming |
| Port allocation | a static cursor written by several threads; ports taken by others | pairs of two sessions do not overlap by one; a session's two streams get different ports; every call returns |
| Sockets | the numbers of descriptors are reused; ports are probed with TCP, bound for UDP many steps later; every call may fail halfway | nobody works on another session's descriptor; `select` sees both sockets; the ports asked for can be bound; descriptors do not pile up |
| Receiver | loss, overtaking, datagrams of three kinds, three steps per pass | the frames are what was read, cut at the markers; statistics are what they are called; reports are sent, and not too often |
| NAL unpacking | units in fragments and aggregates, fragments lost | the frame is the byte stream a decoder expects |
| Keep-alive | unsigned subtraction, truncated clocks, slow messages | a server that counts the client's keep-alives never forgets its session |
| SDP | searches by text, without sections | a stream is set up with its own control and transport |
| URL and reply fields | searches by text, in no order; delimiters may occur in other parts | the session works with what the user and the server wrote |

Every place where one of these can go wrong is in `PROJECT.json` under
`hazards`, with the properties that would notice, or the reason there is none.

## 2. Modules and code

The dependencies:

    RtspCommands  <-- RtspSession  <-- MCRtspSession, RtspSession_proof
                  <-- RtspOptions  <-- KeepAlive_proof
    RtspDialogue  <.. RtspSession          (INSTANCE, refinement)
    PortAlloc     <-- MediaSockets <-- MediaSockets_proof
    RtpStats      <-- UdpReceiver  <-- UdpReceiver_proof
    SdpParse      <-- SessionData  <-- MCSessionData, SessionData_proof
    RtspResponse  <-- RtspResponse_proof
    KeepAlive     <-- KeepAlive_proof
    RtpNal        <-- MCRtpNal, RtpNal_proof
    SequenceFacts <-- the proofs of UdpReceiver, RtspResponse, SessionData, RtpNal

### RtspCommands

The tables of `rtsp_common.c` and `rtsp.c`: the methods with their keys, the rows
of `rtspcmdhdl`, `ParseOptionsPublic` (adds the keys of the methods in a Public
header), and `RtspCommandIsSupported` (tests a bit). The names a server may
announce (`Names`) are more than the table has: one is unknown (`RECORD`), and
one begins with a name of the table (`PLAY_NOTIFY`), for which `GetCmdTblKey`
finds PLAY, because its `strncmp` goes no further than the name of the table
(`Prefix`). Used by the two modules below.

### RtspSession (and RtspDialogue, MCRtspSession, RtspSession_proof)

One session with its three threads and its server. `state`, `quit`, `cmdstats`,
`sessid` are the fields of the code. `media` is the set of streams for which the
SDP gave a control; `timed` says whether `sess->timeout` leads to keep-alives;
`cseq` says whether the present number is on a request already. `evpc` and
`idx` are the place of the event loop and its row of the table; `rx` and `app`
are the places of the receiver and the application. `granted` (what the server
gave each stream), `req` and `reqSid` (the last request) are what the properties
compare against.

| action | code |
|---|---|
| `startRtspClient`, `StartFails`, `SetRtspClientSessionQuit`, `CloseBegins`, `TrykillThread`, `closeRtspClient` | the functions of those names, the close split at its joins |
| `TcpConnect`, `RtspEventLoop`, `RowSkipped`, `PassEnds` | `RtspEventLoop` and the walk of `RtspStatusMachine` |
| `RtspSend...Command`, `SendFails`, `SendKilled` | the first half of each handler: it sends, fails to send, or dies of SIGPIPE |
| `RtspOptionsCommand`, `RtspDescribeCommand`, `VideoSetupAccepted`, `AudioSetupAccepted`, `RtspPlayCommand`, `PlayDone`, `RtspTeardownCommand`, `HandlerRefused`, `SetupNothing` | the second half: the reply and what follows from it |
| `KeepAliveIdle`, `RtspSendGetParameterCommand`, `RtspGetParameterCommand`, `RtspSendKeepAliveOptions`, `KeepAliveOptionsReply`, `KeepAliveReset`, `KeepAliveSendFails` | `RtspKeepAliveCommand` and its two kinds of request |
| `RxFileFails`, `RxLeavesLoop`, `RtspHandleUdpConnectQuits` | the end of the receiver: without its file it returns and asks for nothing, otherwise it asks for TEARDOWN |

A handler is cut into steps where it blocks in `recv` and where another thread
can write `sess->state` between two of its own writes. Four things can come
back from the server: a good reply, an error, bytes without a status line
(for which `RtspCheckResponseStatus` returns -1, which no caller refuses), or
nothing.

`RtspDialogue` is the abstract specification: the order of the requests a session
sends. `RtspSession` implements it under the mapping `last <- DialogueLast`,
`media <- media`: both kinds of keep-alive are one abstract request, all that is
not a request or a description is a stutter.

### RtspOptions

The mask over the life of one session: filled by the first OPTIONS reply, asked
before each keep-alive, added to again whenever a keep-alive falls back to
OPTIONS. Separate from `RtspSession` so that every set of names can be tried.
Its specification is `MaskSpec`; what is proved about it is in `KeepAlive_proof`,
because the mask decides as which request a keep-alive goes out.

### RtspResponse

The byte stream of one connection and the two `recv` calls of
`RtspReceiveResponse`. A reply is a sequence of units (status line,
Content-Length, empty line, body); each `recv` returns any non-empty prefix of
what is there. `whole` records whether the cuts so far were those the function is
written for: a header never cut, and a body that ends in the second `recv`.

### PortAlloc

`GetSomePort` called by several event loops. A call reads the cursor (`Enter`),
probes candidates (`ProbeSucceeds`, `ProbeFails`, `SocketFails`), closes the probe
that could be bound (`ProbeCloses`) and writes the cursor (`Return`). Other
programs take and release ports, those in `Foreign`. `htons` cuts a
candidate to sixteen bits (`Bindable`).

### MediaSockets

The composition of the sessions of a process where they meet: the cursor of
`PortAlloc`, the descriptor table and the UDP ports. The module extends
`PortAlloc`; the steps of an event loop inside `GetSomePort` are the steps of
that module together with the descriptor of the probe, and `SocketsImplementPorts`
proves that every behaviour of the composition is one of `PortAlloc`. `table` says
for each descriptor who opened it for what, `fds` which numbers each session
believes to hold, `cport` is `transport.udp` (a union, so that an unset one reads
as port 256), `ev` and `rx` are the places of the two threads.

| action | code |
|---|---|
| `ConnectOpens`, `ConnectLeaks`, `NoSocket`, `Connected`, `ConnectRefused` | `TcpConnect`: descriptor 0 or a bad address leave without a close |
| `EntersGetSomePort`, `ProbeOpens`, `ProbeBinds`, `ProbeRefused`, `ProbeShuts`, `NoDescriptor`, `SetupAnswered` | `GetSomePort`, and the SETUP reply whose ports go to `transport` (video) or nowhere (audio) |
| `SkipsSetup`, `ExchangeFails`, `RtspPlayCommand` | a stream without a control; an exchange that ends the event loop; the receiver is created or not |
| `CreateRtpServer`, `CreateRtcpServer` | `CreateUdpServer` for each port: a socket that cannot be bound is neither closed nor returned |
| `OpenFile`, `OpenFileFails` | the file of the stream, without which the receiver returns and closes nothing |
| `ClosesFile`, `ClosesRtp`, `ClosesRtcp`, `AsksForTeardown` | the end of the receiver (`RtspHandleUdpConnectQuits`): three closes, each a step, with those of other threads between them, and then TEARDOWN |
| `closeRtspClient` | the close of `sockfd`, which is 0 without a connection |

The kernel is modelled as far as the code leans on it: `socket()` returns the
lowest free descriptor, `close()` frees a number at once, `bind()` to port 0 takes
any port. `disturbed` and `quiet` are history: whose sockets were created around a
descriptor that another session freed, and whether so far no two calls of
`GetSomePort` overlapped and nothing was missing. An exchange with the server is
one step here; `RtspSession` and `RtspResponse` look inside.

### RtpStats and UdpReceiver

`RtpStats` holds operators: the header fields, read through a signed `char`, the
statistics after a packet or a sender report, the receiver report.
`UdpReceiver` is the loop of `RtspHandleUdpConnect`: `Select`, then one RTP
datagram or none (`ReceiveRtp`, `SkipRtp`), one RTCP datagram or none, a report or
none. Its surroundings are actions too: `SendRtp`, `Mishap` (a packet is lost, or
overtakes the one before), `SendRtcp` (sender reports, short ones, SDES, BYE,
compounds and empty datagrams), `Tick`. `heard` (the sequence numbers read) and
`arrived` (the payloads read, in order) are history, for the properties to compare
the statistics and the frames with.

### RtpNal

`UnpackRtpNAL` on real bytes, with a server that cuts NAL units as RFC 3984
describes. `nals` is what the server sent, `left` the rest of the unit it is
sending in fragments, `framebuf` what the receiver has. `together` and `gaps` are
history: which units came in an aggregated packet, and how long the frame was when a
packet was lost. The walk of `UnpackRtpSTAP_A_NAL` is a recursive function over
positions in the packet.

### KeepAlive

When keep-alives fall due, against a server with a timeout, a clock and slow
messages. The step of the clock waits for a due keep-alive, because the event
loop spins. A keep-alive is a GET_PARAMETER, which names the session, or an
OPTIONS, which has no Session header (`CMD_OPTIONS`, `rtsp_type.h:14`): the server is
`lenient` when it counts the second kind too, and `supported` says that it announced
GET_PARAMETER. A mask without GET_PARAMETER leads to either request, because of the
carries of `RtspOptions`.

### SdpParse and SessionData

`SdpParse` has the four calls of `ParseSdpProto` on a description of up to four
lines. `SessionData` puts it into the life of a session: `ParseUrl` takes apart
the URL of the user, `RtspDescribeCommand` runs `SdpParse`, `RtspSetupCommand` asks
for each stream under the URL made of the two and reads ports and session id out
of the reply, `RtspPlayCommand` reads the timeout. A text is a sequence of tokens
(words, numbers, delimiters), so that `strstr` is a search for a word and a scan is
a cut at a delimiter. The user's and the server's side (`Written`, `Reply`) put texts
together from their parts; `AsWritten` compares what the session holds with those parts
and says nothing of parts that were not written. All exchanges succeed here; the ones that do not are in `RtspSession`.

## 3. Runs

Passing runs. All of them switch the deadlock check off: a session that was
closed, a stream that has ended and an environment at its bound really stop.

| run | checks | shows | distinct states |
|---|---|---|---|
| `session` | `TypeOK`, `HandshakeUninterrupted`, `SessionNamesStreams`, `NoUseAfterFree`, `FreshCSeq`, `TeardownKept`, `ImplementsDialogue`, `HandshakeSettles`, `TeardownServed` | all interleavings of application, event loop and receiver, against servers that answer, refuse, answer garbage or close; and that the handshake comes to an end and a TEARDOWN that was not lost ends the event loop | 138,588 |
| `options_mask` | `FirstReplyExact`, `AnnouncedStaysSupported` | every set of names a server may announce, with one of no known method and one that begins like PLAY | 7,660 |
| `reply_framing` | `TypeOK`, `InStep`, `AsksForTheRest` | every cut of three exchanges | 2,152 |
| `ports` | `PairsAligned`, `NextPortDiffers`, `EveryCallReturns` | two sessions race for the cursor, round the range, past busy ports and past the end of the port space | 99,660 |
| `sockets` | `SocketsTypeOK`, `OwnDescriptors`, `SelectSeesRtp`, `QuietBind`, `DescriptorBudget`, `ClosedReleasesAll` | two sessions from connect to close with five descriptors between them, every call of theirs failing where it may | 2,238,218 |
| `receiver_stream` | `TypeOK`, `FramesIntact`, `FrameEndsAtMarker`, `HighestExactBelowSign`, `EveryDatagramRead` | frames (what was read, in the order of reading, cut at the markers) and statistics with and without loss and overtaking; no datagram is left unread | 75,114 |
| `receiver_reports` | `DelayMatchesReport`, `ReportsSpaced`, `OverdueAnswered` | receiver reports among RTCP of every kind | 79,032 |
| `nal_units` | `TypeOK`, `UnitsComplete`, `StartCodesTrue` | unpacking single units, fragments and aggregates, with and without loss | 88,242 |
| `keepalive_timing` | `TypeOK`, `SessionKept`, `ShortTimeoutIsSilent` | timeouts around the margin of five seconds, against servers with and without GET_PARAMETER that do or do not count a request without a session | 172,647 |
| `session_data` | `DataTypeOK`, `OwnControlUsed`, `AsWritten` | URLs with every choice of parts, sections in both orders and session-level attributes, replies with every choice and order of fields | 16,928 |

Two runs end in a violation (`quit_loop`, `nal_stap`) and are described in
[section 7](#7-what-the-checks-found).

### The bounds and why they are enough

* **RtspSession** has no counter. Two session ids are enough to tell a stream
  granted under one from a stream granted under the other. Three servers: one
  with GET_PARAMETER, one without, one that announces nothing; between them
  they take every branch of the keep-alive. `CmdMod = 64`: adding keys modulo
  64 keeps bits 0 to 5 exact, and bit 5, GET_PARAMETER, is the only one
  the session looks at. The number of keep-alives and passes is not bounded.
* **RtspOptions**: `Width = 1024` keeps ten bits, enough for the sum of all keys
  with PLAY counted twice; a carry out of them never changes a lower bit. The
  number of replies is unbounded.
* **RtspResponse**: three exchanges see an `offset` left by the first, misused
  by the second and carried to the third; bodies of none, one and two units let
  a body be absent, whole in the first `recv`, cut, or outstanding altogether.
  `SizeMod = 16` is larger than any length that occurs, so that a negative
  difference wraps to a size larger than the stream, as with 2^32.
* **PortAlloc**: a range of seven even ports a turn (`PORT_BASE = 14`), where the
  real one has 15844, crossed within the three calls of each of two sessions.
  One even port lies above the range, 28, as those above 63374 do; 30 is the end of
  the port space, as 65536 is. The sixth call starts at 26, the last port of the turn:
  a failed `socket()` takes it to 28, and when another program holds that one
  (`Foreign` = a port at the start, at the end and behind the end of the
  range) to 30, which `htons` cuts to port 0. `NextPortDiffers` needs part of the range free: with every
  port of a turn taken, a call comes round to the port it started from. The
  bounds leave one of the seven (`RoomAssumption`).
* **MediaSockets**: two sessions with two calls each are one whole handshake of
  both. `MaxFd = 8` leaves five descriptors for the eight that two sessions
  want at most, so that each kind of `socket()` meets a full table, and enough for
  a session to be set up beside one that leaked. `InterleavedPort = 4` lies
  below the range, as 256 below 31688. The sessions are alike (symmetry). One
  other program takes a UDP port.
* **UdpReceiver**: `Byte = 4` stands for 256: the sign bit of a byte is met at
  the second value instead of the 128th. Four packets give two frames with a
  lost or overtaken packet in the first, the second, or at the marker between.
  The reports run has no RTP packets:
  twelve half seconds hold two reports and the sender reports around them.
* **RtpNal**: units of one, two and six bytes. The last one, `65 00 00 03 00 01`, is
  cut into up to five fragments and holds zeros with an emulation prevention byte
  among them: when the fragment with the 3 is lost, the zeros on either side
  meet. Four units reach two aggregated packets.
* **KeepAlive**: `Timeouts = {4, 5, 6, 9}`: one below the margin, the margin
  itself, one above, and one that leaves room; each against the four kinds of
  server. Twenty-five seconds hold at
  least two keep-alives of each. `Word = 64` is far above the clock, as 2^32 is.
* **SessionData**: four lines are two media lines with a control attribute
  each, or session-level attributes before them. URL, description and replies
  each take all their values while the other two are ordinary, because no code
  reads two of them together except to write one behind the other.

## 4. What the model assumes and leaves out

Assumed of the outside world:

* A server puts the audio stream into the session that the second SETUP names,
  and gives either no Session header or that id (`Granted`). It may put the video
  stream into any session and may leave the header out of either reply.
  `SessionNamesStreams` depends on this.
* A Public header names a method once. A method named twice would be added twice.
  `FirstReplyExact` says nothing of a server that announces PLAY_NOTIFY, which is taken
  for a second PLAY, and `AnnouncedStaysSupported` nothing of one that announces PLAY and
  PAUSE as well: 8 + 8 + 16 carries into the bit of GET_PARAMETER.
* `KeepAlive`: a message takes two seconds at most. A session is kept by a server that
  announced GET_PARAMETER, or that counts a request without a Session header for
  the session of the connection (`Counted`). Any other server forgets the session while it
  plays; the model has these servers, and `SessionKept` promises nothing of them.
* `RtspSession`: fewer than 2^31 passes of the loop. `sess->cseq` is an `int32_t`
  that every pass increments, also one that sends nothing; what the model has
  of it is whether an increment lies between two requests, not the wrap.
* `RtpNal`: NAL units are valid: the forbidden bit is 0, the type is one of a single
  unit, the size fits the two bytes it has in a STAP-A (`NalsAssumption`), and after two
  zeros comes a byte above 2, as the encoder's emulation prevention makes it
  (`EmulationAssumption`).
* `SdpParse`: at most one section of each media type, and each media line names a
  transport. `OwnControlUsed` is about sections with one control that names a track. A
  section without one is set up under the control of the next section, and with
  `a=control:*` no SETUP is sent; both are in the model and promised nothing.
* `SessionData`: a field of a reply comes with its delimiter and at most once;
  addresses and ports fit their buffers; a user name is there when a password
  is. Of what was not written `AsWritten` says nothing: without a port in the URL
  `sess->port` is 0 (nobody uses `RTSP_PORT`), and without client ports in the reply the
  union reads as 256 and 0.
* `PortAlloc`: what can stand in the way of one call, two ports for each, is less than
  the range (`RoomAssumption`: failures of `socket()`, ports of other programs and probes
  of other sessions, for 31688 ports).
* `MediaSockets`: all calls of `GetSomePort` together do not go round the range of ports, and
  the port of an unset union lies below it (`RangeAssumption`: 31688 is far above 256
  and above four times the four sessions of `client.c`). A SETUP reply repeats the client ports it was asked for, or
  names none. The TCP ports of other programs vary in `PortAlloc` only.
* `UdpReceiver`: sequence numbers do not wrap within a run; datagrams are at least
  as long as the headers the code reads; a complete sender report has a non-zero
  time stamp.

Left out of the modelled components:

* The row for GET_PARAMETER in the table: `sess->state` never has that value, and
  the model only skips the row.
* The branches for interleaved TCP: the transport starts as UDP and
  the parser never sets another one for the video stream, because the search
  for `RTP/AVP` also matches `RTP/AVP/TCP` (`rtsp_common.c:361`).
* A second PLAY in one session (`sess->rtpid` set already): no path leads there.
* The bodies of the callbacks `playCb`, `playStartCb`.
* In `RtspResponse`, cuts inside a line and replies larger than the buffer.
* In `UdpReceiver`: sockets that could not be opened and the order of the
  descriptors, which `MediaSockets` has; the length of `framebuf`, jitter, the
  SDES text, byte order.
* `ParseInterleaved` and what depends on it (the branch is not reached), and
  `parse_url_ip`, `parse_url_port` and `CheckRtpSequence`, which nobody calls.
* The command line of `client.c`.

Not modelled:

* the interleaved receiver (`RtspHandleTcpConnect`): no input reaches it;
* the portability layer and the utilities (`port.c`, `utils.c`): wrappers of the
  operating system and a linked list, of which the client uses the thread type and
  byte macros only;
* the build.

## 5. Fairness

* `RtspSession!Fairness`: weak fairness of the event loop's own steps, because the
  scheduler runs a thread that can run; of the steps that need an answer, because
  a server answers or the connection ends; and of the receiver's last two
  statements. Nothing makes the application quit or close, the stream end, or a
  keep-alive fall due.
* `PortAlloc!Fairness`: a thread inside `GetSomePort` keeps running, through its
  probes and their close. Starting a
  call, other programs and failures of `socket()` are not fair.
* `UdpReceiver!LiveSpec`: the receiver's loop keeps running. Server, network and
  clock owe nothing; a failure of `select` or `recvfrom` may happen or not.

The safety properties do not depend on fairness.

## 6. Proofs

The theorems hold for every value of the constants that satisfies the named
assumptions, where the runs look at one value each.

### RtspSession_proof

`IInv` is inductive: `IInvInit` (it holds at the start), `IInvStep` (every one of
the 37 actions keeps it, a step of the proof for each). The properties alone
are not inductive: that a pass of the table ends in KEEPALIVE or TEARDOWN depends
on each row finding the state the row before it wrote, which depends on nobody
else writing `sess->state` before PLAY. So `IInv` says, for each place of the
event loop, what the other fields hold:

* `StartInv`, `ScanInv`, `TopInv`, `AwaitInv`, `BetweenInv`: the state, the row
  and the last request at each place of the thread;
* `RxInv`: no receiver before a PLAY reply, none alive when the loop ended;
* `AppInv`: what the application's place says about the event loop;
* `SidInv`: every stream granted was granted under `sess->sessid`, and the
  request under way carries it;
* `FreshInv`: where a request may be sent, `cseq` is unused;
* `MediaInv`: no description before a DESCRIBE reply.

From it follow `TypeCorrect`, `HandshakeNeverInterrupted`,
`OneSessionForAllStreams`, `FreedSessionIsUnused` (each `Spec => []...`), the
action properties `EveryRequestHasFreshCSeq` and `TeardownIsKept`, and the
refinement `SessionImplementsDialogue` (`DialogueStep`: every step maps to a step
of the dialogue or a stutter). Assumed: `NoSid` is no session id, the servers
announce methods of the table, the mask has a positive width. No bound on session
ids, on servers or on the width.

### KeepAlive_proof

Of `KeepAlive`: `TimesTyped`, `LongSessionKept` and `ShortSessionSilent`, for every set of
timeouts, every word size above the clock, and every delay up to two seconds. What
`LongSessionKept` promises it promises against servers that count the keep-alives they get
(`Counted`): a client whose mask holds GET_PARAMETER sends no other request. The
invariant `KInv` bounds, for each place of an exchange, the time since the server last
heard the client: `timeout - 4` seconds until a keep-alive is due in spite of
truncation, and one delay on each side.

Of `RtspOptions`: `MaskIsExactAfterOneReply` and `GetParameterStaysSupported`, for every
width that holds the sum of all keys (`WidthAssumption`). The invariant says that
the mask is 0 before the first reply, the sum of the announced keys after it, and remains
that sum when GET_PARAMETER is among them and nothing carries into its bit, because no
keep-alive falls back to OPTIONS then.

### MediaSockets_proof

Of `PortAlloc`, for every set of sessions, every even `PORT_BASE` and every bound:

* `AllPairsAligned`. The invariant `AllEven` says that the cursor, every candidate and
  every port are even; two even ports that differ are at least two apart.
* `PortsTyped`. A candidate is not bounded by its own type: it goes up for as
  long as ports are busy. `ReachInv` bounds it: port 0, one turn of the
  sixteen bits further, can always be bound, so that only failures of `socket()` take
  it round again.
* `NextPortIsAnother` (`NextPortDiffers`, under `RoomAssumption`). A call that came back to
  the cursor it read would have climbed a whole turn (`NotRound`). `ClimbInv` counts what
  it can meet without any history: what it has climbed and twice its `Obstacles`
  are never more than twice the `Room` it started with. The obstacles are the busy ports
  ahead of the candidate, the calls of other sessions whose probe may still be
  there (`Rivals`), and the failures and ports of other programs yet to come. A step of the
  candidate leaves the port that refused it behind for good, because the ports of
  one turn differ in their sixteen bits (`ResiduesDiffer`), so that an obstacle is used up
  (`ClimbKept`); nothing adds one (`RivalsFall`, `WindowFalls`).

Of `MediaSockets`, for every number of sessions, every size of the descriptor table and
every range of ports: `SocketsImplementPorts` (the composition implements
`PortAlloc`), `NobodysElseDescriptor`, `RtpSocketIsExamined`, `NothingHeldAfterClose`, `SocketsTyped`,
`FourDescriptorsEach`, `PortsFoundAreBound`, and `SocketPairsAligned`, which `AllPairsAligned`
gives through the first. The invariant `MInv` has a part for each question:

* `PlaceInv`: which descriptors a session holds at each place of its threads;
* `EntryInv`: every entry of the table is known to its owner, or was lost, or
  belongs to a receiver that left without closing. It is what makes
  `OwnDescriptors` inductive: a session closes only numbers it holds, and those
  are its own entries;
* `OrderInv`: between the two sockets of an undisturbed receiver no free
  descriptor lies below the first one, so that the second is higher. Of the
  lowest free descriptor only its existence needs an argument (`Lowest`).

Each action keeps `MInv` by a lemma of its own (the three closes of a receiver share
one, `CloseAndGoOnKeeps`: what the receiver still holds at each of them is in
`PlaceInv`); four lemmas about the table (kept,
opened, lost, freed) carry most of them.

`DescriptorBudget` needs more than who owns what: `CountInv` bounds the entries of a
session by its place (`Limit`), counting those that were lost, and a step takes at
most one more (`CountStep`).

`QuietBind` relates a probe to a bind many steps later. `CallsInv` says that a session
calls at most twice and that no TCP port is taken here. While `quiet` holds,
`CursorInv` says that no two calls overlap, that a candidate is the first one after the
cursor and that the cursor has moved by two for each call that returned, and
`ClientInv` that the pairs the servers repeated lie behind the cursor, one for each
session. While no other program has a UDP port either, `BoundInv` says that a port that
is bound is the one its owner asked for. The arithmetic of the turn (`Turn`,
`CandidateAbove`) needs `RangeAssumption`.

### UdpReceiver_proof

For every stream, every loss and overtaking, and every size of a byte above two
(with two there is no second value behind the sign bit):

* `FramesEndAtMarkers` and `FramesAreIntact`. `StreamInv` ties what is in the socket to what
  the server sent, and `FrameInv` says that no packet in `framebuf` has a marker.
  `ArrivedInv` says that the frames and `framebuf`, one after the other, are the payloads
  read, in the order of reading: a buffer that was overwritten or not reset
  would break it.
  `IntactInv` says that, as long as nothing was lost or overtaken, the packets in the
  socket are the last ones the server sent and those before them are in the frames and
  `framebuf`, in order.
* `HighestIsExactBelowSign`. `HighestInv` says that the highest number is one of the numbers
  heard and none of them is higher, while all are below the sign bit; there the number
  read through signed bytes is the number sent.
* `ReportsAreSpaced` and `DelaysMatchReports`. `QueueInv` says that a datagram `select` saw
  stays until it is read, `ReportsInv` that the statistics name the last complete
  sender report and that `rtcptv` is no older than the last report.
* `ReceiverTypes`. `RangeInv` says that the packets counted were sent and that the first
  number is not above the highest, which keeps the difference that the report calls
  lost in its range.

### RtspResponse_proof

`RepliesStayInStep` and `SecondRecvAsksForTheRest`, for every length of body and
every number of exchanges. `HeaderRead` says what the first `recv` makes of any
part of a reply that holds the header; `StepInv` says that nothing is left over
between exchanges, that the whole reply waits before the first `recv`, and exactly
what is asked for before the second. It assumes that the size passed to `recv`
holds the longest body (`BoundAssumption`). `RepliesTyped` holds for every cut, those
that leave the exchanges out of step included.

### SessionData_proof

`DataTyped`, `ControlsAreOwn` (a section with one control, which names a track, is set up
under it) and `WorksAsWritten` (what was written in URL and replies is what the session
holds), for every URL, description and reply of any length that `InputsAssumption` allows. The searches of the parsers are functions of a
text (`Place`: the first place of one of some words), and what they find is
proved from how the text was put together: `Lacks` says that a part does not hold the
words searched for, and a search through parts goes to the first that does
(`NoPlace` and the lemmas behind it). On it rest one lemma for each parser
(the URL, the four calls on the description, ports, session id and timeout), by
induction over the fields of a reply where one may stand anywhere. `DataInv` then follows
the session through its exchanges: what has been read so far is what was
written, and what has not is as it was.

### RtpNal_proof

`NalTyped`, `UnitsArriveWhole` and `StartCodesAreTrue`, for every set of valid NAL units,
every way to send them and every loss. First what `UnpackRtpNAL` makes of each kind
of packet: `SingleUnpacked`, `FirstUnpacked`, `FragmentUnpacked` (from the bits of the two header
bytes, `FragmentBytes`) and `TogetherUnpacked`, for which the walk is shown to exist
(`WalkExists`, by induction over what is left of the packet) and to take a unit a turn
(`TurnTakesUnit`). Then what a packet adds to the frame: `UnitAdds` (a unit adds its own start
code and no other) and `PartAdds` (a later fragment adds none). The invariant `NalInv`:

* `WholeInv`: without loss, the frame and what is left are the units put
  together; it is `UnitsComplete`, and inductive with the type of `left`;
* `StartsInv`: every start code is followed by a unit, and there is one for each
  at most. It is not inductive: a fragment could complete a start code begun
  by the bytes before it;
* `LeftInv`: `left` is the rest of the last unit, and the last two bytes of the
  frame are the ones before it, unless something was lost there. With
  `EmulationAssumption` no start code can arise between the two.

### SequenceFacts

What several of these proofs need: induction and least elements as facts about
sets of numbers, the elements and parts of joined sequences, and what
`FlattenSeq` gives for a sequence with one more element.

### Only model-checked

Liveness (`HandshakeSettles`, `TeardownServed`, `EveryCallReturns`,
`OverdueAnswered`, `EveryDatagramRead`) is out of the prover's reach.
All other properties of the passing runs are theorems.

The induction theorems of the library take an operator as a parameter, which the
provers cannot instantiate. `SequenceFacts` has induction for sets of numbers
instead (`Induction`, from the fact that numbers are well-founded). It is enough
for recursive functions over positions and lengths, which is what the walks of this code are.

## 7. What the checks found

Two runs end in a counterexample to something a comment or a message of the
program says.

| run | the program says | what happens |
|---|---|---|
| `quit_loop` | `client.c:108` "RTSP Event Loop stopped..." | with the quit flag set, the loop writes TEARDOWN and goes round without calling `RtspStatusMachine`; it never returns, no TEARDOWN is sent, and `closeRtspClient` waits in `pthread_join` for ever |
| `nal_stap` | `rtp.c:141`, the layout of an aggregated packet; the frame is "video/H264" | the low byte of each unit's size is copied between start code and unit |

Of the lost TEARDOWN, `TeardownKept` says that the two windows in which the event
loop overwrites the state without looking (the end of `RtspPlayCommand`, a
keep-alive by OPTIONS) are the only ones, and that is proved.

The definitions follow the code where it departs from its comments in smaller
things too, without a run of their own:

* `rtsp.c:408` says "reset the status"; the constant KEEPALIVE it writes replaces a
  TEARDOWN the receiver wrote during the exchange (`KeepAliveReset`). It is one of
  the two windows of `TeardownKept`.
* `net.c:213` says "use ports 15000-30000"; ports run from 31688 to 63374
  (`FirstCandidate`).
* `rtsp.c:469` prints "closing..." when a GET_PARAMETER keep-alive gets no answer;
  `RtspSendKeepAliveCommand` drops the result and nothing is closed
  (`RtspGetParameterCommand`).
* `rtp.h:122` calls `highest_seq` the highest sequence; the number is read through
  signed bytes, and `HighestExactBelowSign` says how far it can be relied on
  (`ParseSeq`).
* `rtp.h:126` calls `rtp_cum_lost` the packets lost; the packets received cancel
  out of it, and what is left counts packets expected (`ReportStats`).
* `rtsp.h:116` names two transports; a section offered over `RTP/AVP/TCP` is taken
  for UDP (`UdpLines`).

What the composition shows beside its properties: a session without a
connection closes descriptor 0, which is why `OwnDescriptors` excepts it; a receiver
that cannot open its file leaves two bound sockets behind, and one that cannot
bind goes on with -1, which is why `DescriptorBudget` is four and
`ClosedReleasesAll` excepts lost sockets. With three sessions that descriptor 0 may be the
RTP socket of another, which then is open no more or is another socket
(`closeRtspClient`); `QuietBind` excepts it (`Got`), and two sessions are not
enough for TLC to meet it: the proof did. And `SelectSeesRtp` and `QuietBind` hold only with
their history conditions: another session may free a descriptor, or be given the same
ports, between two steps.

A lost fragment can make a start code out of bytes that were never next to each
other: `UnpackRtpFU_A_NAL` appends what comes after the gap to what came before it, and the
byte that kept two zeros and a 1 apart may have been in the fragment that is missing.
`StartCodesTrue` excepts exactly these (`AcrossGap`).

Other behaviour worth knowing is in the hazard list with a note: among others, that
a server without GET_PARAMETER is asked with GET_PARAMETER after enough carries of
the mask, that a failed thread creation is not noticed, and that a send on a dead
connection ends the process.

## 8. Plan

The order followed so far puts the session first (its races and its life cycle
are what the program is about), then what the sessions of a process share, then
the stream, then timing and parsing:

1. `RtspCommands`, `RtspSession`, `RtspDialogue` with their proofs: done.
2. `RtspOptions`, `RtspResponse`: done and proved.
3. `PortAlloc`, `MediaSockets`, the composition of sessions: done and proved.
4. `RtpStats`, `UdpReceiver`, `RtpNal`: done and proved.
5. `KeepAlive`, `SdpParse`, `SessionData`: done and proved.

What comes next:

* **Framing within the session**: replies of `RtspResponse` as what the handlers
  of `RtspSession` get, so that a reply out of step is an exchange of the
  session.
* **Receiver within the session**: `UdpReceiver` in the place of `RxLeavesLoop`,
  with the receiver of `RtspSession` as the specification it implements.
