---------------------------- MODULE MediaSockets ----------------------------
(***************************************************************************)
(* The sockets of a process that runs several sessions (client.c runs      *)
(* four).  Each event loop opens a TCP connection (TcpConnect), asks       *)
(* GetSomePort for the ports of its SETUP requests, and PLAY starts a      *)
(* receiver, which binds the ports only then (CreateUdpServer) and closes  *)
(* them when the stream ends.  closeRtspClient closes the connection.      *)
(*                                                                         *)
(* The sessions share the cursor of PortAlloc, the descriptor table of the *)
(* process, where the kernel gives out the lowest free number, and the UDP *)
(* ports of the host.  GetSomePort probes with TCP sockets, so that it     *)
(* cannot see who holds a UDP port.                                        *)
(*                                                                         *)
(* The steps of a session inside GetSomePort are those of PortAlloc, with  *)
(* the descriptor of the probe.  An exchange with the server is one step:  *)
(* RtspSession and RtspResponse look inside.                               *)
(***************************************************************************)
EXTENDS PortAlloc, FiniteSets, TLC

CONSTANTS
  MaxFd,            \* descriptors of the process, RLIMIT_NOFILE
  InterleavedPort   \* cport_from of a transport nobody parsed: 256

\* The descriptors 0, 1 and 2 are open at the start.
ASSUME SocketsAssumption ==
  /\ MaxFd \in Nat /\ MaxFd > 2
  /\ InterleavedPort \in Nat
  /\ "nobody" \notin Sessions /\ "process" \notin Sessions

\* All the calls of GetSomePort together do not go round the range, and the port
\* of the union is below it: 31688 is far above 256 and four times the four
\* sessions of client.c.
ASSUME RangeAssumption ==
  /\ IsFiniteSet(Sessions) /\ 4 * Cardinality(Sessions) < PORT_BASE
  /\ InterleavedPort < PORT_BASE

VARIABLES
  table,        \* the descriptor table: what each descriptor stands for
  ev,           \* where each event loop stands
  cport,        \* transport.udp.cport_from and cport_to of each session
  rx,           \* where each receiver stands
  fds,          \* the descriptors each session believes to hold
  udpBusy,      \* UDP ports other programs hold
  disturbed,    \* history: receivers with a descriptor freed between their sockets
  quiet         \* history: no calls overlapped, no descriptor or port was missing

sockVars  == <<table, ev, cport, rx, fds, udpBusy, disturbed, quiet>>
mediaVars == <<vars, sockVars>>

Fds == 0 .. MaxFd - 1

\* What a session holds a descriptor for; "lost" is a socket nobody has the
\* number of any more.
Uses == {"tcp", "probe", "rtp", "rtcp", "file"}

Entry(s, use, p) == [owner |-> s, use |-> use, port |-> p]
Owner(fd) == table[fd].owner
Use(fd)   == table[fd].use
Bound(fd) == table[fd].port

Free  == Entry("nobody", "free", 0)
Stdio == Entry("process", "stdio", 0)

\* transport is a union: the interleaved channels 0 and 1 that
\* InitRtspClientSession writes are bytes 0 and 1 of cport_from.
InterleavedDefault == [from |-> InterleavedPort, to |-> 0]

\* The pair that SETUP asks for and the reply repeats.
ClientPorts(p) == [from |-> p, to |-> p + 1]

EvPlaces == {"connect", "connecting", "setup1", "video", "setup2", "audio", "play",
             "up", "ended", "closed"}
RxPlaces == {"none", "rtp", "rtcp", "file", "loop", "closertp", "closertcp", "teardown",
             "gone", "done"}

SocketsTypeOK ==
  /\ TypeOK
  /\ table \in [Fds -> [owner : Sessions \cup {"nobody", "process"},
                        use : Uses \cup {"lost", "free", "stdio"},
                        port : 0 .. PortSpace - 1]]
  /\ ev \in [Sessions -> EvPlaces]
  /\ cport \in [Sessions -> [from : Candidates, to : 0 .. PortSpace * (MaxFails + 1) + 1]]
  /\ rx \in [Sessions -> RxPlaces]
  /\ fds \in [Sessions -> [Uses -> -1 .. MaxFd - 1]]
  /\ udpBusy \subseteq Foreign
  /\ disturbed \subseteq Sessions
  /\ quiet \in BOOLEAN

\* calloc leaves sockfd at 0; the other descriptors are locals.
MediaInit ==
  /\ Init
  /\ table = [fd \in Fds |-> IF fd <= 2 THEN Stdio ELSE Free]
  /\ ev = [s \in Sessions |-> "connect"]
  /\ cport = [s \in Sessions |-> InterleavedDefault]
  /\ rx = [s \in Sessions |-> "none"]
  /\ fds = [s \in Sessions |-> [u \in Uses |-> IF u = "tcp" THEN 0 ELSE -1]]
  /\ udpBusy = {}
  /\ disturbed = {}
  /\ quiet = TRUE

-----------------------------------------------------------------------------
(* The kernel                                                              *)

FreeFds == {fd \in Fds : Use(fd) = "free"}

\* socket() fails with EMFILE.
Full == FreeFds = {}

\* socket() returns the lowest descriptor.
NewFd == CHOOSE fd \in FreeFds : \A g \in FreeFds : fd <= g

\* The new descriptor stands for what s opened for this use.
Opens(s, use, p) == table' = [table EXCEPT ![NewFd] = Entry(s, use, p)]

\* close() of these numbers.  -1 is no descriptor, and a number that is not
\* open is left alone.  A receiver between its two sockets is disturbed.
Frees(numbers) ==
  table' = [fd \in Fds |-> IF fd \in numbers THEN Free ELSE table[fd]]

Disturbed == disturbed \cup {t \in Sessions : rx[t] = "rtcp"}

Closes(numbers) == Frees(numbers) /\ disturbed' = Disturbed

Moves(place, s, to) == place' = [place EXCEPT ![s] = to]

Holds(s, use, fd) == fds' = [fds EXCEPT ![s][use] = fd]

\* UDP ports that are taken, by this process or another one.
UdpTaken == udpBusy \cup ({Bound(fd) : fd \in Fds} \ {0})

\* Where bind() of a UDP socket may lead.  For port 0 the kernel takes any
\* free port: 0 stands for the ports nobody else asks for.
BoundTo(p) ==
  IF p % PortSpace = 0 THEN {0} \cup (Foreign \ UdpTaken) ELSE {p % PortSpace} \ UdpTaken

\* bind() cannot be refused, unless the port needs a privilege.
MustBind(p) == BoundTo(p) # {} /\ p # InterleavedPort

-----------------------------------------------------------------------------
(* The event loop                                                          *)

\* TcpConnect: the socket.  Descriptor 0 is taken for an error, and an address
\* that inet_pton refuses leaves the function; neither closes the socket.
ConnectOpens(s) ==
  /\ ev[s] = "connect"
  /\ ~Full /\ NewFd > 0
  /\ Opens(s, "tcp", 0)
  /\ Holds(s, "tcp", NewFd)
  /\ Moves(ev, s, "connecting")
  /\ UNCHANGED <<vars, cport, rx, udpBusy, disturbed, quiet>>

ConnectLeaks(s) ==
  /\ ev[s] = "connect"
  /\ ~Full
  /\ Opens(s, "lost", 0)
  /\ Moves(ev, s, "ended")
  /\ UNCHANGED <<vars, cport, rx, fds, udpBusy, disturbed, quiet>>

\* socket() fails, for lack of descriptors or memory.
NoSocket(s) ==
  /\ ev[s] = "connect"
  /\ Moves(ev, s, "ended")
  /\ UNCHANGED <<vars, table, cport, rx, fds, udpBusy, disturbed, quiet>>

\* The connection is there and its descriptor becomes sess->sockfd.
Connected(s) ==
  /\ ev[s] = "connecting"
  /\ Moves(ev, s, "setup1")
  /\ UNCHANGED <<vars, table, cport, rx, fds, udpBusy, disturbed, quiet>>

\* connect() fails, the socket is closed and sockfd stays 0.
ConnectRefused(s) ==
  /\ ev[s] = "connecting"
  /\ Closes({fds[s]["tcp"]})
  /\ Holds(s, "tcp", 0)
  /\ Moves(ev, s, "ended")
  /\ UNCHANGED <<vars, cport, rx, udpBusy, quiet>>

TcpConnect(s) ==
  ConnectOpens(s) \/ ConnectLeaks(s) \/ NoSocket(s) \/ Connected(s) \/ ConnectRefused(s)

\* RtspSendSetupCommand and RtspSendSetupCommand2 call GetSomePort.
EntersGetSomePort(s) ==
  /\ \/ ev[s] = "setup1" /\ Moves(ev, s, "video")
     \/ ev[s] = "setup2" /\ Moves(ev, s, "audio")
  /\ Enter(s)
  /\ quiet' = (quiet /\ \A t \in Sessions : pc[t] = "out")
  /\ UNCHANGED <<table, cport, rx, fds, udpBusy, disturbed>>

\* The description has no control for the stream.
SkipsSetup(s) ==
  /\ \/ ev[s] = "setup1" /\ Moves(ev, s, "setup2")
     \/ ev[s] = "setup2" /\ Moves(ev, s, "play")
  /\ UNCHANGED <<vars, table, cport, rx, fds, udpBusy, disturbed, quiet>>

\* socket() gives the probe of the candidate a descriptor.
ProbeOpens(s) ==
  /\ pc[s] = "probing" /\ fds[s]["probe"] = -1
  /\ ~Full
  /\ Opens(s, "probe", 0)
  /\ Holds(s, "probe", NewFd)
  /\ UNCHANGED <<vars, ev, cport, rx, udpBusy, disturbed, quiet>>

ProbeBinds(s) ==
  /\ fds[s]["probe"] # -1
  /\ ProbeSucceeds(s)
  /\ UNCHANGED sockVars

\* The probe is closed whether it could be bound or not.
ProbeRefused(s) ==
  /\ fds[s]["probe"] # -1
  /\ ProbeFails(s)
  /\ Closes({fds[s]["probe"]})
  /\ Holds(s, "probe", -1)
  /\ UNCHANGED <<ev, cport, rx, udpBusy, quiet>>

\* A probe that is never closed.
ProbeForgotten(s) ==
  /\ ProbeCloses(s)
  /\ Holds(s, "probe", -1)
  /\ UNCHANGED <<table, ev, cport, rx, udpBusy, disturbed, quiet>>

ProbeShuts(s) ==
  /\ ProbeCloses(s)
  /\ Closes({fds[s]["probe"]})
  /\ Holds(s, "probe", -1)
  /\ UNCHANGED <<ev, cport, rx, udpBusy, quiet>>

NoDescriptor(s) ==
  /\ fds[s]["probe"] = -1
  /\ SocketFails(s)
  /\ Full
  /\ quiet' = FALSE
  /\ UNCHANGED <<table, ev, cport, rx, fds, udpBusy, disturbed>>

\* SETUP is sent and answered.  ParseUdpPort takes the client ports that the
\* server repeats in its video reply, and leaves the transport alone when there
\* are none; those of the audio stream go to transport2, which nobody reads.
SetupAnswered(s) ==
  /\ Return(s)
  /\ IF ev[s] = "video"
     THEN cport' \in {cport, [cport EXCEPT ![s] = ClientPorts(candidate[s])]}
     ELSE UNCHANGED cport
  /\ Moves(ev, s, IF ev[s] = "video" THEN "setup2" ELSE "play")
  /\ UNCHANGED <<table, rx, fds, udpBusy, disturbed, quiet>>

\* An exchange fails and the event loop returns.
ExchangeFails(s) ==
  /\ ev[s] \in {"setup1", "setup2", "play"}
  /\ Moves(ev, s, "ended")
  /\ UNCHANGED <<vars, table, cport, rx, fds, udpBusy, disturbed, quiet>>

\* RtspPlayCommand: the receiver starts, unless the user brings a playStartCb
\* or no thread can be created.
RtspPlayCommand(s) ==
  /\ ev[s] = "play"
  /\ Moves(ev, s, "up")
  /\ \E place \in {"rtp", "none"} : Moves(rx, s, place)
  /\ UNCHANGED <<vars, table, cport, fds, udpBusy, disturbed, quiet>>

\* The event loop has returned, after the TEARDOWN its receiver asked for or
\* before.  The application has joined it and closes sockfd, which is 0 when
\* there was no connection.
closeRtspClient(s) ==
  /\ ev[s] = "ended" \/ (ev[s] = "up" /\ rx[s] = "done")
  /\ Moves(ev, s, "closed")
  /\ Closes({fds[s]["tcp"]})
  /\ cport' = [cport EXCEPT ![s] = InterleavedDefault]
  /\ fds' = [fds EXCEPT ![s] = [u \in Uses |-> -1]]
  /\ UNCHANGED <<vars, rx, udpBusy, quiet>>

-----------------------------------------------------------------------------
(* The receiver                                                            *)

\* CreateUdpServer: socket and bind.  A socket that cannot be bound is not
\* closed, and its number is not returned.
Binds(s, use, p) ==
  /\ ~Full
  /\ \E q \in BoundTo(p) : Opens(s, use, q)
  /\ Holds(s, use, NewFd)

BindFails(s, p) ==
  /\ ~Full /\ ~MustBind(p)
  /\ Opens(s, "lost", 0)
  /\ UNCHANGED fds

NoServer == Full /\ UNCHANGED <<table, fds>>

\* A server that returns the number of a socket it could not bind.
CreateUdpServerUnbound(s, use, p) ==
  \/ Binds(s, use, p) \/ NoServer
  \/ ~MustBind(p) /\ ~Full /\ Opens(s, "lost", 0) /\ Holds(s, use, NewFd)

CreateUdpServer(s, use, p) == Binds(s, use, p) \/ BindFails(s, p) \/ NoServer

\* The sockets in the wrong order.
RtcpFirst == [rtp |-> "rtcp", rtcp |-> "rtp"]

\* The receiver opens the RTP socket first.
SocketOrder == [rtp |-> "rtp", rtcp |-> "rtcp"]

\* The next socket of the receiver (RtspHandleUdpConnect).
OpensServer(s, place, next) ==
  LET use == SocketOrder[place]
      p   == IF use = "rtp" THEN cport[s].from ELSE cport[s].to
  IN  /\ rx[s] = place
      /\ CreateUdpServer(s, use, p)
      /\ quiet' = (quiet /\ ~Full /\ p % PortSpace # 0)
      /\ Moves(rx, s, next)
      /\ UNCHANGED <<vars, ev, cport, udpBusy, disturbed>>

CreateRtpServer(s)  == OpensServer(s, "rtp", "rtcp")
CreateRtcpServer(s) == OpensServer(s, "rtcp", "file")

\* The build saves the stream to a file.
OpenFile(s) ==
  /\ rx[s] = "file"
  /\ ~Full
  /\ Opens(s, "file", 0)
  /\ Holds(s, "file", NewFd)
  /\ Moves(rx, s, "loop")
  /\ UNCHANGED <<vars, ev, cport, udpBusy, disturbed, quiet>>

\* The locals of the receiver are gone.
ForgetsMedia(s) ==
  fds' = [fds EXCEPT ![s] = [u \in Uses |-> IF u = "tcp" THEN fds[s]["tcp"] ELSE -1]]

\* Without it the receiver returns, closes nothing and asks for no TEARDOWN.
OpenFileFails(s) ==
  /\ rx[s] = "file"
  /\ Moves(rx, s, "gone")
  /\ ForgetsMedia(s)
  /\ disturbed' = disturbed \ {s}
  /\ UNCHANGED <<vars, table, ev, cport, udpBusy, quiet>>

\* The receiver closes one of its descriptors and goes on to the next; other
\* threads open descriptors in between.
CloseAndGoOn(s, place, use, next) ==
  /\ rx[s] = place
  /\ Frees({fds[s][use]})
  /\ disturbed' = Disturbed \ {s}
  /\ Holds(s, use, -1)
  /\ Moves(rx, s, next)
  /\ UNCHANGED <<vars, ev, cport, udpBusy, quiet>>

\* A receiver that keeps its file open.
QuitsWithoutFclose(s) ==
  /\ rx[s] = "loop"
  /\ disturbed' = disturbed \ {s}
  /\ Holds(s, "file", -1)
  /\ Moves(rx, s, "closertp")
  /\ UNCHANGED <<vars, table, ev, cport, udpBusy, quiet>>

\* BYE, or an error of select or recvfrom, ends the loop.
ClosesFile(s) == CloseAndGoOn(s, "loop", "file", "closertp")
ClosesRtp(s)  == CloseAndGoOn(s, "closertp", "rtp", "closertcp")
ClosesRtcp(s) == CloseAndGoOn(s, "closertcp", "rtcp", "teardown")

\* Only then does it ask the event loop for the TEARDOWN.
AsksForTeardown(s) ==
  /\ rx[s] = "teardown"
  /\ Moves(rx, s, "done")
  /\ UNCHANGED <<vars, table, ev, cport, fds, udpBusy, disturbed, quiet>>

RtspHandleUdpConnectQuits(s) ==
  ClosesFile(s) \/ ClosesRtp(s) \/ ClosesRtcp(s) \/ AsksForTeardown(s)

-----------------------------------------------------------------------------
(* The whole                                                               *)

GetSomePortStep(s) ==
  \/ EntersGetSomePort(s) \/ ProbeOpens(s) \/ ProbeBinds(s) \/ ProbeRefused(s)
  \/ ProbeShuts(s) \/ NoDescriptor(s) \/ SetupAnswered(s)

EvStep(s) ==
  \/ TcpConnect(s) \/ GetSomePortStep(s) \/ SkipsSetup(s)
  \/ ExchangeFails(s) \/ RtspPlayCommand(s) \/ closeRtspClient(s)

RxStep(s) ==
  \/ CreateRtpServer(s) \/ CreateRtcpServer(s) \/ OpenFile(s) \/ OpenFileFails(s)
  \/ RtspHandleUdpConnectQuits(s)

\* Other programs take UDP ports.  The TCP ports they take are in PortAlloc.
OccupyUdp(p) ==
  /\ p \notin UdpTaken
  /\ Cardinality(udpBusy) < MaxTaken
  /\ udpBusy' = udpBusy \cup {p}
  /\ UNCHANGED <<vars, table, ev, cport, rx, fds, disturbed, quiet>>

MediaNext ==
  \/ \E s \in Sessions : EvStep(s) \/ RxStep(s)
  \/ \E p \in Foreign : OccupyUdp(p)

MediaSpec == MediaInit /\ [][MediaNext]_mediaVars

\* The sessions are alike.
Perms == Permutations(Sessions)

-----------------------------------------------------------------------------
(* Properties                                                              *)

\* No session works on, or closes, a descriptor that belongs to another one,
\* although the kernel gives numbers out again: what a session takes for its
\* connection, its probe, its sockets or its file is that.  Descriptor 0 is
\* the exception, because a session without a connection closes it
\* (closeRtspClient, CreateUdpServer, RtspHandleUdpConnect).
OwnDescriptors ==
  \A s \in Sessions, u \in Uses :
    fds[s][u] > 0 => Owner(fds[s][u]) = s /\ Use(fds[s][u]) = u

\* select() is given rtcpfd + 1 (RtspHandleUdpConnect), so that the RTP socket
\* is examined only when it has the lower descriptor.  It has, unless another
\* session freed a descriptor between the two calls of socket().
SelectSeesRtp ==
  \A s \in Sessions :
    rx[s] \in {"file", "loop"} /\ s \notin disturbed /\ fds[s]["rtcp"] >= 0
      => fds[s]["rtp"] < fds[s]["rtcp"]

\* The socket is open and bound to p, unless it is descriptor 0.
Got(s, use, p) ==
  fds[s][use] >= 0 /\ (fds[s][use] > 0 => Bound(fds[s][use]) = p)

\* The ports that GetSomePort found with a TCP probe can still be bound for UDP
\* when the stream starts, many steps later: as long as no two calls of
\* GetSomePort overlapped, descriptors sufficed and neither another program nor
\* the kernel chose a port, a receiver whose SETUP reply named the ports gets
\* both of them.  It keeps them, but for a socket that got descriptor 0: a
\* session without a connection closes that one.
QuietBind ==
  \A s \in Sessions :
    quiet /\ udpBusy = {} /\ cport[s] # InterleavedDefault =>
      /\ rx[s] \in {"rtcp", "file", "loop"} => Got(s, "rtp", cport[s].from)
      /\ rx[s] \in {"file", "loop"} => Got(s, "rtcp", cport[s].to)

OwnedBy(s) == {fd \in Fds : Owner(fd) = s}

\* A session never takes more than four descriptors of the process, whatever
\* fails and whatever is lost on the way: sixteen for the four sessions of
\* main (GetSomePort, TcpConnect, CreateUdpServer, RtspHandleUdpConnect).
DescriptorBudget == \A s \in Sessions : Cardinality(OwnedBy(s)) <= 4

\* A session that was closed holds no descriptor any more, but for sockets
\* that failed halfway in TcpConnect or CreateUdpServer (closeRtspClient).
ClosedReleasesAll ==
  \A s \in Sessions : ev[s] = "closed" => \A fd \in OwnedBy(s) : Use(fd) = "lost"
=============================================================================
