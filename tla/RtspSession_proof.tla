-------------------------- MODULE RtspSession_proof --------------------------
(***************************************************************************)
(* Theorems about RtspSession, for every set of session ids, every set of  *)
(* announced methods and every width of the mask.                          *)
(***************************************************************************)
EXTENDS RtspSession, TLAPS

USE DEF Methods, States, Streams, SidOrNo, Replies, Requests, EvPcs, RxPcs,
        AppPcs

-----------------------------------------------------------------------------
(* The tables.                                                             *)

\* The table has seven rows; each handler is found at its own row only.
LEMMA TableRows ==
  /\ Rows = 7
  /\ \A i \in 1 .. Rows :
       /\ rtspcmdhdl[i] = "OPTIONS" <=> i = 1
       /\ rtspcmdhdl[i] = "DESCRIBE" <=> i = 2
       /\ rtspcmdhdl[i] = "SETUP" <=> i = 3
       /\ rtspcmdhdl[i] = "PLAY" <=> i = 4
       /\ rtspcmdhdl[i] = "GET_PARAMETER" <=> i = 5
       /\ rtspcmdhdl[i] = "TEARDOWN" <=> i = 6
       /\ rtspcmdhdl[i] = "KEEPALIVE" <=> i = 7
<1>1. Rows = 7
  BY DEF Rows, rtspcmdhdl
<1>2. /\ rtspcmdhdl[1] = "OPTIONS" /\ rtspcmdhdl[2] = "DESCRIBE"
      /\ rtspcmdhdl[3] = "SETUP" /\ rtspcmdhdl[4] = "PLAY"
      /\ rtspcmdhdl[5] = "GET_PARAMETER" /\ rtspcmdhdl[6] = "TEARDOWN"
      /\ rtspcmdhdl[7] = "KEEPALIVE"
  BY DEF rtspcmdhdl
<1>. QED  BY <1>1, <1>2

\* The keys announced add up to a natural number, so the mask keeps its type.
LEMMA MaskType ==
  ASSUME NEW stats \in 0 .. CmdMod - 1, NEW S
  PROVE  ParseOptionsPublic(stats, S, CmdMod) \in 0 .. CmdMod - 1
<1>1. \A m \in Names : Adds(m, S) \in Nat
  BY DEF Adds, GetCmdTblKey, Prefix, Names, gcmdtbl
<1>2. KeySum(S) \in Nat
  BY <1>1 DEF KeySum, Names
<1>. QED  BY <1>2, CmdModAssumption DEF ParseOptionsPublic

\* A handler runs at its own row.
LEMMA HandlingRow ==
  ASSUME TypeOK, NEW s, Handling(s)
  PROVE  /\ evpc = "scan" /\ state = s /\ idx \in 1 .. 7
         /\ s = "OPTIONS" => idx = 1
         /\ s = "DESCRIBE" => idx = 2
         /\ s = "SETUP" => idx = 3
         /\ s = "PLAY" => idx = 4
         /\ s = "TEARDOWN" => idx = 6
         /\ s = "KEEPALIVE" => idx = 7
BY TableRows DEF Handling, TypeOK

-----------------------------------------------------------------------------
(* The inductive invariant.                                                *)

LEMMA IInvInit == Init => IInv
<1>. SUFFICES ASSUME Init PROVE IInv
  OBVIOUS
<1>1. TypeOK
  <2>1. quit \in BOOLEAN /\ timed \in BOOLEAN /\ usrPlay \in BOOLEAN
    BY Zenon DEF Init
  <2>2. cmdstats \in 0 .. CmdMod - 1 /\ idx \in 1 .. Rows + 1
    BY TableRows, CmdModAssumption DEF Init
  <2>. QED  BY <2>1, <2>2 DEF Init, TypeOK
<1>2. StartInv /\ ScanInv /\ TopInv /\ AwaitInv /\ BetweenInv
  BY DEF Init, StartInv, ScanInv, TopInv, AwaitInv, BetweenInv
<1>3. RxInv /\ AppInv /\ SidInv /\ FreshInv /\ MediaInv
  BY DEF Init, RxInv, AppInv, SidInv, FreshInv, MediaInv
<1>. QED  BY <1>1, <1>2, <1>3 DEF IInv

\* Every step of every thread keeps it.
LEMMA IInvStep == IInv /\ [Next]_vars => IInv'
<1>. SUFFICES ASSUME IInv, [Next]_vars PROVE IInv'
  OBVIOUS
<1>. USE DEF IInv, TypeOK, StartInv, ScanInv, TopInv, AwaitInv, BetweenInv, RxInv,
        AppInv, SidInv, FreshInv, MediaInv, HandshakeScan, Established, BeforePlay,
        LastSetup, Awaiting, evKeeps, dataVars, wireVars, cfgVars, evVars
\* The application thread touches neither the walk nor the wire.
<1>1. CASE StartFails
  BY <1>1 DEF StartFails, appOnly
<1>2. CASE startRtspClient
  BY <1>2, TableRows DEF startRtspClient, appOnly
<1>3. CASE SetRtspClientSessionQuit
  BY <1>3, TableRows DEF SetRtspClientSessionQuit, appOnly
<1>4. CASE CloseBegins
  BY <1>4, TableRows DEF CloseBegins, appOnly
<1>5. CASE TrykillThread
  BY <1>5, TableRows DEF TrykillThread, appOnly
<1>6. CASE closeRtspClient
  BY <1>6, TableRows DEF closeRtspClient, appOnly
\* The loop and the walk.
<1>7. CASE TcpConnect
  BY <1>7, TableRows DEF TcpConnect
<1>8. CASE RtspEventLoop
  BY <1>8, TableRows DEF RtspEventLoop
<1>9. CASE RowSkipped
  BY <1>9, TableRows DEF RowSkipped
<1>10. CASE PassEnds
  BY <1>10, TableRows DEF PassEnds
\* Sends: HandlingRow says at which row, ScanInv in which phase.
<1>11. CASE RtspSendOptionsCommand
  BY <1>11, HandlingRow, TableRows DEF RtspSendOptionsCommand, Send
<1>12. CASE RtspSendDescribeCommand
  BY <1>12, HandlingRow, TableRows DEF RtspSendDescribeCommand, Send
<1>13. CASE RtspSendSetupCommand
  BY <1>13, HandlingRow, TableRows DEF RtspSendSetupCommand, Send
<1>14. CASE RtspSendSetupCommand2
  BY <1>14, HandlingRow, TableRows DEF RtspSendSetupCommand2, Send,
     AtSecondSetup
<1>15. CASE RtspSendPlayCommand
  BY <1>15, HandlingRow, TableRows DEF RtspSendPlayCommand, Send
<1>16. CASE RtspSendTeardownCommand
  BY <1>16, HandlingRow, TableRows DEF RtspSendTeardownCommand, Send
\* Steps of the event loop without an exchange.
<1>17. CASE SendFails
  BY <1>17, HandlingRow, TableRows DEF SendFails
<1>18. CASE SetupNothing
  BY <1>18, HandlingRow, TableRows DEF SetupNothing, SetupDone, HandlerDone
<1>19. CASE PlayDone
  BY <1>19, TableRows DEF PlayDone, HandlerDone
<1>20. CASE KeepAliveIdle
  BY <1>20, HandlingRow, TableRows DEF KeepAliveIdle, HandlerDone
<1>21. CASE RtspSendGetParameterCommand
  BY <1>21, HandlingRow, TableRows DEF RtspSendGetParameterCommand, Send
<1>22. CASE RtspSendKeepAliveOptions
  BY <1>22, HandlingRow, TableRows DEF RtspSendKeepAliveOptions, Send
<1>23. CASE KeepAliveSendFails
  BY <1>23, HandlingRow, TableRows DEF KeepAliveSendFails, HandlerDone
<1>24. CASE SendKilled
  BY <1>24, HandlingRow, TableRows DEF SendKilled
<1>25. CASE KeepAliveReset
  BY <1>25, TableRows DEF KeepAliveReset, HandlerDone
\* Replies.
<1>26. CASE RtspOptionsCommand
  BY <1>26, MaskType, TableRows DEF RtspOptionsCommand, PublicParsed,
     HandlerDone, Succeeds
<1>27. CASE RtspDescribeCommand
  BY <1>27, TableRows DEF RtspDescribeCommand, HandlerDone, Succeeds
<1>28. CASE VideoSetupAccepted
  <2>. USE DEF VideoSetupAccepted, HandlerDone, SetupDone, Granted, ParseSessionID,
           Succeeds
  <2>1. CASE "audio" \in media
    <3>1. TypeOK' /\ SidInv'
      BY <1>28, <2>1
    <3>2. req = "SETUP1" /\ idx = 3 /\ state = "SETUP" /\ "video" \in media
          /\ evpc' = "setup2" /\ cseq' = "unused" /\ rx = "none" /\ app # "init"
      BY <1>28, <2>1
    <3>3. UNCHANGED <<quit, app, rx, req, idx, state, media>>
      BY <1>28, <2>1
    <3>. QED  BY <1>28, <3>1, <3>2, <3>3
  <2>2. CASE "audio" \notin media
    BY <1>28, <2>2, TableRows
  <2>. QED  BY <2>1, <2>2
<1>29. CASE AudioSetupAccepted
  BY <1>29, TableRows DEF AudioSetupAccepted, HandlerDone, SetupDone,
     Granted, ParseSessionID, Succeeds
<1>30. CASE RtspPlayCommand
  BY <1>30, TableRows DEF RtspPlayCommand, HandlerDone, Succeeds
<1>31. CASE RtspTeardownCommand
  BY <1>31, TableRows DEF RtspTeardownCommand, HandlerDone, Succeeds
<1>32. CASE HandlerRefused
  BY <1>32, TableRows DEF HandlerRefused, ConnAfter, Handshake
<1>33. CASE RtspGetParameterCommand
  BY <1>33, TableRows DEF RtspGetParameterCommand, HandlerDone, ConnAfter
<1>34. CASE KeepAliveOptionsReply
  BY <1>34, MaskType, TableRows DEF KeepAliveOptionsReply, PublicParsed,
     ConnAfter
\* The receiver: it exists only in an established session.
<1>35. CASE RxFileFails \/ RxLeavesLoop
  <2>1. CASE RxFileFails
    BY <2>1, TableRows DEF RxFileFails, rxKeeps
  <2>2. CASE RxLeavesLoop
    BY <2>2, TableRows DEF RxLeavesLoop, rxKeeps
  <2> QED
    BY <1>35, <2>1, <2>2
<1>36. CASE RtspHandleUdpConnectQuits
  BY <1>36, TableRows DEF RtspHandleUdpConnectQuits, rxKeeps
<1>37. CASE UNCHANGED vars
  BY <1>37 DEF vars
<1>. QED
  BY <1>1, <1>2, <1>3, <1>4, <1>5, <1>6, <1>7, <1>8, <1>9, <1>10, <1>11,
     <1>12, <1>13, <1>14, <1>15, <1>16, <1>17, <1>18, <1>19, <1>20, <1>21,
     <1>22, <1>23, <1>24, <1>25, <1>26, <1>27, <1>28, <1>29, <1>30, <1>31,
     <1>32, <1>33, <1>34, <1>35, <1>36, <1>37
     DEF Next, AppNext, EvStep, ReplyStep, RxStep

\* The inductive invariant holds in every reachable state.
THEOREM Invariance == Spec => []IInv
BY IInvInit, IInvStep, PTL DEF Spec

\* Every variable keeps its type: the row index of RtspStatusMachine stays in
\* or one past the table, the mask in its width.
THEOREM TypeCorrect == Spec => []TypeOK
<1>1. IInv => TypeOK
  BY DEF IInv
<1>. QED  BY Invariance, <1>1, PTL

-----------------------------------------------------------------------------
(* Safety of the session.                                                  *)

\* The quit flag is looked at only where no handshake is under way.
THEOREM HandshakeNeverInterrupted == Spec => []HandshakeUninterrupted
<1>1. IInv => HandshakeUninterrupted
  BY DEF IInv, TopInv, HandshakeUninterrupted
<1>. QED  BY Invariance, <1>1, PTL

\* PLAY, GET_PARAMETER and TEARDOWN name the session of every granted stream.
THEOREM OneSessionForAllStreams == Spec => []SessionNamesStreams
<1>1. IInv => SessionNamesStreams
  BY DEF IInv, SidInv, SessionNamesStreams
<1>. QED  BY Invariance, <1>1, PTL

\* No thread can touch a session that closeRtspClient has freed.
THEOREM FreedSessionIsUnused == Spec => []NoUseAfterFree
<1>1. IInv => NoUseAfterFree
  BY DEF IInv, AppInv, RxInv, NoUseAfterFree
<1>. QED  BY Invariance, <1>1, PTL

-----------------------------------------------------------------------------
(* Action properties.                                                      *)

\* No request reuses a CSeq.
THEOREM EveryRequestHasFreshCSeq == Spec => FreshCSeq
<1>1. IInv /\ [Next]_vars
        => [evpc # "await" /\ evpc' = "await" => cseq = "unused"]_vars
  <2>. SUFFICES ASSUME IInv, Next, evpc # "await", evpc' = "await"
                PROVE  cseq = "unused"
    BY DEF vars
  <2>1. evpc \in {"scan", "setup2"}
    BY DEF Next, AppNext, EvStep, ReplyStep, RxStep, StartFails,
           startRtspClient, SetRtspClientSessionQuit, CloseBegins,
           TrykillThread, closeRtspClient, TcpConnect, RtspEventLoop,
           Handling, AtSecondSetup, RowSkipped, PassEnds, RxFileFails, RxLeavesLoop,
           RtspHandleUdpConnectQuits, rxKeeps, evVars, RtspSendOptionsCommand,
           RtspSendDescribeCommand, RtspSendSetupCommand, RtspSendSetupCommand2,
           RtspSendPlayCommand, RtspSendTeardownCommand, SendFails,
           SetupNothing, PlayDone, KeepAliveIdle, RtspSendGetParameterCommand,
           RtspSendKeepAliveOptions, KeepAliveSendFails, SendKilled,
           KeepAliveReset, HandlerDone, RtspOptionsCommand, RtspDescribeCommand,
           VideoSetupAccepted, AudioSetupAccepted, RtspPlayCommand,
           RtspTeardownCommand, HandlerRefused, RtspGetParameterCommand,
           KeepAliveOptionsReply, Succeeds, Awaiting
  <2>. QED  BY <2>1 DEF IInv, FreshInv
<1>. QED  BY Invariance, <1>1, PTL DEF Spec, FreshCSeq

\* TEARDOWN is lost in the two windows only.
THEOREM TeardownIsKept == Spec => TeardownKept
<1>1. IInv /\ [Next]_vars
        => [state = "TEARDOWN" /\ ~LossWindow
              => \/ state' = "TEARDOWN"
                 \/ state' = "QUIT" /\ Awaiting("TEARDOWN")]_vars
  <2>. SUFFICES ASSUME IInv, Next, state = "TEARDOWN", ~LossWindow,
                       state' # "TEARDOWN"
                PROVE  state' = "QUIT" /\ Awaiting("TEARDOWN")
    BY DEF vars
  <2>1. ~AppNext
    BY DEF AppNext, StartFails, startRtspClient, SetRtspClientSessionQuit,
           CloseBegins, TrykillThread, closeRtspClient, appOnly
  <2>2. ~RxStep
    BY DEF RxStep, RxFileFails, RxLeavesLoop, RtspHandleUdpConnectQuits
  <2>3. ~EvStep
    BY HandlingRow
       DEF EvStep, TcpConnect, RtspEventLoop, RowSkipped, PassEnds, Send,
           RtspSendOptionsCommand, RtspSendDescribeCommand,
           RtspSendSetupCommand, RtspSendSetupCommand2, RtspSendPlayCommand,
           RtspSendTeardownCommand, SendFails, SetupNothing, PlayDone,
           KeepAliveIdle, RtspSendGetParameterCommand,
           RtspSendKeepAliveOptions, KeepAliveSendFails, SendKilled,
           KeepAliveReset, LossWindow, Handling
  <2>4. CASE ReplyStep
    BY <2>4
       DEF ReplyStep, RtspOptionsCommand, RtspDescribeCommand,
           VideoSetupAccepted, AudioSetupAccepted, RtspPlayCommand,
           RtspTeardownCommand, HandlerRefused, RtspGetParameterCommand,
           KeepAliveOptionsReply, Succeeds, Awaiting, LossWindow, IInv, AwaitInv
  <2>. QED  BY <2>1, <2>2, <2>3, <2>4 DEF Next
<1>. QED  BY Invariance, <1>1, PTL DEF Spec, TeardownKept

-----------------------------------------------------------------------------
(* Refinement.                                                             *)

USE DEF DialogueLast

\* A step that sends nothing and learns no description is a stutter.
LEMMA SilentStep ==
  ASSUME UNCHANGED <<req, media>>
  PROVE  UNCHANGED Dialogue!vars
BY DEF Dialogue!vars

LEMMA DialogueStep == IInv /\ [Next]_vars => [Dialogue!Next]_(Dialogue!vars)
<1>. SUFFICES ASSUME IInv, Next PROVE [Dialogue!Next]_(Dialogue!vars)
  BY SilentStep DEF vars
<1>1. CASE AppNext
  BY <1>1, SilentStep
     DEF AppNext, StartFails, startRtspClient, SetRtspClientSessionQuit,
         CloseBegins, TrykillThread, closeRtspClient, appOnly
<1>2. CASE RxStep
  BY <1>2, SilentStep
     DEF RxStep, RxFileFails, RxLeavesLoop, RtspHandleUdpConnectQuits, rxKeeps, dataVars,
         wireVars
<1>3. CASE ReplyStep /\ ~RtspDescribeCommand
  BY <1>3, SilentStep
     DEF ReplyStep, RtspOptionsCommand, VideoSetupAccepted, AudioSetupAccepted,
         RtspPlayCommand, RtspTeardownCommand, HandlerRefused,
         RtspGetParameterCommand, KeepAliveOptionsReply, dataVars, wireVars
<1>4. CASE RtspDescribeCommand
  <2>1. req = "DESCRIBE" /\ media = {} /\ media' \in SUBSET Streams /\ req' = req
    BY <1>4 DEF RtspDescribeCommand, Succeeds, Awaiting, IInv, MediaInv
  <2>. QED  BY <2>1 DEF Dialogue!Next, Dialogue!Described
<1>5. CASE EvStep
  <2>. USE DEF Send, dataVars, IInv
  <2>1. CASE RtspSendOptionsCommand
    <3>1. req = "none" /\ req' = "OPTIONS" /\ media' = media
      BY <2>1, HandlingRow DEF RtspSendOptionsCommand, ScanInv, HandshakeScan,
         Established
    <3>. QED  BY <3>1 DEF Dialogue!Next, Dialogue!Greet
  <2>2. CASE RtspSendDescribeCommand
    <3>1. req = "OPTIONS" /\ req' = "DESCRIBE" /\ media' = media
      BY <2>2, HandlingRow DEF RtspSendDescribeCommand, ScanInv, HandshakeScan,
         Established
    <3>. QED  BY <3>1 DEF Dialogue!Next, Dialogue!Ask
  <2>3. CASE RtspSendSetupCommand
    <3>1. req = "DESCRIBE" /\ req' = "SETUP1" /\ media' = media
          /\ "video" \in media
      BY <2>3, HandlingRow DEF RtspSendSetupCommand, ScanInv, HandshakeScan,
         Established
    <3>. QED  BY <3>1 DEF Dialogue!Next, Dialogue!SetupVideo
  <2>4. CASE RtspSendSetupCommand2
    <3>1. req' = "SETUP2" /\ media' = media /\ "audio" \in media
      BY <2>4 DEF RtspSendSetupCommand2, AtSecondSetup, BetweenInv
    <3>2. req = IF "video" \in media THEN "SETUP1" ELSE "DESCRIBE"
      BY <2>4, HandlingRow DEF RtspSendSetupCommand2, AtSecondSetup,
         BetweenInv, ScanInv, HandshakeScan, Established
    <3>. QED  BY <3>1, <3>2 DEF Dialogue!Next, Dialogue!SetupAudio
  <2>5. CASE RtspSendPlayCommand
    <3>1. req = LastSetup /\ req' = "PLAY" /\ media' = media
      BY <2>5, HandlingRow DEF RtspSendPlayCommand, ScanInv, HandshakeScan,
         Established
    <3>. QED  BY <3>1 DEF LastSetup, Dialogue!Next, Dialogue!Play
  <2>6. CASE RtspSendTeardownCommand
    <3>1. Established /\ req' = "TEARDOWN" /\ media' = media
      BY <2>6, HandlingRow DEF RtspSendTeardownCommand, ScanInv, HandshakeScan
    <3>. QED  BY <3>1 DEF Established, Dialogue!Next, Dialogue!Teardown
  <2>7. CASE RtspSendGetParameterCommand \/ RtspSendKeepAliveOptions
    <3>1. Established /\ req' \in {"KA_GET", "KA_OPTIONS"} /\ media' = media
      BY <2>7, HandlingRow DEF RtspSendGetParameterCommand,
         RtspSendKeepAliveOptions, ScanInv, HandshakeScan
    <3>. QED  BY <3>1 DEF Established, Dialogue!Next, Dialogue!KeepAlive
  <2>8. CASE TcpConnect \/ RtspEventLoop \/ RowSkipped \/ PassEnds \/ SendFails
             \/ SetupNothing \/ PlayDone \/ KeepAliveIdle
             \/ KeepAliveSendFails \/ SendKilled \/ KeepAliveReset
    BY <2>8, SilentStep
       DEF TcpConnect, RtspEventLoop, RowSkipped, PassEnds, SendFails,
           SetupNothing, PlayDone, KeepAliveIdle, KeepAliveSendFails,
           SendKilled, KeepAliveReset, wireVars
  <2>. QED  BY <1>5, <2>1, <2>2, <2>3, <2>4, <2>5, <2>6, <2>7, <2>8 DEF EvStep
<1>. QED  BY <1>1, <1>2, <1>3, <1>4, <1>5 DEF Next

\* The client speaks the dialogue: the order of requests of every session, with
\* every server and every loss of the connection.
THEOREM SessionImplementsDialogue == Spec => ImplementsDialogue
<1>1. Init => Dialogue!Init
  BY DEF Init, Dialogue!Init
<1>. QED  BY Invariance, DialogueStep, <1>1, PTL
          DEF Spec, ImplementsDialogue, Dialogue!Spec
=============================================================================
