\* One session with all its threads, any server: safety, refinement, and
\* liveness under the fairness of the threads.
SPECIFICATION FairSpec
CONSTANTS
  s1 = s1
  s2 = s2
  Sids <- MCSids
  NoSid = NoSid
  Publics <- MCPublics
  CmdMod <- MCCmdMod
INVARIANTS
  TypeOK
  HandshakeUninterrupted
  SessionNamesStreams
  NoUseAfterFree
PROPERTIES
  FreshCSeq
  TeardownKept
  ImplementsDialogue
  HandshakeSettles
  TeardownServed
CHECK_DEADLOCK FALSE
