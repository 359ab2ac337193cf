\* The event loop after the quit flag was set.
SPECIFICATION FairSpec
CONSTANTS
  s1 = s1
  s2 = s2
  Sids <- MCSids
  NoSid = NoSid
  Publics <- MCPublics
  CmdMod <- MCCmdMod
PROPERTY
  QuitStopsLoop
CHECK_DEADLOCK FALSE
