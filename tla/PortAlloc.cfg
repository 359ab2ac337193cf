\* Two sessions race for the cursor, another program takes a port and one
\* socket() fails.  Seven even ports a turn and one above them, that only a busy
\* port or a failure leads to, as the ports above 63374 in the program.  The
\* sixth call starts at 26, the last port of the turn: the failure takes it to
\* 28, the last port of all, and if that is taken to 30, past the port space.
SPECIFICATION LiveSpec
CONSTANTS
  Sessions = {s1, s2}
  PORT_BASE = 14
  PortSpace = 30
  Foreign = {16, 26, 28}
  MaxCalls = 3
  MaxTaken = 1
  MaxFails = 1
INVARIANTS
  PairsAligned
PROPERTIES
  NextPortDiffers
  EveryCallReturns
CHECK_DEADLOCK FALSE
