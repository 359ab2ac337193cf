\* No timeout, timeouts too short for the margin, and the shortest that work;
\* servers with and without GET_PARAMETER, strict and lenient.
SPECIFICATION Spec
CONSTANTS
  Timeouts = {4, 5, 6, 9}
  Word = 64
  Delay = 4
  MaxTime = 50
INVARIANTS
  TypeOK
  SessionKept
  ShortTimeoutIsSilent
CHECK_DEADLOCK FALSE
