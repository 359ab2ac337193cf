\* Two receiver reports, and up to two RTCP datagrams of the server in any
\* order around them, over six seconds.
SPECIFICATION LiveSpec
CONSTANTS
  Byte = 4
  Isns = {0}
  MaxPackets = 0
  MaxMishaps = 0
  MaxRtcp = 2
  MaxTime = 12
PROPERTIES
  DelayMatchesReport
  ReportsSpaced
  OverdueAnswered
CHECK_DEADLOCK FALSE
