\* Packets may be lost or overtake one another; sequence numbers cross the
\* sign bit of their low byte and of their high byte.
SPECIFICATION LiveSpec
CONSTANTS
  Byte = 4
  Isns = {0, 4, 5}
  MaxPackets = 4
  MaxMishaps = 2
  MaxRtcp = 0
  MaxTime = 1
INVARIANTS
  TypeOK
  FramesIntact
  FrameEndsAtMarker
  HighestExactBelowSign
PROPERTY EveryDatagramRead
CHECK_DEADLOCK FALSE
