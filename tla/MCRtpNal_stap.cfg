\* Two NAL units in one packet.
SPECIFICATION Spec
CONSTANTS
  Nals <- NalsForCheck
  MaxNals = 2
  MaxLosses = 0
INVARIANT FrameIsByteStream
CHECK_DEADLOCK FALSE
