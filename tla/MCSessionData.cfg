\* Descriptions of up to four lines, URLs with every choice of parts, replies
\* with every choice and order of fields.
SPECIFICATION DataSpec
CONSTANTS
  Controls = {"track1", "rtsp://h/track2"}
  MaxLines = 4
  Words <- WordsForCheck
  Inputs <- InputsForCheck
  Absolute = {"rtsp://h/track2"}
  Interleaved = 256
INVARIANTS
  DataTypeOK
  OwnControlUsed
  AsWritten
CHECK_DEADLOCK FALSE
