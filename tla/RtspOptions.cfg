\* The mask for each of the 2048 sets of names a server may announce.  Ten bits
\* keep every sum of keys; additions above them cannot change a lower bit.
SPECIFICATION MaskSpec
CONSTANT Width = 1024
INVARIANTS
  FirstReplyExact
  AnnouncedStaysSupported
CHECK_DEADLOCK FALSE
