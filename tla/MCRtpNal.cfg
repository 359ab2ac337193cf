\* Single NAL units, fragments and aggregated units, up to two packets lost.
SPECIFICATION Spec
CONSTANTS
  Nals <- NalsForCheck
  MaxNals = 4
  MaxLosses = 2
INVARIANTS
  TypeOK
  UnitsComplete
  StartCodesTrue
CHECK_DEADLOCK FALSE
