\* Three exchanges, bodies of none to two units, every cut of the stream.
SPECIFICATION Spec
CONSTANTS
  MaxExchanges = 3
  Bodies = {0, 1, 2}
  SizeMod = 16
INVARIANTS
  TypeOK
  InStep
  AsksForTheRest
CHECK_DEADLOCK FALSE
