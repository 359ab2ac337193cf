\* Two sessions, with five descriptors beside the standard ones for the eight
\* they can hold.  A transport that nobody parsed has a port below the range,
\* as 256 is below 31688.
SPECIFICATION MediaSpec
CONSTANTS
  Sessions = {s1, s2}
  PORT_BASE = 12
  PortSpace = 26
  Foreign = {14}
  MaxCalls = 2
  MaxTaken = 1
  MaxFails = 1
  MaxFd = 8
  InterleavedPort = 4
INVARIANTS
  SocketsTypeOK
  OwnDescriptors
  SelectSeesRtp
  QuietBind
  DescriptorBudget
  ClosedReleasesAll
SYMMETRY Perms
CHECK_DEADLOCK FALSE
