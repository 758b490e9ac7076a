SPECIFICATION Spec
CONSTANTS
  alice = alice
  bob = bob
  stop = stop
  shine = shine
  None = None
  Client <- MCClient
  Action <- MCAction
INVARIANTS
  TypeOK
  WholePackets
  OpenListed
PROPERTIES
  HandedOverIsWritten
  SpinEnds
CHECK_DEADLOCK FALSE
