SPECIFICATION Spec
CONSTANTS
  IR_LIGHT_SIZE = 6
  IR_HISTORY_SIZE = 2
  CF_EVENT_INTERVAL = 2
  CF_WANDER_LENGTH = 1
  CF_ROTATE_DOCK_IMMOBILE_TIMEOUT = 2
  CF_ROTATE_DOCK_FAIL_TIMEOUT = 2
  CLOSE_IMMOBILE = 2
  DOCK_SIDEWAYS = 0
  DOCK_TURN = 1
  DOCK_CYCLE = 2
  LightReadings <- MCLight
  Obstacles <- MCObstacles
  Directions <- MCDirections
  Voltages <- MCVoltages
INVARIANTS
  TypeOK
  NeverWraps
PROPERTIES
  FreshHistory
  DockingEnds
  BlockedCloseEnds
  ImplementsSearch
