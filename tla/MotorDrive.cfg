SPECIFICATION Spec
CONSTANTS
  MOTOR_MAX_SPEED = 3
  MOTOR_TIMEOUT = 3
  MOTOR_SLEW_RATE = 1
  SlewCommands <- MCSlews
  XYThetaCommands <- MCXYTheta
  VoltageCommands <- MCVoltages
  SpeedCommands <- MCSpeeds
  Mixes <- MCPureAndInit
  PowerReplies <- MCReplies
INVARIANTS
  TypeOK
  SlewEndsAtFinal
PROPERTIES
  SlewRateLimited
  NoOvershoot
  QuietOneKindStops
