SPECIFICATION Spec
CONSTANTS
  MOTOR_MAX_SPEED = 2
  MOTOR_TIMEOUT = 3
  MOTOR_SLEW_RATE = 1
  SlewCommands <- MCSlewsAndStop
  XYThetaCommands <- MCXYTheta
  VoltageCommands <- MCVoltages
  SpeedCommands = {}
  Mixes <- MCMixed
  PowerReplies <- MCReplies
PROPERTIES
  QuietStops
