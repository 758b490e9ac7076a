SPECIFICATION Spec
CONSTANTS
  BYTE = 12
  SPI_PACKET_HEADER = 3
  SPI_PWM_HEADER = 4
  SetPoints <- MCSetPoints
  Voltages <- MCVoltages
  COMMAND_TIMEOUT = 1
  MAX_VOLTAGE = 2
  MAX_SETPOINT = 2
  RATED_VOLTAGE = 4
  MAX_MOVE_VOLTAGE = 5
  I_LIMIT = 3
  I_LIMIT_MIN = 1
  I_LIMIT_RATE = 1
  IN_LIMIT_MAX = 1
  Currents <- MCCurrents
  Clicks <- MCClicks
  PidOutputs <- MCPidOutputs
INVARIANTS
  TypeOK
  Resynchronised
PROPERTIES
  NoShootThrough
  SilenceStops
  OverVoltageStops
