SPECIFICATION Spec
CONSTANTS
  LOW_VOLT_COUNT = 3
  CHARGE_VOLTAGE_DELAY = 2
  BAT_COUNT_MAX = 4
  BAT_COUNT_BAD = 3
  BAT_COUNT_GOOD = 1
  INITIAL_SAMPLES = 4
  SystemVoltages <- MCSystemVoltages
  BatteryVoltages <- MCBatteryVoltages
INVARIANTS
  TypeOK
  ResumePoint
  OneCharger
  ChargerOfStage
PROPERTIES
  FatalUntilReset
  StageAdvances
