CONSTANTS
  OVERHEAT_CLEAR_X10 = 20
  UINT8_MAX = 2
  SENSOR_FAIL_READS = 2
  MAINTENANCE_INTERVAL_S = 2
  MAINTENANCE_RUN_S = 1
  CONTROL_READ_PERIOD_S = 2
  MANUAL_MIN_S = 1
  MANUAL_MAX_S = 1
  Durations = {9}
  Commands = {}
  Glitches = FALSE
  NewSettings <- MCConfigs
  WDT_S = 2
  MaxTime = 4
  NoReading = NoReading
  Configs <- MCConfigs
  Readings <- TwoReadings
SPECIFICATION Spec
PROPERTY ThresholdsApplyAtNextDecision
