CONSTANTS
  OVERHEAT_CLEAR_X10 = 20
  UINT8_MAX = 2
  SENSOR_FAIL_READS = 2
  MAINTENANCE_INTERVAL_S = 2
  MAINTENANCE_RUN_S = 1
  CONTROL_READ_PERIOD_S = 1
  MANUAL_MIN_S = 1
  MANUAL_MAX_S = 1
  Durations = {9}
  Commands = {"start", "stop"}
  Glitches = TRUE
  NewSettings <- MCConfigs
  WDT_S = 1
  MaxTime = 3
  NoReading = NoReading
  Configs <- MCConfigs
  Readings <- TwoReadings
SPECIFICATION Spec
INVARIANTS IInv HeartbeatFresh OverrideEndsInTime RelayRestored ThresholdsInForce
PROPERTY ImplementsLogic
