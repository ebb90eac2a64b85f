CONSTANTS
  OVERHEAT_CLEAR_X10 = 20
  UINT8_MAX = 3
  SENSOR_FAIL_READS = 2
  MAINTENANCE_INTERVAL_S = 2
  MAINTENANCE_RUN_S = 2
  MANUAL_MIN_S = 1
  MANUAL_MAX_S = 2
  LAG = 1
  MaxTime = 4
  Configs <- MCConfigs
  Readings <- MCReadings
SPECIFICATION Spec
INVARIANTS ServesTopRule CriticalWaterMoves BlindPumpRuns
  NoMissedMaintenance OverrideIsLive IInv
PROPERTIES MaintenanceOnlyWhenIdle ManualStopHolds KeepsPromise
