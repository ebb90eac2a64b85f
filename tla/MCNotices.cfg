CONSTANTS
  OVERHEAT_CLEAR_X10 = 20
  UINT8_MAX = 2
  SENSOR_FAIL_READS = 2
  MAINTENANCE_INTERVAL_S = 1
  MAINTENANCE_RUN_S = 1
  Durations = {1}
  MaxTime = 2
  NoDocument = NoDocument
  NoEvent = NoEvent
  EVENTS_RING_SIZE = 2
  Configs <- MCConfigs
  Readings <- MCReadings
SPECIFICATION NoticeSpec
INVARIANT FailSafeIsTold
