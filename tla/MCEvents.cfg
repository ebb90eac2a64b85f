CONSTANTS
  OVERHEAT_CLEAR_X10 = 20
  UINT8_MAX = 1
  SENSOR_FAIL_READS = 1
  MAINTENANCE_INTERVAL_S = 100
  MAINTENANCE_RUN_S = 1
  Durations = {1}
  MaxTime = 1
  NoDocument = NoDocument
  NoEvent = NoEvent
  EVENTS_RING_SIZE = 2
  Configs <- MCConfigs
  Readings <- ThreeReadings
SPECIFICATION FairSpec
INVARIANTS IInv LogTellsState RetainedTellsPump
PROPERTIES LogKeepsRecent FeedCatchesUp
