CONSTANTS
  COUNTER_MOD = 64
  RUNTIME_MAX = 8
  LAG = 2
  MaxTime = 5
  MaxStarts = 3
  Days <- MCDays
SPECIFICATION Spec
INVARIANTS IngestInv RuntimeIsRunLengths RuntimeNearPumping StartsOfDay StoredIsRunTime
