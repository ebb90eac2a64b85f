CONSTANTS
  COUNTER_MOD = 16
  RUNTIME_MAX = 8
  LAG = 2
  MaxTime = 5
  MaxStarts = 3
  Days <- MCDays
SPECIFICATION Spec
INVARIANT RuntimeWithinUptime
