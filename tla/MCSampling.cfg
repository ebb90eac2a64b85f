CONSTANTS
  CONTROL_READ_PERIOD_S = 1
  HISTORY_PERIOD_S = 4
  HISTORY_SAMPLES = 3
  BITS = 2
  HISTORY_NO_READING = HISTORY_NO_READING
  DELAY = 2
  MaxTime = 20
  Temperatures <- MCTimes
SPECIFICATION Spec
INVARIANTS NeverDrawnTooEarly DrawnDrift
PROPERTY HistoryKeepsRecent
