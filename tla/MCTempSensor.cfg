CONSTANTS
  OVERHEAT_CLEAR_X10 = 20
  UINT8_MAX = 4
  SENSOR_FAIL_READS = 3
  MAINTENANCE_INTERVAL_S = 1
  MAINTENANCE_RUN_S = 1
  SENSOR_POWER_ON_VALUE_X10 = 850
  Sensors = {a, b}
  NoSensor = NoSensor
  Values <- MCValues
  Thresholds <- MCThresholds
SPECIFICATION SensorSpec
INVARIANTS SwapIsFound DriverNotAhead
PROPERTY SwapPassesFailSafe
