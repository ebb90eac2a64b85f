CONSTANTS
  START_DEFAULT_X10 = 300
  STOP_DEFAULT_X10 = 250
  CRITICAL_DEFAULT_X10 = 450
  START_MIN_X10 = 200
  START_MAX_X10 = 600
  STOP_MIN_X10 = 100
  HYSTERESIS_MIN_X10 = 20
  CRITICAL_MARGIN_MIN_X10 = 50
  CRITICAL_MAX_X10 = 800
  NoBlob = NoBlob
  NoValue = NoValue
  Patches <- MCPatches
  StoredBlobs <- MCStoredBlobs
SPECIFICATION Spec
INVARIANTS IInv AlwaysSane AnsweredInForce UnsavedIsKnown
PROPERTY UnaskedKept
