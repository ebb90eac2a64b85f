----------------------------- MODULE TempSensor ------------------------------
(***************************************************************************)
(* The sensor driver of firmware/main/temp_sensor.c on a 1-Wire bus whose  *)
(* sensor may be unplugged, swapped for another one, or fail to answer,    *)
(* and the controller that the control task feeds with its readings.  Both *)
(* count failures in a row, the driver those of one sensor, the controller *)
(* all of them.                                                            *)
(***************************************************************************)
EXTENDS ControlLogic

CONSTANTS
  SENSOR_POWER_ON_VALUE_X10,   \* what a sensor reports that has not converted yet
  Sensors,                     \* by their addresses
  NoSensor,                    \* an empty bus, an address never learnt
  Values,                      \* what a sensor may report
  Thresholds                   \* of the controller

ASSUME TempSensorConstants ==
  /\ SENSOR_POWER_ON_VALUE_X10 \in Int
  /\ NoSensor \notin Sensors
  /\ Values \subseteq Int
  /\ Thresholds \in Config

VARIABLES
  bus,        \* the sensor on the bus, or NoSensor
  s_addr, s_found, s_failures,
  valid,      \* what the last call returned, and its temperature
  temp_x10,
  s_state,    \* of the controller
  steady      \* history: calls since the bus changed or the sensor failed to
              \* answer one with a plausible value

driver == <<s_addr, s_found, s_failures, valid, temp_x10>>
sensor == <<bus, driver, s_state, steady>>

Plausible(value) ==
  value # SENSOR_POWER_ON_VALUE_X10 /\ value >= -550 /\ value <= 1250

(* More calls than any property tells apart.                               *)
Steady(n) == IF n <= SENSOR_FAIL_READS THEN n + 1 ELSE n

-----------------------------------------------------------------------------
SensorInit ==
  /\ bus \in Sensors \cup {NoSensor}
  /\ s_addr = NoSensor /\ s_found = FALSE /\ s_failures = 0
  /\ valid = FALSE /\ temp_x10 = 0
  /\ s_state = ctl_init(0)
  /\ steady = 0

(* The scan finds nothing, because nothing is there or nothing answers.    *)
ScanFails ==
  /\ ~s_found
  /\ valid' = FALSE
  /\ steady' = 0
  /\ UNCHANGED <<bus, s_addr, s_found, s_failures, temp_x10>>

(* The sensor the rest of the call asks: the known one, or the scanned one.*)
Asked == IF s_found THEN s_addr ELSE bus

SlipReadFailedKeepsAddress ==
  /\ s_found' = TRUE
  /\ s_failures' = (s_failures + 1) % SENSOR_FAIL_READS

(* A failed read: after a few of them the next call scans the bus again.   *)
ReadFailed ==
  IF s_failures + 1 >= SENSOR_FAIL_READS
  THEN s_found' = FALSE /\ s_failures' = 0
  ELSE s_found' = TRUE /\ s_failures' = s_failures + 1

SlipReadGoodKeepsFailures(value) ==
  /\ s_found' = TRUE /\ UNCHANGED s_failures
  /\ valid' = TRUE /\ temp_x10' = value

ReadGood(value) ==
  /\ s_found' = TRUE /\ s_failures' = 0
  /\ valid' = TRUE /\ temp_x10' = value

(* The asked sensor answers, if it is the one on the bus.                  *)
Answer(value) ==
  /\ bus # NoSensor
  /\ s_addr' = Asked
  /\ Asked = bus
  /\ IF Plausible(value)
     THEN /\ ReadGood(value)
          /\ steady' = Steady(steady)
     ELSE /\ ReadFailed
          /\ valid' = FALSE /\ UNCHANGED temp_x10
          /\ steady' = 0
  /\ UNCHANGED bus

(* It does not answer, or is no longer there: in the latter case the call  *)
(* fails although the sensor on the bus would have answered it.            *)
NoAnswer ==
  /\ s_found \/ bus # NoSensor
  /\ s_addr' = Asked
  /\ ReadFailed
  /\ valid' = FALSE /\ UNCHANGED temp_x10
  /\ steady' = IF Asked # bus /\ bus # NoSensor THEN Steady(steady) ELSE 0
  /\ UNCHANGED bus

(* Somebody changes the wiring.                                            *)
Rewire ==
  /\ bus' \in Sensors \cup {NoSensor}
  /\ bus' # bus
  /\ steady' = 0
  /\ UNCHANGED <<driver, s_state>>

SensorReset ==
  /\ s_addr' = NoSensor /\ s_found' = FALSE /\ s_failures' = 0
  /\ valid' = FALSE /\ temp_x10' = 0
  /\ s_state' = ctl_init(0)
  /\ steady' = 0
  /\ UNCHANGED bus

temp_sensor_read == ScanFails \/ NoAnswer \/ \E value \in Values : Answer(value)

(* The control task hands the result to ctl_sensor.  Nothing is decided    *)
(* here, so no stamp matters.                                              *)
SensorRead ==
  /\ temp_sensor_read
  /\ s_state' = ctl_sensor(s_state, Thresholds, 0, [valid |-> valid', temp_x10 |-> temp_x10'])

SensorNext == SensorRead \/ Rewire \/ SensorReset

SensorSpec == SensorInit /\ [][SensorNext]_sensor

-----------------------------------------------------------------------------
SensorTypeOK ==
  /\ bus \in Sensors \cup {NoSensor} /\ s_addr \in Sensors \cup {NoSensor}
  /\ s_found \in BOOLEAN
  /\ s_failures \in 0..(SENSOR_FAIL_READS - 1)
  /\ valid \in BOOLEAN /\ temp_x10 \in Int
  /\ s_state \in CtlState
  /\ steady \in 0..(SENSOR_FAIL_READS + 1)

(* Why a swapped sensor is found in time: every call that the sensor on    *)
(* the bus would have answered brings the driver nearer to a scan, and the *)
(* scan comes with as many calls to spare as it takes.                     *)
SwapProgress ==
  /\ s_found /\ s_addr # bus => steady <= s_failures
  /\ s_found /\ s_addr = bus /\ steady > 0 => valid
  /\ ~s_found => s_failures = 0 /\ steady <= SENSOR_FAIL_READS

(* A sensor that was swapped for a working one is read again: after at     *)
(* most SENSOR_FAIL_READS calls to the old address the bus is scanned, and *)
(* the next call returns a temperature.                                    *)
SwapIsFound == steady > SENSOR_FAIL_READS => valid

(* The driver counts no failure that the controller does not, and gives a  *)
(* sensor up only when the controller has failed it too.                   *)
DriverNotAhead ==
  /\ s_failures <= s_state.failures
  /\ ~s_found /\ s_addr # NoSensor => s_state.sensor_failed

(* The invariant that every step preserves.                                *)
SensorInv == SensorTypeOK /\ SwapProgress /\ DriverNotAhead

(* The controller never goes on with readings of another sensor without    *)
(* having passed through the sensor fail-safe, however the two were        *)
(* swapped.                                                                *)
SwapPassesFailSafe ==
  [][s_addr' # s_addr /\ s_addr' # NoSensor /\ s_addr # NoSensor
       => s_state.sensor_failed]_sensor

=============================================================================
