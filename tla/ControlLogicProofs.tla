------------------------- MODULE ControlLogicProofs --------------------------
(***************************************************************************)
(* What the operators of control_logic.c return, for every value of the    *)
(* constants: the types they keep, the fields they write, and the fields   *)
(* they leave alone.                                                       *)
(***************************************************************************)
EXTENDS ControlLogic, TLAPS

(* The flags a good read computes are Boolean.                             *)
LEMMA FlagTypes ==
  ASSUME NEW s, NEW cfg, NEW x
  PROVE  OverheatAfter(s, cfg, x) \in BOOLEAN /\ HotAfter(s, cfg, x) \in BOOLEAN
<1>1. CASE s.overheat
  BY <1>1 DEF OverheatAfter, HotAfter
<1>2. CASE ~s.overheat
  BY <1>2 DEF OverheatAfter, HotAfter
<1> QED BY <1>1, <1>2

(* The overheat flag is up at the critical threshold, and down by the time *)
(* the temperature has fallen OVERHEAT_CLEAR_X10 below it.                 *)
LEMMA OverheatBounds ==
  ASSUME NEW s, NEW cfg, cfg.critical_x10 \in Int, NEW x \in Int
  PROVE  /\ x >= cfg.critical_x10 => OverheatAfter(s, cfg, x)
         /\ OverheatAfter(s, cfg, x) => x >= cfg.critical_x10 - OVERHEAT_CLEAR_X10
<1>1. OVERHEAT_CLEAR_X10 \in Nat
  BY LogicConstants
<1>2. CASE s.overheat
  BY <1>1, <1>2 DEF OverheatAfter
<1>3. CASE ~s.overheat
  BY <1>1, <1>3 DEF OverheatAfter
<1> QED BY <1>2, <1>3

(* The fields a good read writes, with values of their types.              *)
LEMMA GoodReadFields ==
  ASSUME NEW s \in CtlState, NEW f \in BOOLEAN, NEW n \in 0..UINT8_MAX, NEW g \in BOOLEAN,
         NEW x \in Int, NEW t \in Int, NEW o \in BOOLEAN, NEW h \in BOOLEAN
  PROVE  [s EXCEPT !.sensor_failed = f, !.failures = n, !.have_temp = g, !.temp_x10 = x,
                   !.temp_s = t, !.overheat = o, !.hot = h] \in CtlState
  BY DEF CtlState

(* The fields a failed read writes.                                        *)
LEMMA BadReadFields ==
  ASSUME NEW s \in CtlState, NEW n \in 0..UINT8_MAX, NEW f \in BOOLEAN
  PROVE  [s EXCEPT !.failures = n, !.sensor_failed = f] \in CtlState
  BY DEF CtlState

(* ctl_sensor keeps the types ...                                          *)
LEMMA SensorType ==
  ASSUME NEW s \in CtlState, NEW cfg \in Config, NEW t \in Int, NEW r \in Reading
  PROVE  ctl_sensor(s, cfg, t, r) \in CtlState
<1>1. CASE r.valid
  <2>1. 0 \in 0..UINT8_MAX /\ r.temp_x10 \in Int
    BY LogicConstants DEF Reading
  <2>2. /\ OverheatAfter(s, cfg, r.temp_x10) \in BOOLEAN
        /\ HotAfter(s, cfg, r.temp_x10) \in BOOLEAN
    BY FlagTypes
  <2> QED BY <1>1, <2>1, <2>2, GoodReadFields, Zenon DEF ctl_sensor, GoodRead
<1>2. CASE ~r.valid
  <2> DEFINE failures == IF s.failures < UINT8_MAX THEN s.failures + 1 ELSE s.failures
             failed == s.sensor_failed \/ failures >= SENSOR_FAIL_READS
  <2>1. failures \in 0..UINT8_MAX
    BY LogicConstants DEF CtlState
  <2>2. failed \in BOOLEAN
    OBVIOUS
  <2>3. ctl_sensor(s, cfg, t, r) = [s EXCEPT !.failures = failures, !.sensor_failed = failed]
    BY <1>2 DEF ctl_sensor, BadRead, CtlState
  <2> HIDE DEF failures, failed
  <2> QED BY <2>1, <2>2, <2>3, BadReadFields, Zenon
<1> QED BY <1>1, <1>2

(* ... and touches nothing but the sensor's fields.                        *)
LEMMA SensorFrame ==
  ASSUME NEW s \in CtlState, NEW cfg, NEW t, NEW r
  PROVE  /\ ctl_sensor(s, cfg, t, r).on = s.on
         /\ ctl_sensor(s, cfg, t, r).reason = s.reason
         /\ ctl_sensor(s, cfg, t, r).changed_s = s.changed_s
         /\ ctl_sensor(s, cfg, t, r).last_on_s = s.last_on_s
         /\ ctl_sensor(s, cfg, t, r).manual = s.manual
         /\ ctl_sensor(s, cfg, t, r).manual_until_s = s.manual_until_s
         /\ ctl_sensor(s, cfg, t, r).maintenance = s.maintenance
         /\ ctl_sensor(s, cfg, t, r).maintenance_until_s = s.maintenance_until_s
<1>1. CASE r.valid
  BY <1>1 DEF ctl_sensor, GoodRead, CtlState
<1>2. CASE ~r.valid
  BY <1>2 DEF ctl_sensor, BadRead, CtlState
<1> QED BY <1>1, <1>2

(* A failed read counts and, at the limit, raises the flag; as the count   *)
(* saturates, the flag and the count go on saying the same.                *)
LEMMA BadReadShape ==
  ASSUME NEW s \in CtlState, NEW cfg \in Config, NEW t \in Int, NEW r \in Reading, ~r.valid
  PROVE  /\ ctl_sensor(s, cfg, t, r).have_temp = s.have_temp
         /\ ctl_sensor(s, cfg, t, r).temp_x10 = s.temp_x10
         /\ ctl_sensor(s, cfg, t, r).overheat = s.overheat
         /\ ctl_sensor(s, cfg, t, r).hot = s.hot
         /\ ctl_sensor(s, cfg, t, r).failures # 0
         /\ s.sensor_failed => ctl_sensor(s, cfg, t, r).sensor_failed
         /\ ctl_sensor(s, cfg, t, r).failures >= SENSOR_FAIL_READS
              => ctl_sensor(s, cfg, t, r).sensor_failed
         /\ (s.failures >= SENSOR_FAIL_READS <=> s.sensor_failed)
              => (ctl_sensor(s, cfg, t, r).failures >= SENSOR_FAIL_READS
                    <=> ctl_sensor(s, cfg, t, r).sensor_failed)
<1> DEFINE d == ctl_sensor(s, cfg, t, r)
           failures == IF s.failures < UINT8_MAX THEN s.failures + 1 ELSE s.failures
           failed == s.sensor_failed \/ failures >= SENSOR_FAIL_READS
<1>1. d = [s EXCEPT !.failures = failures, !.sensor_failed = failed]
  BY DEF ctl_sensor, BadRead, CtlState
<1>2. /\ failures \in Int /\ failures # 0
      /\ s.failures >= SENSOR_FAIL_READS => failures >= SENSOR_FAIL_READS
  BY LogicConstants DEF CtlState
<1>3. failed \in BOOLEAN
  OBVIOUS
<1> HIDE DEF d, failures
<1>4. /\ d.have_temp = s.have_temp /\ d.temp_x10 = s.temp_x10
      /\ d.overheat = s.overheat /\ d.hot = s.hot
      /\ d.failures = failures
      /\ d.sensor_failed <=> failed
  BY <1>1, <1>3 DEF CtlState
<1> QED BY <1>2, <1>4 DEF d

(* A good read clears the failure and sets the temperature flags.          *)
LEMMA GoodReadShape ==
  ASSUME NEW s \in CtlState, NEW cfg, NEW t, NEW r, r.valid
  PROVE  /\ ctl_sensor(s, cfg, t, r).have_temp
         /\ ctl_sensor(s, cfg, t, r).temp_x10 = r.temp_x10
         /\ ctl_sensor(s, cfg, t, r).failures = 0
         /\ ~ctl_sensor(s, cfg, t, r).sensor_failed
         /\ ctl_sensor(s, cfg, t, r).overheat = OverheatAfter(s, cfg, r.temp_x10)
         /\ ctl_sensor(s, cfg, t, r).hot = HotAfter(s, cfg, r.temp_x10)
<1> DEFINE o == OverheatAfter(s, cfg, r.temp_x10)
           h == HotAfter(s, cfg, r.temp_x10)
<1>1. ctl_sensor(s, cfg, t, r) =
        [s EXCEPT !.sensor_failed = FALSE, !.failures = 0, !.have_temp = TRUE,
                  !.temp_x10 = r.temp_x10, !.temp_s = t, !.overheat = o, !.hot = h]
  BY DEF ctl_sensor, GoodRead
<1>2. o \in BOOLEAN /\ h \in BOOLEAN
  BY FlagTypes
<1> HIDE DEF o, h
<1>3. /\ ctl_sensor(s, cfg, t, r).overheat = o
      /\ ctl_sensor(s, cfg, t, r).hot = h
      /\ ctl_sensor(s, cfg, t, r).temp_x10 = r.temp_x10
      /\ ctl_sensor(s, cfg, t, r).failures = 0
  BY <1>1, <1>2 DEF CtlState
<1>4. /\ ctl_sensor(s, cfg, t, r).have_temp
      /\ ~ctl_sensor(s, cfg, t, r).sensor_failed
  BY <1>1 DEF CtlState
<1> QED BY <1>3, <1>4 DEF o, h

(* ctl_manual keeps the types and touches nothing but the override.        *)
LEMMA ManualType ==
  ASSUME NEW s \in CtlState, NEW m \in Manuals, NEW d \in Int, NEW t \in Int
  PROVE  ctl_manual(s, m, d, t) \in CtlState
<1> DEFINE until == IF m = "none" THEN 0 ELSE t + d
<1>1. until \in Int
  OBVIOUS
<1>2. ctl_manual(s, m, d, t) = [s EXCEPT !.manual = m, !.manual_until_s = until]
  BY DEF ctl_manual
<1> HIDE DEF until
<1> QED BY <1>1, <1>2 DEF CtlState

LEMMA ManualFrame ==
  ASSUME NEW s \in CtlState, NEW m, NEW d, NEW t
  PROVE  /\ ctl_manual(s, m, d, t).manual = m
         /\ m # "none" => ctl_manual(s, m, d, t).manual_until_s = t + d
         /\ ctl_manual(s, m, d, t).on = s.on
         /\ ctl_manual(s, m, d, t).reason = s.reason
         /\ ctl_manual(s, m, d, t).changed_s = s.changed_s
         /\ ctl_manual(s, m, d, t).have_temp = s.have_temp
         /\ ctl_manual(s, m, d, t).temp_x10 = s.temp_x10
         /\ ctl_manual(s, m, d, t).failures = s.failures
         /\ ctl_manual(s, m, d, t).sensor_failed = s.sensor_failed
         /\ ctl_manual(s, m, d, t).overheat = s.overheat
         /\ ctl_manual(s, m, d, t).hot = s.hot
         /\ ctl_manual(s, m, d, t).last_on_s = s.last_on_s
         /\ ctl_manual(s, m, d, t).maintenance = s.maintenance
         /\ ctl_manual(s, m, d, t).maintenance_until_s = s.maintenance_until_s
  BY DEF ctl_manual, CtlState

(* The verdict is a switch and a reason.                                   *)
LEMMA VerdictType ==
  ASSUME NEW s \in CtlState
  PROVE  Verdict(s) \in [on: BOOLEAN, reason: Reasons]
  BY DEF Verdict, Reasons

(* What a decision does to the overrides and the maintenance run; the      *)
(* pump, its reason and the sensor fields are left alone.                  *)
LEMMA RefreshType ==
  ASSUME NEW s \in CtlState, NEW cfg \in Config, NEW t \in Int
  PROVE  Refresh(s, cfg, t) \in CtlState
<1> DEFINE run == MaintenanceRunning(s, t) \/ MaintenanceDue(s, cfg, t)
           until == IF MaintenanceDue(s, cfg, t) THEN t + MAINTENANCE_RUN_S
                                                 ELSE s.maintenance_until_s
<1>1. run \in BOOLEAN
  OBVIOUS
<1>2. until \in Int
  <2>1. s.maintenance_until_s \in Int /\ t + MAINTENANCE_RUN_S \in Int
    BY LogicConstants DEF CtlState
  <2> QED BY <2>1
<1>3. LastOn(s, t) \in Int /\ ManualAfter(s, t) \in Manuals
  BY DEF LastOn, ManualAfter, CtlState, Manuals
<1>4. Refresh(s, cfg, t) = [s EXCEPT !.manual = ManualAfter(s, t), !.last_on_s = LastOn(s, t),
                                     !.maintenance = run, !.maintenance_until_s = until]
  BY DEF Refresh, CtlState
<1> HIDE DEF run, until
<1> QED BY <1>1, <1>2, <1>3, <1>4 DEF CtlState

LEMMA RefreshShape ==
  ASSUME NEW s \in CtlState, NEW cfg, NEW t
  PROVE  /\ Refresh(s, cfg, t).on = s.on
         /\ Refresh(s, cfg, t).changed_s = s.changed_s
         /\ Refresh(s, cfg, t).have_temp = s.have_temp
         /\ Refresh(s, cfg, t).temp_x10 = s.temp_x10
         /\ Refresh(s, cfg, t).failures = s.failures
         /\ Refresh(s, cfg, t).sensor_failed = s.sensor_failed
         /\ Refresh(s, cfg, t).overheat = s.overheat
         /\ Refresh(s, cfg, t).hot = s.hot
         /\ Refresh(s, cfg, t).last_on_s = LastOn(s, t)
         /\ Refresh(s, cfg, t).manual = ManualAfter(s, t)
         /\ Refresh(s, cfg, t).manual_until_s = s.manual_until_s
         /\ Refresh(s, cfg, t).maintenance
              = (MaintenanceRunning(s, t) \/ MaintenanceDue(s, cfg, t))
         /\ MaintenanceDue(s, cfg, t)
              => Refresh(s, cfg, t).maintenance_until_s = t + MAINTENANCE_RUN_S
  BY DEF Refresh, CtlState

(* A decision keeps the types ...                                          *)
LEMMA DecideType ==
  ASSUME NEW s \in CtlState, NEW cfg \in Config, NEW t \in Int
  PROVE  ctl_decide(s, cfg, t) \in CtlState
<1> DEFINE r == Refresh(s, cfg, t)
           v == Verdict(r)
           changed == IF v.on # r.on THEN t ELSE r.changed_s
           last == IF v.on THEN t ELSE r.last_on_s
<1>1. r \in CtlState
  BY RefreshType
<1>2. v.on \in BOOLEAN /\ v.reason \in Reasons
  BY <1>1, VerdictType
<1>3. changed \in Int /\ last \in Int
  BY <1>1 DEF CtlState
<1>4. ctl_decide(s, cfg, t) = [r EXCEPT !.on = v.on, !.reason = v.reason,
                                        !.changed_s = changed, !.last_on_s = last]
  BY <1>1 DEF ctl_decide, Switch, CtlState
<1> HIDE DEF r, v, changed, last
<1> QED BY <1>1, <1>2, <1>3, <1>4 DEF CtlState

(* ... obeys the top rule, stamps what it switches and leaves the sensor's *)
(* fields alone.                                                           *)
LEMMA DecideShape ==
  ASSUME NEW s \in CtlState, NEW cfg \in Config, NEW t \in Int, NEW d, d = ctl_decide(s, cfg, t)
  PROVE  /\ [on |-> d.on, reason |-> d.reason] = Verdict(d)
         /\ d.changed_s = IF d.on # s.on THEN t ELSE s.changed_s
         /\ d.last_on_s = IF d.on THEN t ELSE LastOn(s, t)
         /\ d.have_temp = s.have_temp
         /\ d.temp_x10 = s.temp_x10
         /\ d.failures = s.failures
         /\ d.sensor_failed = s.sensor_failed
         /\ d.overheat = s.overheat
         /\ d.hot = s.hot
         /\ d.manual = ManualAfter(s, t)
         /\ d.manual_until_s = s.manual_until_s
         /\ d.maintenance = (MaintenanceRunning(s, t) \/ MaintenanceDue(s, cfg, t))
         /\ MaintenanceDue(s, cfg, t) => d.maintenance_until_s = t + MAINTENANCE_RUN_S
<1> DEFINE r == Refresh(s, cfg, t)
           v == Verdict(r)
           changed == IF v.on # r.on THEN t ELSE r.changed_s
           last == IF v.on THEN t ELSE r.last_on_s
<1>1. r \in CtlState
  BY RefreshType
<1>2. v \in [on: BOOLEAN, reason: Reasons]
  BY <1>1, VerdictType
<1>3. d = [r EXCEPT !.on = v.on, !.reason = v.reason, !.changed_s = changed, !.last_on_s = last]
  BY <1>1 DEF ctl_decide, Switch, CtlState
<1>4. /\ d.overheat = r.overheat
      /\ d.manual = r.manual
      /\ d.sensor_failed = r.sensor_failed
      /\ d.hot = r.hot
      /\ d.maintenance = r.maintenance
      /\ d.on = v.on
      /\ d.reason = v.reason
      /\ d.changed_s = changed
      /\ d.last_on_s = last
      /\ d.have_temp = r.have_temp
      /\ d.temp_x10 = r.temp_x10
      /\ d.failures = r.failures
      /\ d.manual_until_s = r.manual_until_s
      /\ d.maintenance_until_s = r.maintenance_until_s
  <2> HIDE DEF r, v, changed, last
  <2> QED BY <1>1, <1>2, <1>3 DEF CtlState
<1>5. Verdict(d) = v
  <2> HIDE DEF r
  <2> QED BY <1>4 DEF Verdict
<1>6. [on |-> d.on, reason |-> d.reason] = Verdict(d)
  <2> HIDE DEF r, v
  <2> QED BY <1>2, <1>4, <1>5
<1>7. /\ d.changed_s = IF d.on # s.on THEN t ELSE s.changed_s
      /\ d.last_on_s = IF d.on THEN t ELSE LastOn(s, t)
  <2> HIDE DEF v
  <2> QED BY <1>4, RefreshShape
<1> QED BY <1>4, <1>6, <1>7, RefreshShape

=============================================================================
