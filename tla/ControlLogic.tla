---------------------------- MODULE ControlLogic ----------------------------
(***************************************************************************)
(* The pump decisions of firmware/main/control_logic.c: pure functions on  *)
(* the controller state ctl_state_t.  Temperatures are integers in 0.1 C,  *)
(* times are monotonic seconds.  A configuration record holds the three    *)
(* thresholds; the other fields of ctl_config_t are compile-time macros    *)
(* and appear here as constants.                                           *)
(*                                                                         *)
(* Definitions whose name starts with "Slip" are wrong on purpose: each is *)
(* the definition that follows it with one plausible programming error,    *)
(* and the mutation runs show which property would catch it.               *)
(***************************************************************************)
EXTENDS Integers

CONSTANTS
  OVERHEAT_CLEAR_X10,      \* overheat ends this far below the critical threshold
  UINT8_MAX,               \* where the failure counter saturates
  SENSOR_FAIL_READS,       \* consecutive bad reads before the fail-safe
  MAINTENANCE_INTERVAL_S,  \* idle this long: anti-seize run
  MAINTENANCE_RUN_S        \* length of that run

ASSUME LogicConstants ==
  /\ OVERHEAT_CLEAR_X10 \in Nat
  /\ UINT8_MAX \in Nat
  /\ SENSOR_FAIL_READS \in 1..UINT8_MAX
  /\ MAINTENANCE_INTERVAL_S \in Nat \ {0}
  /\ MAINTENANCE_RUN_S \in Nat \ {0}

(***************************************************************************)
(* Types.                                                                  *)
(***************************************************************************)
Reasons == {"auto_cold", "auto_hot", "manual_on", "manual_off",
            "maintenance", "sensor_fail", "overheat"}

Manuals == {"none", "start", "stop"}

Config == [start_x10: Int, stop_x10: Int, critical_x10: Int]

(* What temp_sensor_read returns: a failed read carries no temperature. *)
Reading == [valid: BOOLEAN, temp_x10: Int]

CtlState ==
  [on: BOOLEAN, reason: Reasons, changed_s: Int,
   have_temp: BOOLEAN, temp_x10: Int, temp_s: Int,
   failures: 0..UINT8_MAX, sensor_failed: BOOLEAN,
   overheat: BOOLEAN, hot: BOOLEAN,
   manual: Manuals, manual_until_s: Int,
   maintenance: BOOLEAN, maintenance_until_s: Int, last_on_s: Int]

ctl_init(now_s) ==
  [on |-> FALSE, reason |-> "auto_cold", changed_s |-> now_s,
   have_temp |-> FALSE, temp_x10 |-> 0, temp_s |-> 0,
   failures |-> 0, sensor_failed |-> FALSE,
   overheat |-> FALSE, hot |-> FALSE,
   manual |-> "none", manual_until_s |-> 0,
   maintenance |-> FALSE, maintenance_until_s |-> 0, last_on_s |-> now_s]

(***************************************************************************)
(* A sensor read.                                                          *)
(***************************************************************************)
SlipBadReadWraps(s) ==
  LET failures == (s.failures + 1) % (UINT8_MAX + 1)
  IN  [s EXCEPT !.failures = failures,
                !.sensor_failed = @ \/ failures >= SENSOR_FAIL_READS]

SlipBadReadOneTooMany(s) ==
  LET failures == IF s.failures < UINT8_MAX THEN s.failures + 1 ELSE s.failures
  IN  [s EXCEPT !.failures = failures,
                !.sensor_failed = @ \/ failures > SENSOR_FAIL_READS]

SlipBadReadEndsManual(s) ==
  LET failures == IF s.failures < UINT8_MAX THEN s.failures + 1 ELSE s.failures
      failed == s.sensor_failed \/ failures >= SENSOR_FAIL_READS
  IN  [s EXCEPT !.failures = failures, !.sensor_failed = failed,
                !.manual = IF failed THEN "none" ELSE @]

BadRead(s) ==
  LET failures == IF s.failures < UINT8_MAX THEN s.failures + 1 ELSE s.failures
  IN  [s EXCEPT !.failures = failures,
                !.sensor_failed = @ \/ failures >= SENSOR_FAIL_READS]

SlipOverheatAbove(s, cfg, temp_x10) ==
  IF s.overheat THEN temp_x10 >= cfg.critical_x10 - OVERHEAT_CLEAR_X10
                ELSE temp_x10 > cfg.critical_x10

(* Reached at the critical threshold, left OVERHEAT_CLEAR_X10 below it. *)
OverheatAfter(s, cfg, temp_x10) ==
  IF s.overheat THEN temp_x10 >= cfg.critical_x10 - OVERHEAT_CLEAR_X10
                ELSE temp_x10 >= cfg.critical_x10

SlipHotNeverCleared(s, cfg, temp_x10) == temp_x10 > cfg.start_x10 \/ s.hot

(* The hysteresis memory: set above start, cleared below stop, kept between. *)
HotAfter(s, cfg, temp_x10) ==
  \/ temp_x10 > cfg.start_x10
  \/ s.hot /\ temp_x10 >= cfg.stop_x10

SlipGoodReadKeepsFailures(s, cfg, now_s, temp_x10) ==
  [s EXCEPT !.sensor_failed = FALSE,
            !.have_temp = TRUE, !.temp_x10 = temp_x10, !.temp_s = now_s,
            !.overheat = OverheatAfter(s, cfg, temp_x10),
            !.hot = HotAfter(s, cfg, temp_x10)]

GoodRead(s, cfg, now_s, temp_x10) ==
  [s EXCEPT !.sensor_failed = FALSE, !.failures = 0,
            !.have_temp = TRUE, !.temp_x10 = temp_x10, !.temp_s = now_s,
            !.overheat = OverheatAfter(s, cfg, temp_x10),
            !.hot = HotAfter(s, cfg, temp_x10)]

ctl_sensor(s, cfg, now_s, reading) ==
  IF reading.valid THEN GoodRead(s, cfg, now_s, reading.temp_x10) ELSE BadRead(s)

(***************************************************************************)
(* Manual override.                                                        *)
(***************************************************************************)
ManualAccepted(s, manual) == ~(manual = "stop" /\ s.overheat)

ctl_manual(s, manual, duration_s, now_s) ==
  [s EXCEPT !.manual = manual,
            !.manual_until_s = IF manual = "none" THEN 0 ELSE now_s + duration_s]

(***************************************************************************)
(* The decision.                                                           *)
(***************************************************************************)
SlipManualExpiredLate(s, now_s) == s.manual # "none" /\ now_s > s.manual_until_s

SlipManualStopNeverExpires(s, now_s) == s.manual = "start" /\ now_s >= s.manual_until_s

ManualExpired(s, now_s) == s.manual # "none" /\ now_s >= s.manual_until_s

ManualCancelled(s, now_s) ==
  ~ManualExpired(s, now_s) /\ s.manual = "stop" /\ s.overheat

ManualAfter(s, now_s) ==
  IF ManualExpired(s, now_s) \/ ManualCancelled(s, now_s) THEN "none" ELSE s.manual

SlipLastOnOnlyAtSwitch(s, now_s) == s.last_on_s

(* When the pump was last seen running, before this decision switches it. *)
LastOn(s, now_s) == IF s.on THEN now_s ELSE s.last_on_s

MaintenanceRunning(s, now_s) == s.maintenance /\ now_s < s.maintenance_until_s

SlipMaintenanceDueLate(s, cfg, now_s) ==
  /\ ~MaintenanceRunning(s, now_s)
  /\ ~s.on
  /\ ManualAfter(s, now_s) = "none"
  /\ ~s.sensor_failed
  /\ s.have_temp
  /\ s.temp_x10 < cfg.stop_x10
  /\ now_s - LastOn(s, now_s) > MAINTENANCE_INTERVAL_S

MaintenanceDue(s, cfg, now_s) ==
  /\ ~MaintenanceRunning(s, now_s)
  /\ ~s.on
  /\ ManualAfter(s, now_s) = "none"
  /\ ~s.sensor_failed
  /\ s.have_temp
  /\ s.temp_x10 < cfg.stop_x10
  /\ now_s - LastOn(s, now_s) >= MAINTENANCE_INTERVAL_S

(* Overrides and the maintenance run, up to date; the pump not yet switched. *)
Refresh(s, cfg, now_s) ==
  [s EXCEPT !.manual = ManualAfter(s, now_s),
            !.last_on_s = LastOn(s, now_s),
            !.maintenance = MaintenanceRunning(s, now_s) \/ MaintenanceDue(s, cfg, now_s),
            !.maintenance_until_s =
              IF MaintenanceDue(s, cfg, now_s) THEN now_s + MAINTENANCE_RUN_S ELSE @]

SlipVerdictSensorFirst(s) ==
  IF s.overheat               THEN [on |-> TRUE,  reason |-> "overheat"]
  ELSE IF s.sensor_failed     THEN [on |-> TRUE,  reason |-> "sensor_fail"]
  ELSE IF s.manual = "start"  THEN [on |-> TRUE,  reason |-> "manual_on"]
  ELSE IF s.manual = "stop"   THEN [on |-> FALSE, reason |-> "manual_off"]
  ELSE IF s.hot               THEN [on |-> TRUE,  reason |-> "auto_hot"]
  ELSE IF s.maintenance       THEN [on |-> TRUE,  reason |-> "maintenance"]
                              ELSE [on |-> FALSE, reason |-> "auto_cold"]

(* The rules in priority order: the first one that applies decides. *)
Verdict(s) ==
  IF s.overheat               THEN [on |-> TRUE,  reason |-> "overheat"]
  ELSE IF s.manual = "start"  THEN [on |-> TRUE,  reason |-> "manual_on"]
  ELSE IF s.manual = "stop"   THEN [on |-> FALSE, reason |-> "manual_off"]
  ELSE IF s.sensor_failed     THEN [on |-> TRUE,  reason |-> "sensor_fail"]
  ELSE IF s.hot               THEN [on |-> TRUE,  reason |-> "auto_hot"]
  ELSE IF s.maintenance       THEN [on |-> TRUE,  reason |-> "maintenance"]
                              ELSE [on |-> FALSE, reason |-> "auto_cold"]

Switch(s, v, now_s) ==
  [s EXCEPT !.on = v.on, !.reason = v.reason,
            !.changed_s = IF v.on # s.on THEN now_s ELSE @,
            !.last_on_s = IF v.on THEN now_s ELSE @]

ctl_decide(s, cfg, now_s) ==
  LET r == Refresh(s, cfg, now_s) IN Switch(r, Verdict(r), now_s)

=============================================================================
