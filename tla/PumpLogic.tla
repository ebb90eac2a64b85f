----------------------------- MODULE PumpLogic ------------------------------
(***************************************************************************)
(* The decision state of the controller under every sequence of calls its  *)
(* callers may make: a sensor read followed by a decision, a decision      *)
(* alone, a manual command followed by a decision, and a restart.  Each    *)
(* call brings its own thresholds, and its own time stamp: the control     *)
(* task samples the clock before it waits for the lock, so a stamp may be  *)
(* up to LAG seconds old when it is used.                                  *)
(***************************************************************************)
EXTENDS ControlLogic, FiniteSets

CONSTANTS
  Configs,       \* the threshold triples the settings can hold
  Readings,      \* what the sensor may return
  MANUAL_MIN_S,  \* bounds of a manual override
  MANUAL_MAX_S,
  LAG,           \* how old a sampled time stamp may be, in seconds
  MaxTime        \* bound on the clock

ASSUME PumpConstants ==
  /\ Configs \subseteq Config
  /\ Readings \subseteq Reading
  /\ MANUAL_MIN_S \in Nat \ {0}
  /\ MANUAL_MAX_S \in Nat
  /\ LAG \in Nat
  /\ MaxTime \in Nat

(* What settings.c guarantees of every stored triple (module Settings).    *)
ASSUME ConfigsAreSane ==
  \A c \in Configs : /\ c.stop_x10 < c.start_x10
                     /\ c.start_x10 < c.critical_x10 - OVERHEAT_CLEAR_X10

VARIABLES
  s_state,   \* the controller state, a CtlState
  now,       \* the monotonic clock, in seconds since boot
  latest     \* history: the thresholds and the stamp that were used last

vars == <<s_state, now, latest>>

(* latest.critical_x10 is the critical threshold of the last valid read,   *)
(* latest.stop_x10 and latest.at_s belong to the last decision.            *)
Latest == [critical_x10: Int, stop_x10: Int, at_s: Int]

Stamps == {t \in (now - LAG)..now : t >= 0}

-----------------------------------------------------------------------------
Init ==
  /\ now = 0
  /\ s_state = ctl_init(0)
  /\ latest = [critical_x10 |-> 0, stop_x10 |-> 0, at_s |-> 0]

(* The state after a decision on s at time t, with the history brought up. *)
Decided(s, cfg, t) ==
  /\ UNCHANGED now
  /\ s_state' = ctl_decide(s, cfg, t)

SlipReadWithoutDecision(reading, c1, c2, t) ==
  /\ s_state' = ctl_sensor(s_state, c1, t, reading)
  /\ latest' = [critical_x10 |-> IF reading.valid THEN c1.critical_x10
                                                  ELSE latest.critical_x10,
                stop_x10 |-> c2.stop_x10, at_s |-> t]
  /\ UNCHANGED now

(* A tick of the control task with a sensor read; the thresholds may       *)
(* change between the read and the decision.                               *)
Read(reading, c1, c2, t) ==
  /\ latest' = [critical_x10 |-> IF reading.valid THEN c1.critical_x10
                                                  ELSE latest.critical_x10,
                stop_x10 |-> c2.stop_x10, at_s |-> t]
  /\ Decided(ctl_sensor(s_state, c1, t, reading), c2, t)

(* A tick of the control task between two reads. *)
Decide(cfg, t) ==
  /\ latest' = [latest EXCEPT !.stop_x10 = cfg.stop_x10, !.at_s = t]
  /\ Decided(s_state, cfg, t)

(* A manual command; the stamp is taken under the lock, so it is exact.    *)
Manual(manual, duration_s, cfg) ==
  /\ ManualAccepted(s_state, manual)
  /\ latest' = [latest EXCEPT !.stop_x10 = cfg.stop_x10, !.at_s = now]
  /\ Decided(ctl_manual(s_state, manual, duration_s, now), cfg, now)

(* A watchdog reset, an update or a power cut: everything is in RAM.       *)
Restart ==
  /\ now' = 0
  /\ s_state' = ctl_init(0)
  /\ latest' = [critical_x10 |-> 0, stop_x10 |-> 0, at_s |-> 0]

Clock ==
  /\ now < MaxTime
  /\ now' = now + 1
  /\ UNCHANGED <<s_state, latest>>

ReadTick == \E reading \in Readings, c1, c2 \in Configs, t \in Stamps : Read(reading, c1, c2, t)

DecideTick == \E cfg \in Configs, t \in Stamps : Decide(cfg, t)

Command == \E manual \in Manuals, duration_s \in MANUAL_MIN_S..MANUAL_MAX_S, cfg \in Configs :
             Manual(manual, duration_s, cfg)

Next == ReadTick \/ DecideTick \/ Command \/ Restart \/ Clock

Spec == Init /\ [][Next]_vars

-----------------------------------------------------------------------------
TypeOK ==
  /\ s_state \in CtlState
  /\ now \in 0..MaxTime
  /\ latest \in Latest

(* At every moment between two calls the pump does what the highest active *)
(* rule asks: no call leaves a changed flag without a decision.            *)
ServesTopRule == [on |-> s_state.on, reason |-> s_state.reason] = Verdict(s_state)

(* Water that was measured at or above the critical threshold in force at  *)
(* that measurement is never left standing, whatever overrides, sensor     *)
(* failures or new thresholds came after it.                               *)
CriticalWaterMoves ==
  s_state.have_temp /\ s_state.temp_x10 >= latest.critical_x10 => s_state.on

(* SENSOR_FAIL_READS bad reads in a row start the pump unless somebody     *)
(* has stopped it by hand.                                                 *)
BlindPumpRuns ==
  s_state.failures >= SENSOR_FAIL_READS /\ s_state.manual # "stop" => s_state.on

(* While the pump stands, the idle clock of the maintenance run started    *)
(* when the pump was last switched (or at boot), not at any other event.   *)
IdleClockStartsAtStop == ~s_state.on => s_state.last_on_s = s_state.changed_s

(* No anti-seize run is missed: a pump left standing by a decision with    *)
(* cold water, a working sensor and no override has been idle for less     *)
(* than the maintenance interval.                                          *)
NoMissedMaintenance ==
  /\ ~s_state.on
  /\ s_state.manual = "none"
  /\ s_state.have_temp
  /\ ~s_state.sensor_failed
  /\ s_state.temp_x10 < latest.stop_x10
  => latest.at_s - s_state.last_on_s < MAINTENANCE_INTERVAL_S

(* An override in force was not yet due at the last decision, and cannot   *)
(* reach further than MANUAL_MAX_S from now.                               *)
OverrideIsLive ==
  s_state.manual # "none" =>
    /\ latest.at_s < s_state.manual_until_s
    /\ s_state.manual_until_s <= now + MANUAL_MAX_S

(* What the sensor leaves behind: the flags cover the last reading, and an *)
(* overheat comes with heat: when it ends, the pump goes on by itself.  A  *)
(* failed sensor is one with that many bad reads and no good one since, so *)
(* the count never starts over while the sensor stays dead.                *)
SensorFlags ==
  /\ s_state.have_temp /\ s_state.temp_x10 >= latest.critical_x10 => s_state.overheat
  /\ s_state.overheat => s_state.hot
  /\ s_state.failures >= SENSOR_FAIL_READS <=> s_state.sensor_failed

(* The invariant that every call preserves: the properties above, with the *)
(* sensor's flags in the place of the pump that obeys them.                *)
IInv ==
  /\ TypeOK
  /\ ServesTopRule
  /\ SensorFlags
  /\ IdleClockStartsAtStop
  /\ NoMissedMaintenance
  /\ OverrideIsLive

(* A maintenance run begins only after the pump has stood still for the    *)
(* whole interval, and it is due to end MAINTENANCE_RUN_S later.           *)
MaintenanceOnlyWhenIdle ==
  [][ ~s_state.maintenance /\ s_state'.maintenance =>
        /\ ~s_state.on
        /\ latest'.at_s - s_state.changed_s >= MAINTENANCE_INTERVAL_S
        /\ s_state'.maintenance_until_s = latest'.at_s + MAINTENANCE_RUN_S ]_vars

(* Nothing but its own deadline, an overheat, a new command or a restart   *)
(* ends a manual stop.                                                     *)
ManualStopHolds ==
  [][ s_state.manual = "stop" /\ s_state'.manual # "stop" =>
        \/ now >= s_state.manual_until_s
        \/ s_state'.overheat
        \/ Command
        \/ Restart ]_vars

-----------------------------------------------------------------------------
(* The demands of the abstract specification, read off the state.          *)
DemandsOf(s) ==
  {d \in {"overheat", "manual_on", "manual_off", "sensor_fail", "auto_hot", "maintenance"} :
     \/ d = "overheat" /\ s.overheat
     \/ d = "manual_on" /\ s.manual = "start"
     \/ d = "manual_off" /\ s.manual = "stop"
     \/ d = "sensor_fail" /\ s.sensor_failed
     \/ d = "auto_hot" /\ s.hot
     \/ d = "maintenance" /\ s.maintenance}

Promise == INSTANCE PumpPromise WITH demands <- DemandsOf(s_state), serving <- s_state.reason

(* Every call sequence keeps the promise of the rule table.                *)
KeepsPromise == Promise!Spec

=============================================================================
