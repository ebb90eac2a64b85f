--------------------------- MODULE PumpLogicProofs ---------------------------
(***************************************************************************)
(* Proofs about PumpLogic for every value of its constants: an inductive   *)
(* invariant that carries the types and the safety properties, the action  *)
(* properties, and the refinement of PumpPromise.                          *)
(***************************************************************************)
EXTENDS PumpLogic, ControlLogicProofs, Sequences

(***************************************************************************)
(* The steps.  Every call but a restart prepares a state and decides on it.*)
(***************************************************************************)

(* What the preparation guarantees, with the critical threshold of the     *)
(* last valid read and the latest end an override may have.                *)
Prepared(p, critical_x10, end) ==
  /\ p \in CtlState
  /\ p.have_temp /\ p.temp_x10 >= critical_x10 => p.overheat
  /\ p.overheat => p.hot
  /\ p.failures >= SENSOR_FAIL_READS <=> p.sensor_failed
  /\ ~p.on => p.last_on_s = p.changed_s
  /\ p.manual # "none" => p.manual_until_s <= end

(* A sensor read prepares.                                                 *)
LEMMA ReadPrepares ==
  ASSUME IInv, NEW reading \in Readings, NEW c \in Configs, NEW t \in Int,
         NEW critical_x10,
         critical_x10 = IF reading.valid THEN c.critical_x10 ELSE latest.critical_x10
  PROVE  Prepared(ctl_sensor(s_state, c, t, reading), critical_x10, now + MANUAL_MAX_S)
<1> DEFINE p == ctl_sensor(s_state, c, t, reading)
<1> HIDE DEF p
<1>1. s_state \in CtlState /\ c \in Config /\ reading \in Reading
  BY PumpConstants DEF IInv, TypeOK
<1>2. p \in CtlState
  BY <1>1, SensorType DEF p
<1>3. /\ ~p.on => p.last_on_s = p.changed_s
      /\ p.manual # "none" => p.manual_until_s <= now + MANUAL_MAX_S
  BY <1>1, SensorFrame DEF p, IInv, IdleClockStartsAtStop, OverrideIsLive
<1>4. CASE reading.valid
  <2>1. /\ p.temp_x10 = reading.temp_x10
        /\ p.failures = 0
        /\ ~p.sensor_failed
        /\ p.overheat = OverheatAfter(s_state, c, reading.temp_x10)
        /\ p.hot = HotAfter(s_state, c, reading.temp_x10)
    BY <1>1, <1>4, GoodReadShape DEF p
  <2>2. c.start_x10 < c.critical_x10 - OVERHEAT_CLEAR_X10
    BY ConfigsAreSane
  <2>3. /\ reading.temp_x10 \in Int /\ c.critical_x10 \in Int /\ c.start_x10 \in Int
        /\ OVERHEAT_CLEAR_X10 \in Nat
        /\ SENSOR_FAIL_READS \in Nat /\ SENSOR_FAIL_READS > 0
    BY <1>1, LogicConstants DEF Config, Reading
  <2>4. reading.temp_x10 >= c.critical_x10 => OverheatAfter(s_state, c, reading.temp_x10)
    BY <2>3, OverheatBounds
  <2>5. OverheatAfter(s_state, c, reading.temp_x10) => HotAfter(s_state, c, reading.temp_x10)
    BY <2>2, <2>3, OverheatBounds DEF HotAfter
  <2> QED BY <1>2, <1>3, <1>4, <2>1, <2>3, <2>4, <2>5 DEF Prepared, p
<1>5. CASE ~reading.valid
  <2>1. /\ p.have_temp = s_state.have_temp
        /\ p.temp_x10 = s_state.temp_x10
        /\ p.overheat = s_state.overheat
        /\ p.hot = s_state.hot
    BY <1>1, <1>5, BadReadShape DEF p
  <2>2. p.failures >= SENSOR_FAIL_READS <=> p.sensor_failed
    BY <1>1, <1>5, BadReadShape DEF p, IInv, SensorFlags
  <2> QED BY <1>2, <1>3, <1>5, <2>1, <2>2 DEF Prepared, p, IInv, SensorFlags
<1> QED BY <1>4, <1>5

(* A manual command prepares.                                              *)
LEMMA ManualPrepares ==
  ASSUME IInv, NEW manual \in Manuals, NEW duration_s \in MANUAL_MIN_S..MANUAL_MAX_S
  PROVE  Prepared(ctl_manual(s_state, manual, duration_s, now), latest.critical_x10,
                  now + MANUAL_MAX_S)
<1> DEFINE p == ctl_manual(s_state, manual, duration_s, now)
<1> HIDE DEF p
<1>1. /\ s_state \in CtlState /\ now \in Int /\ duration_s \in Int
      /\ duration_s <= MANUAL_MAX_S /\ MANUAL_MAX_S \in Int
  BY PumpConstants DEF IInv, TypeOK
<1>2. p \in CtlState
  BY <1>1, ManualType DEF p
<1>3. p.manual # "none" => p.manual_until_s <= now + MANUAL_MAX_S
  BY <1>1, ManualFrame DEF p
<1>4. /\ p.on = s_state.on
      /\ p.changed_s = s_state.changed_s
      /\ p.last_on_s = s_state.last_on_s
      /\ p.have_temp = s_state.have_temp
      /\ p.temp_x10 = s_state.temp_x10
      /\ p.failures = s_state.failures
      /\ p.sensor_failed = s_state.sensor_failed
      /\ p.overheat = s_state.overheat
      /\ p.hot = s_state.hot
  BY <1>1, ManualFrame DEF p
<1> QED BY <1>2, <1>3, <1>4 DEF Prepared, p, IInv, SensorFlags, IdleClockStartsAtStop

(* A decision on a prepared state gives a state that fulfils the invariant.*)
LEMMA DecideFulfils ==
  ASSUME NEW p, NEW critical_x10, NEW end, Prepared(p, critical_x10, end),
         NEW cfg \in Config, NEW t \in Int, NEW d, d = ctl_decide(p, cfg, t)
  PROVE  /\ Prepared(d, critical_x10, end)
         /\ [on |-> d.on, reason |-> d.reason] = Verdict(d)
         /\ d.manual # "none" => t < d.manual_until_s
         /\ ~d.on /\ d.manual = "none" /\ d.have_temp /\ ~d.sensor_failed
              /\ d.temp_x10 < cfg.stop_x10
              => t - d.last_on_s < MAINTENANCE_INTERVAL_S
<1>1. p \in CtlState
  BY DEF Prepared
<1>2. d \in CtlState
  BY <1>1, DecideType
<1>3. /\ [on |-> d.on, reason |-> d.reason] = Verdict(d)
      /\ d.changed_s = IF d.on # p.on THEN t ELSE p.changed_s
      /\ d.last_on_s = IF d.on THEN t ELSE LastOn(p, t)
      /\ d.have_temp = p.have_temp
      /\ d.temp_x10 = p.temp_x10
      /\ d.failures = p.failures
      /\ d.sensor_failed = p.sensor_failed
      /\ d.overheat = p.overheat
      /\ d.hot = p.hot
      /\ d.manual = ManualAfter(p, t)
      /\ d.manual_until_s = p.manual_until_s
      /\ d.maintenance = (MaintenanceRunning(p, t) \/ MaintenanceDue(p, cfg, t))
  BY <1>1, DecideShape
<1>4. /\ p.on \in BOOLEAN /\ d.on \in BOOLEAN
      /\ p.manual_until_s \in Int /\ p.last_on_s \in Int
  BY <1>1, <1>2 DEF CtlState
<1>5. ~d.on => d.last_on_s = d.changed_s
  BY <1>3, <1>4 DEF LastOn, Prepared
<1>6. d.manual # "none" => p.manual # "none" /\ t < d.manual_until_s
  BY <1>3, <1>4 DEF ManualAfter, ManualExpired
<1>7. Prepared(d, critical_x10, end)
  BY <1>2, <1>3, <1>5, <1>6 DEF Prepared
<1>8. ASSUME ~d.on, d.manual = "none", d.have_temp, ~d.sensor_failed, d.temp_x10 < cfg.stop_x10
      PROVE  t - d.last_on_s < MAINTENANCE_INTERVAL_S
  <2>1. ~Verdict(d).on
    BY <1>3, <1>8
  <2>2. ~d.maintenance
    BY <2>1, <1>8 DEF Verdict
  <2>3. ~MaintenanceDue(p, cfg, t) /\ ~MaintenanceRunning(p, t)
    BY <2>2, <1>3
  <2>4. d.last_on_s = LastOn(p, t)
    BY <1>3, <1>8
  <2>5. CASE p.on
    BY <2>4, <2>5, LogicConstants DEF LastOn
  <2>6. CASE ~p.on
    BY <1>3, <1>4, <1>8, <2>3, <2>4, <2>6, LogicConstants DEF LastOn, MaintenanceDue
  <2> QED BY <2>5, <2>6
<1> QED BY <1>3, <1>6, <1>7, <1>8

(* Every decision of the specification, then, re-establishes the invariant.*)
LEMMA StepFulfils ==
  ASSUME IInv, NEW p, NEW critical_x10 \in Int, NEW cfg \in Configs, NEW t \in Int,
         Prepared(p, critical_x10, now + MANUAL_MAX_S),
         Decided(p, cfg, t),
         latest' = [critical_x10 |-> critical_x10, stop_x10 |-> cfg.stop_x10, at_s |-> t]
  PROVE  IInv'
<1>1. cfg \in Config /\ cfg.stop_x10 \in Int
  BY PumpConstants DEF Config
<1>2. /\ Prepared(s_state', critical_x10, now + MANUAL_MAX_S)
      /\ [on |-> s_state'.on, reason |-> s_state'.reason] = Verdict(s_state')
      /\ s_state'.manual # "none" => t < s_state'.manual_until_s
      /\ ~s_state'.on /\ s_state'.manual = "none" /\ s_state'.have_temp
           /\ ~s_state'.sensor_failed /\ s_state'.temp_x10 < cfg.stop_x10
           => t - s_state'.last_on_s < MAINTENANCE_INTERVAL_S
  BY <1>1, DecideFulfils DEF Decided
<1>3. now' = now /\ latest' \in Latest
  BY <1>1 DEF Decided, Latest
<1>4. TypeOK'
  BY <1>2, <1>3 DEF Prepared, IInv, TypeOK
<1>5. /\ latest'.critical_x10 = critical_x10
      /\ latest'.stop_x10 = cfg.stop_x10
      /\ latest'.at_s = t
  OBVIOUS
<1>6. ServesTopRule'
  BY <1>2 DEF ServesTopRule
<1>7. SensorFlags' /\ IdleClockStartsAtStop'
  BY <1>2, <1>5 DEF Prepared, SensorFlags, IdleClockStartsAtStop
<1>8. NoMissedMaintenance'
  BY <1>2, <1>5 DEF NoMissedMaintenance
<1>9. OverrideIsLive'
  BY <1>2, <1>3, <1>5 DEF OverrideIsLive, Prepared
<1> QED BY <1>4, <1>6, <1>7, <1>8, <1>9 DEF IInv

(***************************************************************************)
(* The invariant.                                                          *)
(***************************************************************************)

LEMMA InitHolds == Init => IInv
<1> SUFFICES ASSUME Init PROVE IInv
  OBVIOUS
<1>1. TypeOK
  BY LogicConstants, PumpConstants
  DEF Init, TypeOK, ctl_init, CtlState, Latest, Reasons, Manuals
<1>2. ServesTopRule
  BY DEF Init, ServesTopRule, ctl_init, Verdict
<1>3. SensorFlags /\ IdleClockStartsAtStop /\ NoMissedMaintenance /\ OverrideIsLive
  BY LogicConstants DEF Init, SensorFlags, IdleClockStartsAtStop, NoMissedMaintenance,
                        OverrideIsLive, ctl_init
<1> QED BY <1>1, <1>2, <1>3 DEF IInv

LEMMA NextPreserves == IInv /\ [Next]_vars => IInv'
<1> SUFFICES ASSUME IInv, [Next]_vars PROVE IInv'
  OBVIOUS
<1>1. now \in Int /\ latest \in Latest /\ s_state \in CtlState /\ Stamps \subseteq Int
  BY DEF IInv, TypeOK, Stamps
<1>2. ASSUME NEW reading \in Readings, NEW c1 \in Configs, NEW c2 \in Configs,
             NEW t \in Stamps, Read(reading, c1, c2, t)
      PROVE  IInv'
  <2> DEFINE critical_x10 == IF reading.valid THEN c1.critical_x10 ELSE latest.critical_x10
  <2>1. critical_x10 \in Int
    BY <1>1, PumpConstants DEF Config, Latest
  <2>2. t \in Int
    BY <1>1
  <2>3. Prepared(ctl_sensor(s_state, c1, t, reading), critical_x10, now + MANUAL_MAX_S)
    BY <2>2, ReadPrepares
  <2> QED BY <1>2, <2>1, <2>2, <2>3, StepFulfils DEF Read
<1>3. ASSUME NEW cfg \in Configs, NEW t \in Stamps, Decide(cfg, t)
      PROVE  IInv'
  <2>1. Prepared(s_state, latest.critical_x10, now + MANUAL_MAX_S)
    BY DEF Prepared, IInv, TypeOK, SensorFlags, IdleClockStartsAtStop, OverrideIsLive
  <2>2. latest.critical_x10 \in Int /\ t \in Int
    BY <1>1 DEF Latest
  <2>3. latest' = [critical_x10 |-> latest.critical_x10, stop_x10 |-> cfg.stop_x10, at_s |-> t]
    BY <1>1, <1>3 DEF Decide, Latest
  <2> QED BY <1>3, <2>1, <2>2, <2>3, StepFulfils DEF Decide
<1>4. ASSUME NEW manual \in Manuals, NEW duration_s \in MANUAL_MIN_S..MANUAL_MAX_S,
             NEW cfg \in Configs, Manual(manual, duration_s, cfg)
      PROVE  IInv'
  <2>1. Prepared(ctl_manual(s_state, manual, duration_s, now), latest.critical_x10,
                 now + MANUAL_MAX_S)
    BY ManualPrepares
  <2>2. latest.critical_x10 \in Int
    BY <1>1 DEF Latest
  <2>3. latest' = [critical_x10 |-> latest.critical_x10, stop_x10 |-> cfg.stop_x10, at_s |-> now]
    BY <1>1, <1>4 DEF Manual, Latest
  <2> QED BY <1>1, <1>4, <2>1, <2>2, <2>3, StepFulfils DEF Manual
<1>5. CASE Restart
  <2>1. Init'
    BY <1>5 DEF Restart, Init
  <2>2. Init' => IInv'
    BY InitHolds, PTL
  <2> QED BY <2>1, <2>2
<1>6. CASE Clock
  <2>1. TypeOK'
    BY <1>6, PumpConstants DEF Clock, IInv, TypeOK
  <2>2. ServesTopRule' /\ SensorFlags' /\ IdleClockStartsAtStop' /\ NoMissedMaintenance'
    BY <1>6 DEF Clock, IInv, ServesTopRule, SensorFlags, IdleClockStartsAtStop,
                NoMissedMaintenance
  <2>3. OverrideIsLive'
    BY <1>1, <1>6, PumpConstants DEF Clock, IInv, OverrideIsLive, CtlState
  <2> QED BY <2>1, <2>2, <2>3 DEF IInv
<1>7. CASE UNCHANGED vars
  BY <1>7 DEF vars, IInv, TypeOK, ServesTopRule, SensorFlags, IdleClockStartsAtStop,
              NoMissedMaintenance, OverrideIsLive
<1> QED BY <1>2, <1>3, <1>4, <1>5, <1>6, <1>7 DEF Next, ReadTick, DecideTick, Command

(* The invariant holds in every reachable state, for any thresholds that   *)
(* settings.c can store, any periods and any delay of the control task.    *)
THEOREM Invariant == Spec => []IInv
  BY InitHolds, NextPreserves, PTL DEF Spec

(* The state of control_logic.c keeps its types: no field leaves its range *)
(* and the failure counter saturates.                                      *)
THEOREM Typing == Spec => []TypeOK
<1>1. IInv => TypeOK
  BY DEF IInv
<1> QED BY <1>1, Invariant, PTL

(* Between two calls the pump always obeys the top rule of ctl_decide.     *)
THEOREM TopRule == Spec => []ServesTopRule
<1>1. IInv => ServesTopRule
  BY DEF IInv
<1> QED BY <1>1, Invariant, PTL

(* Water read at or above the critical threshold is never left standing.   *)
THEOREM CriticalWater == Spec => []CriticalWaterMoves
<1>1. IInv => CriticalWaterMoves
  BY DEF IInv, SensorFlags, ServesTopRule, Verdict, CriticalWaterMoves
<1> QED BY <1>1, Invariant, PTL

(* SENSOR_FAIL_READS bad reads start the pump unless it is stopped by hand.*)
THEOREM BlindPump == Spec => []BlindPumpRuns
<1>1. IInv => BlindPumpRuns
  <2> SUFFICES ASSUME IInv, s_state.failures >= SENSOR_FAIL_READS, s_state.manual # "stop"
               PROVE  s_state.on
    BY DEF BlindPumpRuns
  <2>1. s_state.sensor_failed
    BY DEF IInv, SensorFlags
  <2>2. Verdict(s_state).on
    BY <2>1 DEF Verdict
  <2> QED BY <2>2 DEF IInv, ServesTopRule
<1> QED BY <1>1, Invariant, PTL

(* No anti-seize run is missed.                                            *)
THEOREM MaintenanceInTime == Spec => []NoMissedMaintenance
<1>1. IInv => NoMissedMaintenance
  BY DEF IInv
<1> QED BY <1>1, Invariant, PTL

(* An override in force was not yet due and ends in at most MANUAL_MAX_S.  *)
THEOREM OverrideBounded == Spec => []OverrideIsLive
<1>1. IInv => OverrideIsLive
  BY DEF IInv
<1> QED BY <1>1, Invariant, PTL

(***************************************************************************)
(* What a step may do.                                                     *)
(***************************************************************************)

(* Every step but a restart or a clock tick is a decision on a state that  *)
(* agrees with the old one on the pump and the maintenance run; only a     *)
(* command sets an override and only a good read sets a temperature flag.  *)
Deciding(p, cfg, t) ==
  /\ p \in CtlState
  /\ p.on = s_state.on
  /\ p.changed_s = s_state.changed_s
  /\ p.last_on_s = s_state.last_on_s
  /\ p.maintenance = s_state.maintenance
  /\ (p.manual = s_state.manual /\ p.manual_until_s = s_state.manual_until_s) \/ Command
  /\ (p.overheat = s_state.overheat /\ p.hot = s_state.hot) \/ ~p.sensor_failed
  /\ cfg \in Config
  /\ t \in Int
  /\ t <= now
  /\ s_state' = ctl_decide(p, cfg, t)
  /\ latest'.at_s = t

LEMMA StepCases ==
  ASSUME IInv, Next
  PROVE  Restart \/ Clock \/ \E p, cfg, t : Deciding(p, cfg, t)
<1>1. /\ s_state \in CtlState /\ now \in Int /\ latest \in Latest
      /\ \A t \in Stamps : t \in Int /\ t <= now
  BY PumpConstants DEF IInv, TypeOK, Stamps
<1>2. ASSUME NEW reading \in Readings, NEW c1 \in Configs, NEW c2 \in Configs,
             NEW t \in Stamps, Read(reading, c1, c2, t)
      PROVE  \E p, cfg, u : Deciding(p, cfg, u)
  <2> DEFINE p == ctl_sensor(s_state, c1, t, reading)
  <2>1. c1 \in Config /\ c2 \in Config /\ reading \in Reading /\ t \in Int /\ t <= now
    BY <1>1, PumpConstants
  <2>2. p \in CtlState
    BY <1>1, <2>1, SensorType
  <2>3. /\ p.on = s_state.on /\ p.changed_s = s_state.changed_s
        /\ p.last_on_s = s_state.last_on_s /\ p.maintenance = s_state.maintenance
        /\ p.manual = s_state.manual /\ p.manual_until_s = s_state.manual_until_s
    BY <1>1, SensorFrame
  <2>4. (p.overheat = s_state.overheat /\ p.hot = s_state.hot) \/ ~p.sensor_failed
    <3>1. CASE reading.valid
      BY <1>1, <2>1, <3>1, GoodReadShape
    <3>2. CASE ~reading.valid
      BY <1>1, <2>1, <3>2, BadReadShape
    <3> QED BY <3>1, <3>2
  <2>5. s_state' = ctl_decide(p, c2, t) /\ latest'.at_s = t
    BY <1>2 DEF Read, Decided
  <2>6. Deciding(p, c2, t)
    <3> HIDE DEF p
    <3> QED BY <2>1, <2>2, <2>3, <2>4, <2>5 DEF Deciding
  <2> QED BY <2>6
<1>3. ASSUME NEW cfg \in Configs, NEW t \in Stamps, Decide(cfg, t)
      PROVE  \E p, c, u : Deciding(p, c, u)
  <2>1. cfg \in Config /\ t \in Int /\ t <= now
    BY <1>1, PumpConstants
  <2>2. s_state' = ctl_decide(s_state, cfg, t) /\ latest'.at_s = t
    BY <1>1, <1>3 DEF Decide, Decided, Latest
  <2>3. Deciding(s_state, cfg, t)
    BY <1>1, <2>1, <2>2 DEF Deciding
  <2> QED BY <2>3
<1>4. ASSUME NEW manual \in Manuals, NEW duration_s \in MANUAL_MIN_S..MANUAL_MAX_S,
             NEW cfg \in Configs, Manual(manual, duration_s, cfg)
      PROVE  \E p, c, u : Deciding(p, c, u)
  <2> DEFINE p == ctl_manual(s_state, manual, duration_s, now)
  <2>1. cfg \in Config /\ duration_s \in Int /\ Command
    BY <1>4, PumpConstants DEF Command
  <2>2. p \in CtlState
    BY <1>1, <2>1, ManualType
  <2>3. /\ p.on = s_state.on /\ p.changed_s = s_state.changed_s
        /\ p.last_on_s = s_state.last_on_s /\ p.maintenance = s_state.maintenance
        /\ p.overheat = s_state.overheat /\ p.hot = s_state.hot
    BY <1>1, ManualFrame
  <2>4. s_state' = ctl_decide(p, cfg, now) /\ latest'.at_s = now
    BY <1>1, <1>4 DEF Manual, Decided, Latest
  <2>5. Deciding(p, cfg, now)
    <3> HIDE DEF p
    <3> QED BY <1>1, <2>1, <2>2, <2>3, <2>4 DEF Deciding
  <2> QED BY <2>5
<1> QED BY <1>2, <1>3, <1>4 DEF Next, ReadTick, DecideTick, Command

(***************************************************************************)
(* The action properties.                                                  *)
(***************************************************************************)

LEMMA MaintenanceBegins ==
  ASSUME IInv, Next, ~s_state.maintenance, s_state'.maintenance
  PROVE  /\ ~s_state.on
         /\ latest'.at_s - s_state.changed_s >= MAINTENANCE_INTERVAL_S
         /\ s_state'.maintenance_until_s = latest'.at_s + MAINTENANCE_RUN_S
<1>1. ~Restart /\ ~Clock
  BY DEF Restart, Clock, ctl_init
<1>2. PICK p, cfg, t : Deciding(p, cfg, t)
  BY <1>1, StepCases
<1>3. /\ s_state'.maintenance = (MaintenanceRunning(p, t) \/ MaintenanceDue(p, cfg, t))
      /\ MaintenanceDue(p, cfg, t) => s_state'.maintenance_until_s = t + MAINTENANCE_RUN_S
  <2>1. p \in CtlState /\ cfg \in Config /\ t \in Int /\ s_state' = ctl_decide(p, cfg, t)
    BY <1>2 DEF Deciding
  <2> QED BY <2>1, DecideShape
<1>4. MaintenanceDue(p, cfg, t)
  BY <1>2, <1>3 DEF Deciding, MaintenanceRunning
<1>5. ~s_state.on /\ t - s_state.last_on_s >= MAINTENANCE_INTERVAL_S
  BY <1>2, <1>4 DEF Deciding, MaintenanceDue, LastOn
<1>6. s_state.last_on_s = s_state.changed_s
  BY <1>5 DEF IInv, IdleClockStartsAtStop
<1> QED BY <1>2, <1>3, <1>4, <1>5, <1>6 DEF Deciding

(* A maintenance run begins only after a whole interval without the pump.  *)
THEOREM MaintenanceIdle == Spec => MaintenanceOnlyWhenIdle
<1>1. IInv /\ [Next]_vars =>
        [~s_state.maintenance /\ s_state'.maintenance =>
           /\ ~s_state.on
           /\ latest'.at_s - s_state.changed_s >= MAINTENANCE_INTERVAL_S
           /\ s_state'.maintenance_until_s = latest'.at_s + MAINTENANCE_RUN_S]_vars
  BY MaintenanceBegins
<1> QED BY <1>1, Invariant, PTL DEF Spec, MaintenanceOnlyWhenIdle

LEMMA ManualStopEnds ==
  ASSUME IInv, Next, s_state.manual = "stop", s_state'.manual # "stop"
  PROVE  now >= s_state.manual_until_s \/ s_state'.overheat \/ Command \/ Restart
<1> SUFFICES ASSUME ~Command, ~Restart
             PROVE  now >= s_state.manual_until_s \/ s_state'.overheat
  OBVIOUS
<1>1. ~Clock
  BY DEF Clock
<1>2. PICK p, cfg, t : Deciding(p, cfg, t)
  BY <1>1, StepCases
<1>3. s_state'.manual = ManualAfter(p, t) /\ s_state'.overheat = p.overheat
  BY <1>2, DecideShape DEF Deciding
<1>4. /\ p.manual = "stop" /\ p.manual_until_s = s_state.manual_until_s
      /\ t \in Int /\ t <= now
  BY <1>2 DEF Deciding
<1>5. ManualExpired(p, t) \/ ManualCancelled(p, t)
  BY <1>3, <1>4 DEF ManualAfter
<1>6. CASE ManualExpired(p, t)
  <2>1. s_state.manual_until_s \in Int /\ now \in Int
    BY DEF IInv, TypeOK, CtlState
  <2> QED BY <1>4, <1>6, <2>1 DEF ManualExpired
<1>7. CASE ManualCancelled(p, t)
  BY <1>3, <1>7 DEF ManualCancelled
<1> QED BY <1>5, <1>6, <1>7

(* A manual stop holds until its deadline, an overheat, a command or a     *)
(* restart: no sensor failure, reading or new threshold ends it.           *)
THEOREM ManualStop == Spec => ManualStopHolds
<1>1. IInv /\ [Next]_vars =>
        [s_state.manual = "stop" /\ s_state'.manual # "stop" =>
           now >= s_state.manual_until_s \/ s_state'.overheat \/ Command \/ Restart]_vars
  BY ManualStopEnds
<1> QED BY <1>1, Invariant, PTL DEF Spec, ManualStopHolds

(***************************************************************************)
(* The refinement.                                                         *)
(***************************************************************************)

(* The demand that is active while none before it is: that is the top.     *)
LEMMA TopIs ==
  ASSUME NEW D, NEW i \in 1..6, Promise!Rank[i] \in D,
         \A j \in 1..(i - 1) : Promise!Rank[j] \notin D
  PROVE  Promise!Top(D) = Promise!Rank[i]
<1> DEFINE P(k) == Promise!Rank[k] \in D /\ \A j \in 1..(k - 1) : Promise!Rank[j] \notin D
           k0 == CHOOSE k \in 1..Len(Promise!Rank) : P(k)
<1>1. Len(Promise!Rank) = 6
  BY DEF Promise!Rank
<1>2. k0 \in 1..6 /\ P(k0)
  BY <1>1
<1>3. k0 = i
  <2> HIDE DEF k0
  <2>1. ~(k0 < i) /\ ~(i < k0)
    BY <1>2
  <2> QED BY <1>2, <2>1
<1> QED BY <1>1, <1>3 DEF Promise!Top

(* The rule table is the ranking: the verdict on a state serves the top    *)
(* demand of that state.                                                   *)
LEMMA VerdictIsTop ==
  ASSUME NEW s \in CtlState
  PROVE  /\ Verdict(s).reason = Promise!Top(DemandsOf(s))
         /\ Verdict(s).on = Promise!Pumping(Verdict(s).reason)
<1> DEFINE D == DemandsOf(s)
           R == Promise!Rank
<1>1. /\ "overheat" \in D <=> s.overheat
      /\ "manual_on" \in D <=> s.manual = "start"
      /\ "manual_off" \in D <=> s.manual = "stop"
      /\ "sensor_fail" \in D <=> s.sensor_failed
      /\ "auto_hot" \in D <=> s.hot
      /\ "maintenance" \in D <=> s.maintenance
  BY DEF DemandsOf
<1>2. /\ R[1] = "overheat" /\ R[2] = "manual_on" /\ R[3] = "manual_off"
      /\ R[4] = "sensor_fail" /\ R[5] = "auto_hot" /\ R[6] = "maintenance"
  BY DEF Promise!Rank
<1>3. D \subseteq {"overheat", "manual_on", "manual_off", "sensor_fail", "auto_hot", "maintenance"}
  BY DEF DemandsOf
<1>4. Verdict(s).on = Promise!Pumping(Verdict(s).reason)
  BY DEF Verdict, Promise!Pumping
<1> HIDE DEF D, R
<1>5. CASE s.overheat
  <2>1. Promise!Top(D) = R[1]
    BY <1>1, <1>2, <1>5, TopIs DEF R
  <2> QED BY <1>2, <1>4, <1>5, <2>1 DEF Verdict, D
<1>6. CASE ~s.overheat /\ s.manual = "start"
  <2>1. Promise!Top(D) = R[2]
    BY <1>1, <1>2, <1>6, TopIs DEF R
  <2> QED BY <1>2, <1>4, <1>6, <2>1 DEF Verdict, D
<1>7. CASE ~s.overheat /\ s.manual = "stop"
  <2>1. Promise!Top(D) = R[3]
    BY <1>1, <1>2, <1>7, TopIs DEF R
  <2> QED BY <1>2, <1>4, <1>7, <2>1 DEF Verdict, D
<1>8. CASE ~s.overheat /\ s.manual \notin {"start", "stop"} /\ s.sensor_failed
  <2>1. Promise!Top(D) = R[4]
    BY <1>1, <1>2, <1>8, TopIs DEF R
  <2> QED BY <1>2, <1>4, <1>8, <2>1 DEF Verdict, D
<1>9. CASE ~s.overheat /\ s.manual \notin {"start", "stop"} /\ ~s.sensor_failed /\ s.hot
  <2>1. Promise!Top(D) = R[5]
    BY <1>1, <1>2, <1>9, TopIs DEF R
  <2> QED BY <1>2, <1>4, <1>9, <2>1 DEF Verdict, D
<1>10. CASE /\ ~s.overheat /\ s.manual \notin {"start", "stop"}
            /\ ~s.sensor_failed /\ ~s.hot /\ s.maintenance
  <2>1. Promise!Top(D) = R[6]
    BY <1>1, <1>2, <1>10, TopIs DEF R
  <2> QED BY <1>2, <1>4, <1>10, <2>1 DEF Verdict, D
<1>11. CASE /\ ~s.overheat /\ s.manual \notin {"start", "stop"}
            /\ ~s.sensor_failed /\ ~s.hot /\ ~s.maintenance
  <2>1. D = {}
    BY <1>1, <1>3, <1>11
  <2> QED BY <1>4, <1>11, <2>1 DEF Verdict, D, Promise!Top
<1> QED BY <1>5, <1>6, <1>7, <1>8, <1>9, <1>10, <1>11 DEF D

LEMMA InitRefines == Init => Promise!Init
  BY DEF Init, Promise!Init, ctl_init, DemandsOf

(* A restart forgets every demand.                                         *)
LEMMA RestartRefines == Restart => Promise!Restart
  BY DEF Restart, Promise!Restart, ctl_init, DemandsOf

(* A decision is a change of the demands.                                  *)
LEMMA DecisionRefines ==
  ASSUME IInv, IInv', NEW p, NEW cfg, NEW t, Deciding(p, cfg, t)
  PROVE  Promise!Change(DemandsOf(s_state'))
<1> DEFINE D == DemandsOf(s_state)
           E == DemandsOf(s_state')
<1>1. /\ "overheat" \in D <=> s_state.overheat
      /\ "auto_hot" \in D <=> s_state.hot
      /\ "maintenance" \in D <=> s_state.maintenance
  BY DEF DemandsOf
<1>2. /\ "overheat" \in E <=> s_state'.overheat
      /\ "manual_on" \in E <=> s_state'.manual = "start"
      /\ "manual_off" \in E <=> s_state'.manual = "stop"
      /\ "sensor_fail" \in E <=> s_state'.sensor_failed
      /\ "auto_hot" \in E <=> s_state'.hot
      /\ "maintenance" \in E <=> s_state'.maintenance
  BY DEF DemandsOf
<1>3. /\ s_state'.overheat = p.overheat
      /\ s_state'.hot = p.hot
      /\ s_state'.sensor_failed = p.sensor_failed
      /\ s_state'.manual = ManualAfter(p, t)
      /\ s_state'.maintenance = (MaintenanceRunning(p, t) \/ MaintenanceDue(p, cfg, t))
  BY DecideShape DEF Deciding
<1>4. s_state \in CtlState /\ s_state' \in CtlState
  BY DEF IInv, TypeOK
<1> HIDE DEF D, E
<1>5. Promise!Consistent(E)
  <2>1. s_state'.manual = "stop" => ~s_state'.overheat
    BY <1>3 DEF ManualAfter, ManualCancelled
  <2>2. s_state'.overheat => s_state'.hot
    BY DEF IInv, SensorFlags
  <2> QED BY <1>2, <2>1, <2>2 DEF Promise!Consistent
<1>6. E \cap {"overheat", "auto_hot"} # D \cap {"overheat", "auto_hot"} => "sensor_fail" \notin E
  <2>1. (s_state'.overheat = s_state.overheat /\ s_state'.hot = s_state.hot)
          \/ ~s_state'.sensor_failed
    BY <1>3 DEF Deciding
  <2> QED BY <1>1, <1>2, <2>1
<1>7. ASSUME "maintenance" \in E \ D
      PROVE  /\ ~Promise!Pumping(s_state.reason)
             /\ E \cap {"manual_on", "manual_off", "sensor_fail"} = {}
  <2>1. MaintenanceDue(p, cfg, t)
    BY <1>1, <1>2, <1>3, <1>7 DEF Deciding, MaintenanceRunning
  <2>2. ~s_state.on /\ s_state'.manual = "none" /\ ~s_state'.sensor_failed
    BY <1>3, <2>1 DEF MaintenanceDue, Deciding
  <2>3. ~Promise!Pumping(s_state.reason)
    <3>1. /\ s_state.on = Verdict(s_state).on
          /\ s_state.reason = Verdict(s_state).reason
      BY <1>4, VerdictType DEF IInv, ServesTopRule
    <3> QED BY <1>4, <2>2, <3>1, VerdictIsTop
  <2> QED BY <1>2, <2>2, <2>3
<1>8. s_state'.reason = Promise!Top(E)
  <2>1. s_state'.reason = Verdict(s_state').reason
    BY DEF IInv, ServesTopRule
  <2> QED BY <1>4, <2>1, VerdictIsTop DEF E
<1> QED BY <1>5, <1>6, <1>7, <1>8 DEF Promise!Change, D, E

LEMMA StepRefines ==
  ASSUME IInv, IInv', [Next]_vars
  PROVE  [Promise!Next]_(Promise!vars)
<1>1. CASE Restart
  BY <1>1, RestartRefines DEF Promise!Next
<1>2. CASE Clock
  BY <1>2 DEF Clock, Promise!vars
<1>3. CASE UNCHANGED vars
  BY <1>3 DEF vars, Promise!vars
<1>4. ASSUME NEW p, NEW cfg, NEW t, Deciding(p, cfg, t)
      PROVE  Promise!Next
  <2>1. Promise!Change(DemandsOf(s_state'))
    BY <1>4, DecisionRefines
  <2>2. DemandsOf(s_state') \in SUBSET Promise!Demands
    <3>1. {"overheat", "manual_on", "manual_off", "sensor_fail", "auto_hot", "maintenance"}
            \subseteq Promise!Demands
      BY DEF Promise!Demands, Promise!Rank
    <3> QED BY <3>1 DEF DemandsOf
  <2> QED BY <2>1, <2>2 DEF Promise!Next
<1> QED BY <1>1, <1>2, <1>3, <1>4, StepCases

(* The controller implements the promise of the rule table: whatever the   *)
(* order of reads, commands, new thresholds, delays and restarts, the pump *)
(* serves the top demand, a dead sensor changes no temperature demand, and *)
(* a maintenance run starts only from rest.                                *)
THEOREM Refinement == Spec => KeepsPromise
<1>1. IInv /\ IInv' /\ [Next]_vars => [Promise!Next]_(Promise!vars)
  BY StepRefines
<1> QED BY <1>1, InitRefines, Invariant, PTL DEF Spec, KeepsPromise, Promise!Spec

=============================================================================
