------------------------------- MODULE Control -------------------------------
(***************************************************************************)
(* The tasks around the pump decisions (firmware/main/control.c): the      *)
(* control task, the HTTP handlers that command the pump and change the    *)
(* thresholds, the task watchdog, the clock and the relay.                 *)
(*                                                                         *)
(* The control task samples the clock before it waits for s_lock, reads    *)
(* the thresholds twice, and may be delayed at every step: the only bound  *)
(* on a delay is the watchdog, which resets the board WDT_S seconds after  *)
(* the last feed.                                                          *)
(***************************************************************************)
EXTENDS ControlLogic

CONSTANTS
  Configs,        \* the threshold triples the settings can hold
  Readings,       \* what the sensor may return
  Commands,       \* the overrides that commands may ask for
  Durations,      \* and their durations
  NewSettings,    \* the threshold triples that requests may bring
  Glitches,       \* whether the pump's pin may lose its level
  MANUAL_MIN_S, MANUAL_MAX_S,
  CONTROL_READ_PERIOD_S,
  WDT_S,          \* the watchdog's timeout
  MaxTime,        \* bound on the clock
  NoReading       \* this tick reads no sensor

ASSUME ControlConstants ==
  /\ Configs \subseteq Config
  /\ Readings \subseteq Reading
  /\ Commands \subseteq Manuals
  /\ Durations \subseteq Nat
  /\ NewSettings \subseteq Configs
  /\ Glitches \in BOOLEAN
  /\ MANUAL_MIN_S \in Nat \ {0} /\ MANUAL_MAX_S \in Nat /\ MANUAL_MIN_S <= MANUAL_MAX_S
  /\ CONTROL_READ_PERIOD_S \in Nat \ {0}
  /\ WDT_S \in Nat \ {0}
  /\ MaxTime \in Nat
  /\ NoReading \notin Reading

ASSUME ConfigsAreSane ==
  \A c \in Configs : /\ c.stop_x10 < c.start_x10
                     /\ c.start_x10 < c.critical_x10 - OVERHEAT_CLEAR_X10

VARIABLES
  now,            \* the monotonic clock, in seconds since boot
  settings,       \* the thresholds in RAM (module Settings)
  s_state,        \* the controller state, guarded by s_lock
  s_heartbeat_s,  \* stamp of the last finished tick, guarded by s_lock
  relay,          \* the level of the pump's GPIO
  task,           \* the control task: its place and its local variables
  notified,       \* a task notification is pending
  http,           \* the HTTP server: "idle", or "saving" thresholds to flash
  fed_s,          \* when the watchdog was last fed
  seen,           \* history: s_state as s_lock last released it
  latest,         \* history: the thresholds and the stamp used last
  changed_s,      \* history: when the settings last changed
  glitch_s        \* history: when the relay left its state, 0 while it has not

vars == <<now, settings, s_state, s_heartbeat_s, relay, task, notified, http, fed_s,
          seen, latest, changed_s, glitch_s>>

(* task.pc: "wait" in ulTaskNotifyTake; "convert" in temp_sensor_read;     *)
(* "take" before s_lock; "decide" holding s_lock after ctl_sensor; "feed"  *)
(* after s_lock is given back.  The control task is the only one that      *)
(* holds s_lock over more than one step of this model.                     *)
Task ==
  [pc: {"wait", "convert", "take", "decide", "feed"},
   now_s: Int, next_read_s: Int,
   reading: Readings \cup {NoReading},
   critical_x10: Int]

Latest == [critical_x10: Int, stop_x10: Int, at_s: Int]

LockFree == task.pc # "decide"

-----------------------------------------------------------------------------
(* control_start, and the task up to its first tick.                       *)
FirstTick == [pc |-> "wait", now_s |-> 0, next_read_s |-> 0, reading |-> NoReading,
              critical_x10 |-> 0]

NoneUsed == [critical_x10 |-> 0, stop_x10 |-> 0, at_s |-> 0]

Init ==
  /\ now = 0
  /\ settings \in Configs
  /\ s_state = ctl_init(0) /\ seen = ctl_init(0)
  /\ s_heartbeat_s = 0
  /\ relay = FALSE
  /\ task = FirstTick
  /\ notified = TRUE
  /\ http = "idle"
  /\ fed_s = 0 /\ changed_s = 0 /\ glitch_s = 0
  /\ latest = NoneUsed

(***************************************************************************)
(* The control task.                                                       *)
(***************************************************************************)

(* The wait ends after a second, or at once when notified.                 *)
Wake ==
  /\ task.pc = "wait"
  /\ notified \/ now > fed_s
  /\ notified' = FALSE
  /\ task' = IF now >= task.next_read_s
             THEN [task EXCEPT !.pc = "convert",
                               !.next_read_s = now + CONTROL_READ_PERIOD_S]
             ELSE [task EXCEPT !.pc = "take", !.now_s = now]
  /\ UNCHANGED <<now, settings, s_state, s_heartbeat_s, relay, http, fed_s,
                 seen, latest, changed_s, glitch_s>>

(* The conversion ends, good or bad; the clock is sampled again.           *)
Convert(reading) ==
  /\ task.pc = "convert"
  /\ task' = [task EXCEPT !.pc = "take", !.now_s = now, !.reading = reading]
  /\ UNCHANGED <<now, settings, s_state, s_heartbeat_s, relay, notified, http, fed_s,
                 seen, latest, changed_s, glitch_s>>

(* With s_lock taken: ctl_sensor under the thresholds of this moment.      *)
Sense ==
  /\ task.pc = "take"
  /\ task.reading # NoReading
  /\ s_state' = ctl_sensor(s_state, settings, task.now_s, task.reading)
  /\ task' = [task EXCEPT !.pc = "decide", !.critical_x10 = settings.critical_x10]
  /\ UNCHANGED <<now, settings, s_heartbeat_s, relay, notified, http, fed_s,
                 seen, latest, changed_s, glitch_s>>

(* decide_locked under the thresholds of this moment.                      *)
Decision ==
  /\ \/ task.pc = "decide"
     \/ task.pc = "take" /\ task.reading = NoReading
  /\ s_state' = ctl_decide(s_state, settings, task.now_s)
  /\ seen' = s_state'
  /\ latest' = [critical_x10 |-> IF task.reading # NoReading /\ task.reading.valid
                                 THEN task.critical_x10 ELSE latest.critical_x10,
                stop_x10 |-> settings.stop_x10, at_s |-> task.now_s]
  /\ task' = [task EXCEPT !.pc = "feed", !.now_s = 0, !.reading = NoReading, !.critical_x10 = 0]
  /\ UNCHANGED <<now, settings, notified, http, fed_s, changed_s>>

SlipActTrustsTheRelay ==
  /\ Decision
  /\ relay' = IF s_state'.on # s_state.on THEN s_state'.on ELSE relay
  /\ s_heartbeat_s' = task.now_s
  /\ UNCHANGED glitch_s

SlipActBeatsOnSwitch ==
  /\ Decision
  /\ relay' = s_state'.on
  /\ s_heartbeat_s' = IF s_state'.on # s_state.on THEN task.now_s ELSE s_heartbeat_s
  /\ glitch_s' = 0

(* The decision, the relay brought in line with it, whether it switched or *)
(* not, and the heartbeat; then s_lock is given back.                      *)
Act ==
  /\ Decision
  /\ relay' = s_state'.on
  /\ s_heartbeat_s' = task.now_s
  /\ glitch_s' = 0

Feed ==
  /\ task.pc = "feed"
  /\ fed_s' = now
  /\ task' = [task EXCEPT !.pc = "wait"]
  /\ UNCHANGED <<now, settings, s_state, s_heartbeat_s, relay, notified, http,
                 seen, latest, changed_s, glitch_s>>

(***************************************************************************)
(* The HTTP server: one handler at a time.                                 *)
(***************************************************************************)
SlipClampFromBelow(duration_s) ==
  IF duration_s < MANUAL_MIN_S THEN MANUAL_MIN_S ELSE duration_s

ClampDuration(duration_s) ==
  IF duration_s < MANUAL_MIN_S THEN MANUAL_MIN_S
  ELSE IF duration_s > MANUAL_MAX_S THEN MANUAL_MAX_S ELSE duration_s

(* control_manual, accepted.  A refused command changes nothing.           *)
Command(manual, duration_s) ==
  /\ http = "idle"
  /\ LockFree
  /\ ManualAccepted(s_state, manual)
  /\ s_state' = ctl_decide(ctl_manual(s_state, manual, ClampDuration(duration_s), now),
                           settings, now)
  /\ relay' = IF s_state'.on # s_state.on THEN s_state'.on ELSE relay
  /\ glitch_s' = IF relay' = s_state'.on THEN 0 ELSE glitch_s
  /\ seen' = s_state'
  /\ latest' = [latest EXCEPT !.stop_x10 = settings.stop_x10, !.at_s = now]
  /\ notified' = TRUE
  /\ UNCHANGED <<now, settings, s_heartbeat_s, task, http, fed_s, changed_s>>

(* settings_set makes the new thresholds effective before it saves them;   *)
(* the control task is notified after the save, whatever its outcome.      *)
ChangeSettings(cfg) ==
  /\ http = "idle"
  /\ http' = "saving"
  /\ settings' = cfg
  /\ changed_s' = now
  /\ UNCHANGED <<now, s_state, s_heartbeat_s, relay, task, notified, fed_s,
                 seen, latest, glitch_s>>

SettingsChanged ==
  /\ http = "saving"
  /\ http' = "idle"
  /\ notified' = TRUE
  /\ UNCHANGED <<now, settings, s_state, s_heartbeat_s, relay, task, fed_s,
                 seen, latest, changed_s, glitch_s>>

(***************************************************************************)
(* The environment.                                                        *)
(***************************************************************************)

(* Time passes unless the watchdog is due.                                 *)
Clock ==
  /\ now < MaxTime
  /\ now < fed_s + WDT_S
  /\ now' = now + 1
  /\ UNCHANGED <<settings, s_state, s_heartbeat_s, relay, task, notified, http, fed_s,
                 seen, latest, changed_s, glitch_s>>

(* The watchdog, an update or a power cut; a save cut short may be lost.   *)
Reset ==
  /\ now' = 0
  /\ settings' \in Configs
  /\ s_state' = ctl_init(0) /\ seen' = ctl_init(0)
  /\ s_heartbeat_s' = 0
  /\ relay' = FALSE
  /\ task' = FirstTick
  /\ notified' = TRUE
  /\ http' = "idle"
  /\ fed_s' = 0 /\ changed_s' = 0 /\ glitch_s' = 0
  /\ latest' = NoneUsed

(* The pin loses its level.                                                *)
Glitch ==
  /\ Glitches
  /\ relay = s_state.on
  /\ relay' = ~relay
  /\ glitch_s' = now
  /\ UNCHANGED <<now, settings, s_state, s_heartbeat_s, task, notified, http, fed_s,
                 seen, latest, changed_s>>

ControlTask == Wake \/ (\E reading \in Readings : Convert(reading)) \/ Sense \/ Act \/ Feed

Http == \/ \E manual \in Commands, duration_s \in Durations : Command(manual, duration_s)
        \/ \E cfg \in NewSettings : ChangeSettings(cfg)
        \/ SettingsChanged

Next == ControlTask \/ Http \/ Clock \/ Reset \/ Glitch

Spec == Init /\ [][Next]_vars

-----------------------------------------------------------------------------
TypeOK ==
  /\ now \in 0..MaxTime
  /\ settings \in Configs
  /\ s_state \in CtlState /\ seen \in CtlState
  /\ s_heartbeat_s \in Int
  /\ relay \in BOOLEAN
  /\ task \in Task
  /\ notified \in BOOLEAN
  /\ http \in {"idle", "saving"}
  /\ {fed_s, changed_s, glitch_s} \subseteq 0..now
  /\ latest \in Latest

(* The heartbeat is stamped with a sample that is old by the time it is    *)
(* stored, and the next one comes only before the watchdog's next timeout: *)
(* its age may reach two timeouts, and no more.                            *)
HeartbeatFresh == now - s_heartbeat_s <= 2 * WDT_S

(* An override ends by itself: however the control task is delayed and     *)
(* whatever else is commanded, none outlives its deadline by two timeouts. *)
OverrideEndsInTime == seen.manual # "none" => now < seen.manual_until_s + 2 * WDT_S

(* A relay that lost its level is brought back in line within two timeouts.*)
RelayRestored == relay # s_state.on => now <= glitch_s + 2 * WDT_S

(* The flags do not contradict the thresholds in RAM.                      *)
Agrees(s) ==
  /\ s.temp_x10 > settings.start_x10 => s.hot
  /\ s.temp_x10 < settings.stop_x10 => ~s.hot
  /\ s.temp_x10 >= settings.critical_x10 => s.overheat

(* A read period and two timeouts after the last change of the thresholds, *)
(* the flags the pump obeys agree with the thresholds in RAM, if the       *)
(* sensor works.                                                           *)
ThresholdsInForce ==
  /\ seen.have_temp
  /\ seen.failures = 0
  /\ now - changed_s >= CONTROL_READ_PERIOD_S + 2 * WDT_S
  => Agrees(seen)

(***************************************************************************)
(* What the bounds above rest on.                                          *)
(***************************************************************************)

(* A tick samples the clock after the last feed, and its sample becomes    *)
(* the heartbeat before the next one; a read is never planned further than *)
(* a period ahead.                                                         *)
TimesInOrder ==
  /\ now <= fed_s + WDT_S
  /\ fed_s - WDT_S <= s_heartbeat_s /\ s_heartbeat_s <= now
  /\ task.pc = "feed" => fed_s <= s_heartbeat_s
  /\ task.pc \in {"take", "decide"} => fed_s <= task.now_s /\ task.now_s <= now
  /\ task.next_read_s <= now + CONTROL_READ_PERIOD_S

(* While the lock is held between a read and its decision, the state is    *)
(* what that read makes of the one last seen; otherwise it is that one.    *)
SeenThenRead ==
  /\ LockFree => s_state = seen
  /\ ~LockFree => /\ task.reading \in Readings
                  /\ \E cfg \in Configs :
                       /\ cfg.critical_x10 = task.critical_x10
                       /\ s_state = ctl_sensor(seen, cfg, task.now_s, task.reading)
  /\ task.pc \in {"wait", "convert", "feed"} => task.reading = NoReading

(* The sensor has failed as long as the count of its bad reads says so;    *)
(* the count saturates, it never starts over while the sensor stays dead.  *)
FailuresTell(s) == s.failures >= SENSOR_FAIL_READS <=> s.sensor_failed

OverrideNotDue == seen.manual # "none" => s_heartbeat_s < seen.manual_until_s

(* The tick that begins after a glitch repairs it.                         *)
RelayDue ==
  relay # s_state.on => /\ fed_s <= glitch_s + WDT_S
                        /\ task.pc = "feed" => fed_s <= glitch_s

ReadUnderWay ==
  \/ task.pc = "convert"
  \/ task.pc = "take" /\ task.reading # NoReading

FlagsStale(s) == s.have_temp /\ s.failures = 0 /\ ~Agrees(s)

(* Flags that contradict the thresholds last until a read that is planned, *)
(* or under way, and the tick of that read begins in time.                 *)
ReadComes ==
  LET due_s == changed_s + CONTROL_READ_PERIOD_S
  IN  /\ FlagsStale(seen) => fed_s < due_s + WDT_S
      /\ FlagsStale(s_state) /\ ~ReadUnderWay =>
           /\ task.next_read_s <= due_s
           /\ task.pc # "wait" => fed_s < due_s

(* The invariant that every step of the tasks, of the clock and of the     *)
(* environment preserves; the four bounds follow from it.                  *)
IInv ==
  /\ TypeOK
  /\ TimesInOrder
  /\ SeenThenRead
  /\ FailuresTell(s_state) /\ FailuresTell(seen)
  /\ OverrideNotDue
  /\ RelayDue
  /\ ReadComes

(* What the handlers and tasks do to the state is a behaviour of the calls *)
(* PumpLogic describes: the lock hides the state between a read and its    *)
(* decision, and a stamp is at most one watchdog timeout old when used.    *)
Logic == INSTANCE PumpLogic WITH s_state <- seen, LAG <- WDT_S

ImplementsLogic == Logic!Spec

(* "Threshold change from the app: applied on the next decision            *)
(* (immediately)" (control.h): a decision taken while the thresholds have  *)
(* been in RAM since before its tick began leaves no flag that contradicts *)
(* them.                                                                   *)
ThresholdsApplyAtNextDecision ==
  [][ Act /\ http = "idle" /\ changed_s < task.now_s /\ s_state.have_temp /\ s_state.failures = 0
      => /\ s_state.temp_x10 > settings.start_x10 => s_state'.hot
         /\ s_state.temp_x10 >= settings.critical_x10 => s_state'.overheat ]_vars

=============================================================================
