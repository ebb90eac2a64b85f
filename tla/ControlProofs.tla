---------------------------- MODULE ControlProofs ----------------------------
(***************************************************************************)
(* Proofs about Control for every value of its constants: how late the     *)
(* heartbeat, the end of an override, the repair of the relay and changed  *)
(* thresholds may be, and that the tasks make the calls PumpLogic allows.  *)
(***************************************************************************)
EXTENDS Control, ControlLogicProofs

(* The times of the invariant are numbers.                                 *)
LEMMA Numbers ==
  ASSUME IInv
  PROVE  /\ now \in Int /\ fed_s \in Int /\ changed_s \in Int /\ glitch_s \in Int
         /\ fed_s <= now /\ changed_s <= now /\ glitch_s <= now
         /\ s_heartbeat_s \in Int
         /\ task.now_s \in Int /\ task.next_read_s \in Int
         /\ WDT_S \in Int /\ WDT_S > 0
         /\ CONTROL_READ_PERIOD_S \in Int /\ CONTROL_READ_PERIOD_S > 0
         /\ s_state \in CtlState /\ seen \in CtlState
         /\ settings \in Configs /\ settings \in Config
         /\ latest \in Latest
<1>1. /\ now \in 0..MaxTime
      /\ {fed_s, changed_s, glitch_s} \subseteq 0..now
      /\ s_heartbeat_s \in Int
      /\ task \in Task
      /\ settings \in Configs
      /\ s_state \in CtlState /\ seen \in CtlState
      /\ latest \in Latest
  BY DEF IInv, TypeOK
<1>2. task.now_s \in Int /\ task.next_read_s \in Int
  BY <1>1 DEF Task
<1>3. fed_s \in 0..now /\ changed_s \in 0..now /\ glitch_s \in 0..now
  BY <1>1, Zenon
<1>4. settings \in Config
  BY <1>1, ControlConstants DEF ControlConstants
<1> QED BY <1>1, <1>2, <1>3, <1>4, ControlConstants DEF ControlConstants

(***************************************************************************)
(* The initial state, which is also the state after a reset.               *)
(***************************************************************************)

LEMMA FreshState == ctl_init(0) \in CtlState
  BY LogicConstants DEF LogicConstants, ctl_init, CtlState, Reasons, Manuals

LEMMA InitHolds == Init => IInv
<1> SUFFICES ASSUME Init PROVE IInv
  OBVIOUS
<1>1. TypeOK
  <2>1. task \in Task
    BY DEF Init, FirstTick, Task
  <2>2. latest \in Latest
    BY DEF Init, NoneUsed, Latest
  <2>3. {fed_s, changed_s, glitch_s} \subseteq 0..now
    BY DEF Init
  <2>4. /\ now \in 0..MaxTime
        /\ settings \in Configs
        /\ s_heartbeat_s \in Int
        /\ http \in {"idle", "saving"}
    BY ControlConstants DEF Init, ControlConstants
  <2>5. s_state \in CtlState /\ seen \in CtlState
    BY FreshState DEF Init
  <2>6. relay \in BOOLEAN /\ notified \in BOOLEAN
    BY DEF Init
  <2> QED BY <2>1, <2>2, <2>3, <2>4, <2>5, <2>6, Zenon DEF TypeOK
<1>2. TimesInOrder
  BY ControlConstants DEF ControlConstants, Init, FirstTick, TimesInOrder
<1>3. SeenThenRead
  BY DEF Init, FirstTick, SeenThenRead, LockFree
<1>4. OverrideNotDue /\ RelayDue /\ ReadComes
  BY DEF Init, OverrideNotDue, RelayDue, ReadComes, FlagsStale, ctl_init
<1>5. FailuresTell(s_state) /\ FailuresTell(seen)
  BY LogicConstants DEF Init, FailuresTell, ctl_init
<1> QED BY <1>1, <1>2, <1>3, <1>4, <1>5 DEF IInv

LEMMA ResetPreserves == IInv /\ Reset => IInv'
<1>1. Reset => Init'
  BY DEF Reset, Init
<1>2. Init' => IInv'
  BY InitHolds, PTL
<1> QED BY <1>1, <1>2

(***************************************************************************)
(* The control task.                                                       *)
(***************************************************************************)

(* Steps that only move the task: the state, what was seen of it, the      *)
(* relay and the times other than the task's stay.                         *)
LEMMA WakePreserves == IInv /\ Wake => IInv'
<1> SUFFICES ASSUME IInv, Wake PROVE IInv'
  OBVIOUS
<1>1. task \in Task /\ task.pc = "wait" /\ task.reading = NoReading
  BY DEF IInv, TypeOK, Wake, SeenThenRead
<1>2. \/ /\ now >= task.next_read_s
         /\ task' = [task EXCEPT !.pc = "convert",
                                 !.next_read_s = now + CONTROL_READ_PERIOD_S]
      \/ /\ now < task.next_read_s
         /\ task' = [task EXCEPT !.pc = "take", !.now_s = now]
  BY Numbers DEF Wake
<1>3. /\ task' \in Task
      /\ task'.reading = NoReading
      /\ \/ /\ task'.pc = "convert"
            /\ task'.next_read_s = now + CONTROL_READ_PERIOD_S
         \/ /\ task'.pc = "take" /\ task'.now_s = now
            /\ task'.next_read_s = task.next_read_s /\ now < task.next_read_s
  <2>1. now \in Int /\ now + CONTROL_READ_PERIOD_S \in Int
    BY Numbers
  <2>2. CASE /\ now >= task.next_read_s
             /\ task' = [task EXCEPT !.pc = "convert",
                                     !.next_read_s = now + CONTROL_READ_PERIOD_S]
    BY <1>1, <2>1, <2>2 DEF Task
  <2>3. CASE /\ now < task.next_read_s
             /\ task' = [task EXCEPT !.pc = "take", !.now_s = now]
    BY <1>1, <2>1, <2>3 DEF Task
  <2> QED BY <1>2, <2>2, <2>3
<1>4. TypeOK'
  <2>1. notified' \in BOOLEAN
    BY DEF Wake
  <2> QED BY <1>3, <2>1 DEF IInv, TypeOK, Wake
<1>5. TimesInOrder'
  BY <1>3, Numbers DEF IInv, TimesInOrder, Wake
<1>6. SeenThenRead'
  BY <1>1, <1>3 DEF IInv, SeenThenRead, LockFree, Wake
<1>7. OverrideNotDue' /\ RelayDue'
  BY <1>3 DEF IInv, OverrideNotDue, RelayDue, Wake
<1>8. ReadComes'
  <2>1. ReadComes
    BY DEF IInv
  <2>2. ~ReadUnderWay
    BY <1>1 DEF ReadUnderWay
  <2>3. ReadUnderWay' \/ (task'.next_read_s = task.next_read_s /\ now < task.next_read_s)
    BY <1>3 DEF ReadUnderWay
  <2>4. FlagsStale(seen)' = FlagsStale(seen) /\ FlagsStale(s_state)' = FlagsStale(s_state)
    BY DEF FlagsStale, Agrees, Wake
  <2>5. changed_s' = changed_s /\ fed_s' = fed_s
    BY DEF Wake
  <2> QED BY <1>3, <2>1, <2>2, <2>3, <2>4, <2>5, Numbers DEF ReadComes
<1>9. FailuresTell(s_state)' /\ FailuresTell(seen)'
  BY DEF IInv, FailuresTell, Wake
<1> QED BY <1>4, <1>5, <1>6, <1>7, <1>8, <1>9 DEF IInv

LEMMA ConvertPreserves ==
  ASSUME IInv, NEW reading \in Readings, Convert(reading)
  PROVE  IInv'
<1>1. task \in Task /\ task.pc = "convert"
  BY DEF IInv, TypeOK, Convert
<1>2. reading # NoReading
  BY ControlConstants DEF ControlConstants
<1>3. /\ task' \in Task
      /\ task'.pc = "take" /\ task'.now_s = now
      /\ task'.next_read_s = task.next_read_s
      /\ task'.reading = reading
  <2>1. task' = [task EXCEPT !.pc = "take", !.now_s = now, !.reading = reading]
    BY DEF Convert
  <2>2. reading \in Readings \cup {NoReading}
    OBVIOUS
  <2> QED BY <1>1, <2>1, <2>2, Numbers DEF Task
<1>4. TypeOK'
  BY <1>3 DEF IInv, TypeOK, Convert
<1>5. TimesInOrder'
  BY <1>3, Numbers DEF IInv, TimesInOrder, Convert
<1>6. SeenThenRead'
  BY <1>1, <1>3 DEF IInv, SeenThenRead, LockFree, Convert
<1>7. OverrideNotDue' /\ RelayDue'
  BY <1>3 DEF IInv, OverrideNotDue, RelayDue, Convert
<1>8. ReadComes'
  <2>1. ReadUnderWay'
    BY <1>2, <1>3 DEF ReadUnderWay
  <2>2. FlagsStale(seen)' = FlagsStale(seen)
    BY DEF FlagsStale, Agrees, Convert
  <2>3. changed_s' = changed_s /\ fed_s' = fed_s
    BY DEF Convert
  <2> QED BY <2>1, <2>2, <2>3 DEF IInv, ReadComes
<1>9. FailuresTell(s_state)' /\ FailuresTell(seen)'
  BY DEF IInv, FailuresTell, Convert
<1> QED BY <1>4, <1>5, <1>6, <1>7, <1>8, <1>9 DEF IInv

(* Flags are fresh after a read: a good one sets them by the thresholds in *)
(* RAM, a bad one tells nothing.                                           *)
LEMMA ReadRefreshes ==
  ASSUME IInv, NEW t \in Int, NEW reading \in Readings,
         NEW s, s = ctl_sensor(s_state, settings, t, reading)
  PROVE  s \in CtlState /\ ~FlagsStale(s) /\ FailuresTell(s) /\ s.on = s_state.on
<1>1. reading \in Reading /\ s_state \in CtlState /\ settings \in Config
  BY Numbers, ControlConstants DEF ControlConstants
<1>2. s \in CtlState
  BY <1>1, SensorType
<1>3. s.on = s_state.on
  BY <1>1, SensorFrame
<1>4. CASE ~reading.valid
  <2>1. s.failures # 0
    BY <1>1, <1>4, BadReadShape
  <2>2. FailuresTell(s)
    BY <1>1, <1>4, BadReadShape DEF IInv, FailuresTell
  <2> QED BY <1>2, <1>3, <2>1, <2>2 DEF FlagsStale
<1>5. CASE reading.valid
  <2>1. /\ s.temp_x10 = reading.temp_x10
        /\ s.overheat = OverheatAfter(s_state, settings, reading.temp_x10)
        /\ s.hot = HotAfter(s_state, settings, reading.temp_x10)
    BY <1>1, <1>5, GoodReadShape
  <2>2. /\ reading.temp_x10 \in Int
        /\ settings.start_x10 \in Int /\ settings.stop_x10 \in Int
        /\ settings.critical_x10 \in Int
    BY <1>1 DEF Reading, Config
  <2>3. settings.stop_x10 < settings.start_x10
    BY Numbers, ConfigsAreSane DEF ConfigsAreSane
  <2>4. s.temp_x10 >= settings.critical_x10 => s.overheat
    BY <2>1, <2>2, OverheatBounds
  <2>5. /\ s.temp_x10 > settings.start_x10 => s.hot
        /\ s.temp_x10 < settings.stop_x10 => ~s.hot
    BY <2>1, <2>2, <2>3 DEF HotAfter
  <2>6. FailuresTell(s)
    BY <1>1, <1>5, GoodReadShape, LogicConstants DEF FailuresTell
  <2> QED BY <1>2, <1>3, <2>4, <2>5, <2>6 DEF FlagsStale, Agrees
<1> QED BY <1>4, <1>5

LEMMA SensePreserves == IInv /\ Sense => IInv'
<1> SUFFICES ASSUME IInv, Sense PROVE IInv'
  OBVIOUS
<1>1. task \in Task /\ task.pc = "take" /\ task.reading \in Readings
  BY DEF IInv, TypeOK, Sense, Task
<1>2. /\ task' \in Task
      /\ task'.pc = "decide" /\ task'.now_s = task.now_s
      /\ task'.next_read_s = task.next_read_s
      /\ task'.reading = task.reading
      /\ task'.critical_x10 = settings.critical_x10
  <2>1. task' = [task EXCEPT !.pc = "decide", !.critical_x10 = settings.critical_x10]
    BY DEF Sense
  <2>2. settings.critical_x10 \in Int
    BY Numbers DEF Config
  <2> QED BY <1>1, <2>1, <2>2 DEF Task
<1>3. /\ s_state' \in CtlState /\ s_state'.on = s_state.on
      /\ ~FlagsStale(s_state') /\ FailuresTell(s_state')
  BY <1>1, Numbers, ReadRefreshes DEF Sense
<1>4. s_state = seen
  BY <1>1 DEF IInv, SeenThenRead, LockFree
<1>5. TypeOK'
  BY <1>2, <1>3 DEF IInv, TypeOK, Sense
<1>6. TimesInOrder'
  BY <1>1, <1>2 DEF IInv, TimesInOrder, Sense
<1>7. SeenThenRead'
  <2>1. s_state' = ctl_sensor(seen, settings, task.now_s, task.reading) /\ seen' = seen
    BY <1>4 DEF Sense
  <2> QED BY <1>1, <1>2, <2>1, Numbers DEF SeenThenRead, LockFree
<1>8. OverrideNotDue' /\ RelayDue'
  BY <1>1, <1>2, <1>3 DEF IInv, OverrideNotDue, RelayDue, Sense
<1>9. ReadComes'
  <2>1. FlagsStale(seen)' = FlagsStale(seen) /\ ~FlagsStale(s_state)'
    BY <1>3 DEF FlagsStale, Agrees, Sense
  <2>2. changed_s' = changed_s /\ fed_s' = fed_s
    BY DEF Sense
  <2> QED BY <2>1, <2>2 DEF IInv, ReadComes
<1>10. FailuresTell(s_state)' /\ FailuresTell(seen)'
  BY <1>3 DEF IInv, FailuresTell, Sense
<1> QED BY <1>5, <1>6, <1>7, <1>8, <1>9, <1>10 DEF IInv

(* A decision keeps the sensor's fields and ends an override that is due.  *)
LEMMA Decides ==
  ASSUME NEW s \in CtlState, NEW cfg \in Config, NEW t \in Int, NEW d, d = ctl_decide(s, cfg, t)
  PROVE  /\ d \in CtlState
         /\ d.have_temp = s.have_temp /\ d.temp_x10 = s.temp_x10
         /\ d.failures = s.failures /\ d.sensor_failed = s.sensor_failed
         /\ d.hot = s.hot /\ d.overheat = s.overheat
         /\ d.manual # "none" => t < d.manual_until_s
<1>1. /\ d.have_temp = s.have_temp /\ d.temp_x10 = s.temp_x10
      /\ d.failures = s.failures /\ d.sensor_failed = s.sensor_failed
      /\ d.hot = s.hot /\ d.overheat = s.overheat
      /\ d.manual = ManualAfter(s, t)
      /\ d.manual_until_s = s.manual_until_s
  BY DecideShape
<1>2. d \in CtlState
  BY DecideType
<1>3. s.manual_until_s \in Int
  BY DEF CtlState
<1> QED BY <1>1, <1>2, <1>3 DEF ManualAfter, ManualExpired

(* The locals of a tick that ends are dead.                                *)
LEMMA TickEnds ==
  ASSUME NEW k \in Task, NEW l,
         l = [k EXCEPT !.pc = "feed", !.now_s = 0, !.reading = NoReading, !.critical_x10 = 0]
  PROVE  l \in Task /\ l.pc = "feed" /\ l.reading = NoReading /\ l.next_read_s = k.next_read_s
<1>1. l = [pc |-> "feed", now_s |-> 0, next_read_s |-> k.next_read_s, reading |-> NoReading,
           critical_x10 |-> 0]
  BY DEF Task
<1>2. k.next_read_s \in Int
  BY DEF Task
<1> QED BY <1>1, <1>2 DEF Task

LEMMA ActPreserves == IInv /\ Act => IInv'
<1> SUFFICES ASSUME IInv, Act PROVE IInv'
  OBVIOUS
<1>1. /\ task \in Task
      /\ task.pc = "decide" \/ (task.pc = "take" /\ task.reading = NoReading)
      /\ fed_s <= task.now_s /\ task.now_s <= now
  BY DEF IInv, TypeOK, TimesInOrder, Act, Decision
<1>2. /\ task' \in Task
      /\ task'.pc = "feed" /\ task'.reading = NoReading
      /\ task'.next_read_s = task.next_read_s
  <2>1. task' = [task EXCEPT !.pc = "feed", !.now_s = 0, !.reading = NoReading,
                             !.critical_x10 = 0]
    BY DEF Act, Decision
  <2> QED BY <1>1, <2>1, TickEnds, Zenon
<1>3. /\ s_state' \in CtlState
      /\ s_state'.have_temp = s_state.have_temp /\ s_state'.temp_x10 = s_state.temp_x10
      /\ s_state'.failures = s_state.failures
      /\ s_state'.sensor_failed = s_state.sensor_failed
      /\ s_state'.hot = s_state.hot /\ s_state'.overheat = s_state.overheat
      /\ s_state'.manual # "none" => task.now_s < s_state'.manual_until_s
  <2>1. s_state' = ctl_decide(s_state, settings, task.now_s)
    BY DEF Act, Decision
  <2>2. s_state \in CtlState /\ settings \in Config /\ task.now_s \in Int
    BY Numbers
  <2>3. ASSUME NEW d, d = ctl_decide(s_state, settings, task.now_s)
        PROVE  /\ d \in CtlState
               /\ d.have_temp = s_state.have_temp /\ d.temp_x10 = s_state.temp_x10
               /\ d.failures = s_state.failures
               /\ d.sensor_failed = s_state.sensor_failed
               /\ d.hot = s_state.hot /\ d.overheat = s_state.overheat
               /\ d.manual # "none" => task.now_s < d.manual_until_s
    BY <2>2, <2>3, Decides, SMT
  <2> QED BY <2>1, <2>3, Zenon
<1>4. /\ seen' = s_state' /\ relay' = s_state'.on /\ glitch_s' = 0
      /\ s_heartbeat_s' = task.now_s
      /\ UNCHANGED <<now, settings, notified, http, fed_s, changed_s>>
  BY DEF Act, Decision
<1>5. latest' \in Latest
  <2>1. /\ latest.critical_x10 \in Int /\ task.critical_x10 \in Int
        /\ settings.stop_x10 \in Int /\ task.now_s \in Int
    BY <1>1, Numbers DEF Latest, Task, Config
  <2> QED BY <2>1 DEF Act, Decision, Latest
<1>6. TypeOK'
  <2>1. {fed_s, changed_s, glitch_s}' \subseteq 0..now'
    BY <1>4 DEF IInv, TypeOK
  <2>2. relay' \in BOOLEAN
    BY <1>3, <1>4 DEF CtlState
  <2> QED BY <1>2, <1>3, <1>4, <1>5, <2>1, <2>2, Numbers DEF IInv, TypeOK
<1>7. TimesInOrder'
  BY <1>1, <1>2, <1>4, Numbers DEF IInv, TimesInOrder
<1>8. SeenThenRead'
  BY <1>2, <1>4 DEF SeenThenRead, LockFree
<1>9. OverrideNotDue' /\ RelayDue'
  BY <1>3, <1>4 DEF OverrideNotDue, RelayDue
<1>10. ReadComes'
  <2>1. FlagsStale(seen)' = FlagsStale(s_state) /\ FlagsStale(s_state)' = FlagsStale(s_state)
    BY <1>3, <1>4 DEF FlagsStale, Agrees
  <2>2. ~ReadUnderWay /\ ~ReadUnderWay' /\ task.pc # "wait"
    BY <1>1, <1>2 DEF ReadUnderWay
  <2>3. FlagsStale(s_state) => /\ task.next_read_s <= changed_s + CONTROL_READ_PERIOD_S
                               /\ fed_s < changed_s + CONTROL_READ_PERIOD_S
    BY <2>2 DEF IInv, ReadComes
  <2> QED BY <1>2, <1>4, <2>1, <2>2, <2>3, Numbers DEF ReadComes
<1>11. FailuresTell(s_state)' /\ FailuresTell(seen)'
  BY <1>3, <1>4 DEF IInv, FailuresTell
<1> QED BY <1>6, <1>7, <1>8, <1>9, <1>10, <1>11 DEF IInv

LEMMA FeedPreserves == IInv /\ Feed => IInv'
<1> SUFFICES ASSUME IInv, Feed PROVE IInv'
  OBVIOUS
<1>1. task \in Task /\ task.pc = "feed" /\ task.reading = NoReading
  BY DEF IInv, TypeOK, Feed, SeenThenRead
<1>2. /\ task' \in Task
      /\ task'.pc = "wait" /\ task'.reading = task.reading
      /\ task'.next_read_s = task.next_read_s
  BY <1>1 DEF Feed, Task
<1>3. /\ fed_s' = now
      /\ UNCHANGED <<now, settings, s_state, s_heartbeat_s, relay, notified, http,
                     seen, latest, changed_s, glitch_s>>
  BY DEF Feed
<1>4. TypeOK'
  <2>1. {fed_s, changed_s, glitch_s}' \subseteq 0..now'
    BY <1>3 DEF IInv, TypeOK
  <2> QED BY <1>2, <1>3, <2>1 DEF IInv, TypeOK
<1>5. TimesInOrder'
  BY <1>1, <1>2, <1>3, Numbers DEF IInv, TimesInOrder
<1>6. SeenThenRead'
  BY <1>1, <1>2, <1>3 DEF IInv, SeenThenRead, LockFree
<1>7. OverrideNotDue' /\ RelayDue'
  BY <1>1, <1>2, <1>3, Numbers DEF IInv, OverrideNotDue, RelayDue, TimesInOrder
<1>8. ReadComes'
  <2>1. FlagsStale(seen)' = FlagsStale(seen) /\ FlagsStale(s_state)' = FlagsStale(s_state)
    BY <1>3 DEF FlagsStale, Agrees
  <2>2. s_state = seen /\ ~ReadUnderWay /\ now <= fed_s + WDT_S
    BY <1>1 DEF IInv, SeenThenRead, LockFree, ReadUnderWay, TimesInOrder
  <2> QED BY <1>1, <1>2, <1>3, <2>1, <2>2, Numbers DEF IInv, ReadComes
<1>9. FailuresTell(s_state)' /\ FailuresTell(seen)'
  BY <1>3 DEF IInv, FailuresTell
<1> QED BY <1>4, <1>5, <1>6, <1>7, <1>8, <1>9 DEF IInv

(***************************************************************************)
(* The HTTP server and the environment.                                    *)
(***************************************************************************)

(* A clamped duration is at least the positive minimum.                    *)
LEMMA Clamped ==
  ASSUME NEW d \in Nat
  PROVE  ClampDuration(d) \in MANUAL_MIN_S..MANUAL_MAX_S /\ ClampDuration(d) > 0
  BY ControlConstants DEF ControlConstants, ClampDuration

LEMMA CommandPreserves ==
  ASSUME IInv, NEW manual \in Commands, NEW duration_s \in Durations,
         Command(manual, duration_s)
  PROVE  IInv'
<1> DEFINE d == ClampDuration(duration_s)
           p == ctl_manual(s_state, manual, d, now)
<1>1. /\ d \in Int /\ manual \in Manuals
  BY Clamped, ControlConstants DEF ControlConstants
<1>2. /\ p \in CtlState
      /\ p.have_temp = s_state.have_temp /\ p.temp_x10 = s_state.temp_x10
      /\ p.failures = s_state.failures /\ p.sensor_failed = s_state.sensor_failed
      /\ p.hot = s_state.hot /\ p.overheat = s_state.overheat
  <2> HIDE DEF d
  <2> QED BY <1>1, Numbers, ManualType, ManualFrame
<1>3. s_state' = ctl_decide(p, settings, now)
  BY DEF Command
<1>4. /\ s_state' \in CtlState
      /\ s_state'.have_temp = s_state.have_temp /\ s_state'.temp_x10 = s_state.temp_x10
      /\ s_state'.failures = s_state.failures
      /\ s_state'.sensor_failed = s_state.sensor_failed
      /\ s_state'.hot = s_state.hot /\ s_state'.overheat = s_state.overheat
      /\ s_state'.manual # "none" => now < s_state'.manual_until_s
  <2>1. settings \in Config /\ now \in Int
    BY Numbers
  <2>2. /\ s_state' \in CtlState
        /\ s_state'.have_temp = p.have_temp /\ s_state'.temp_x10 = p.temp_x10
        /\ s_state'.failures = p.failures /\ s_state'.sensor_failed = p.sensor_failed
        /\ s_state'.hot = p.hot /\ s_state'.overheat = p.overheat
        /\ s_state'.manual # "none" => now < s_state'.manual_until_s
    <3> HIDE DEF p
    <3> QED BY <1>2, <1>3, <2>1, Decides, Zenon
  <2> HIDE DEF p
  <2> QED BY <1>2, <2>2
<1>5. /\ seen' = s_state' /\ LockFree
      /\ relay' = (IF s_state'.on # s_state.on THEN s_state'.on ELSE relay)
      /\ glitch_s' = (IF relay' = s_state'.on THEN 0 ELSE glitch_s)
      /\ notified' = TRUE
      /\ UNCHANGED <<now, settings, s_heartbeat_s, task, http, fed_s, changed_s>>
  BY DEF Command
<1> HIDE DEF d, p
<1>6. latest' \in Latest
  <2>1. settings.stop_x10 \in Int
    BY Numbers DEF Config
  <2> QED BY <2>1, Numbers DEF Command, Latest
<1>7. TypeOK'
  <2>1. relay' \in BOOLEAN /\ notified' \in BOOLEAN
    <3>1. relay \in BOOLEAN /\ s_state'.on \in BOOLEAN
      BY <1>4 DEF IInv, TypeOK, CtlState
    <3> QED BY <1>5, <3>1
  <2>2. {fed_s, changed_s, glitch_s}' \subseteq 0..now'
    BY <1>5, Numbers DEF IInv, TypeOK
  <2> QED BY <1>4, <1>5, <1>6, <2>1, <2>2 DEF IInv, TypeOK
<1>8. TimesInOrder'
  BY <1>5 DEF IInv, TimesInOrder
<1>9. SeenThenRead'
  BY <1>5 DEF IInv, SeenThenRead, LockFree
<1>10. OverrideNotDue'
  BY <1>4, <1>5, Numbers DEF IInv, TimesInOrder, OverrideNotDue, CtlState
<1>11. RelayDue'
  <2>1. ASSUME relay' # s_state'.on
        PROVE  relay # s_state.on /\ glitch_s' = glitch_s
    BY <1>5, <2>1
  <2> QED BY <1>5, <2>1 DEF IInv, RelayDue
<1>12. ReadComes'
  <2>1. FlagsStale(seen)' = FlagsStale(s_state) /\ FlagsStale(s_state)' = FlagsStale(s_state)
    BY <1>4, <1>5 DEF FlagsStale, Agrees
  <2>2. s_state = seen
    BY <1>5 DEF IInv, SeenThenRead
  <2>3. ReadUnderWay' = ReadUnderWay
    BY <1>5 DEF ReadUnderWay
  <2> QED BY <1>5, <2>1, <2>2, <2>3 DEF IInv, ReadComes
<1>13. FailuresTell(s_state)' /\ FailuresTell(seen)'
  BY <1>4, <1>5 DEF IInv, FailuresTell
<1> QED BY <1>7, <1>8, <1>9, <1>10, <1>11, <1>12, <1>13 DEF IInv

(* When the thresholds change, the next read is at most a period away.     *)
LEMMA ChangePreserves ==
  ASSUME IInv, NEW cfg \in NewSettings, ChangeSettings(cfg)
  PROVE  IInv'
<1>1. cfg \in Configs
  BY ControlConstants DEF ControlConstants
<1>2. /\ http' = "saving" /\ settings' = cfg /\ changed_s' = now
      /\ UNCHANGED <<now, s_state, s_heartbeat_s, relay, task, notified, fed_s,
                     seen, latest, glitch_s>>
  BY DEF ChangeSettings
<1>3. TypeOK'
  <2>1. {fed_s, changed_s, glitch_s}' \subseteq 0..now'
    BY <1>2 DEF IInv, TypeOK
  <2> QED BY <1>1, <1>2, <2>1 DEF IInv, TypeOK
<1>4. TimesInOrder' /\ SeenThenRead' /\ OverrideNotDue' /\ RelayDue'
  BY <1>2 DEF IInv, TimesInOrder, SeenThenRead, LockFree, OverrideNotDue, RelayDue
<1>5. ReadComes'
  <2>1. task.next_read_s <= now + CONTROL_READ_PERIOD_S
    BY DEF IInv, TimesInOrder
  <2> QED BY <1>2, <2>1, Numbers DEF ReadComes
<1>6. FailuresTell(s_state)' /\ FailuresTell(seen)'
  BY <1>2 DEF IInv, FailuresTell
<1> QED BY <1>3, <1>4, <1>5, <1>6 DEF IInv

(* A glitch or the end of a save leaves the task alone.                    *)
LEMMA OthersPreserve == IInv /\ (SettingsChanged \/ Glitch) => IInv'
<1> SUFFICES ASSUME IInv, SettingsChanged \/ Glitch PROVE IInv'
  OBVIOUS
<1>1. UNCHANGED <<now, settings, s_state, s_heartbeat_s, task, fed_s, seen, latest, changed_s>>
  BY DEF SettingsChanged, Glitch
<1>2. TypeOK'
  <2>1. {fed_s, changed_s, glitch_s}' \subseteq 0..now'
    BY DEF IInv, TypeOK, SettingsChanged, Glitch
  <2>2. relay' \in BOOLEAN
    BY DEF IInv, TypeOK, SettingsChanged, Glitch
  <2>3. notified' \in BOOLEAN
    BY DEF IInv, TypeOK, SettingsChanged, Glitch
  <2>4. http' \in {"idle", "saving"}
    BY DEF IInv, TypeOK, SettingsChanged, Glitch
  <2> QED BY <1>1, <2>1, <2>2, <2>3, <2>4 DEF IInv, TypeOK
<1>3. TimesInOrder' /\ SeenThenRead' /\ OverrideNotDue'
  BY <1>1 DEF IInv, TimesInOrder, SeenThenRead, LockFree, OverrideNotDue
<1>4. RelayDue'
  <2>1. CASE SettingsChanged
    BY <1>1, <2>1 DEF SettingsChanged, IInv, RelayDue
  <2>2. CASE Glitch
    BY <1>1, <2>2, Numbers DEF Glitch, RelayDue
  <2> QED BY <2>1, <2>2
<1>5. ReadComes'
  BY <1>1 DEF IInv, ReadComes, FlagsStale, Agrees, ReadUnderWay
<1>6. FailuresTell(s_state)' /\ FailuresTell(seen)'
  BY <1>1 DEF IInv, FailuresTell
<1> QED BY <1>2, <1>3, <1>4, <1>5, <1>6 DEF IInv

LEMMA ClockPreserves == IInv /\ Clock => IInv'
<1> SUFFICES ASSUME IInv, Clock PROVE IInv'
  OBVIOUS
<1>1. /\ now < MaxTime /\ now < fed_s + WDT_S /\ now' = now + 1
      /\ UNCHANGED <<settings, s_state, s_heartbeat_s, relay, task, notified, http, fed_s,
                     seen, latest, changed_s, glitch_s>>
  BY DEF Clock
<1>2. TypeOK'
  <2>1. now' \in 0..MaxTime /\ now \in 0..now'
    BY <1>1, ControlConstants DEF ControlConstants, IInv, TypeOK
  <2>2. {fed_s, changed_s, glitch_s} \subseteq 0..now
    BY DEF IInv, TypeOK
  <2>3. {fed_s, changed_s, glitch_s}' \subseteq 0..now'
    BY <1>1, <2>1, <2>2, Numbers
  <2> QED BY <1>1, <2>1, <2>3 DEF IInv, TypeOK
<1>3. TimesInOrder'
  BY <1>1, Numbers DEF IInv, TimesInOrder
<1>4. SeenThenRead' /\ OverrideNotDue' /\ RelayDue'
  BY <1>1 DEF IInv, SeenThenRead, LockFree, OverrideNotDue, RelayDue
<1>5. ReadComes'
  BY <1>1 DEF IInv, ReadComes, FlagsStale, Agrees, ReadUnderWay
<1>6. FailuresTell(s_state)' /\ FailuresTell(seen)'
  BY <1>1 DEF IInv, FailuresTell
<1> QED BY <1>2, <1>3, <1>4, <1>5, <1>6 DEF IInv

LEMMA NextPreserves == IInv /\ [Next]_vars => IInv'
<1> SUFFICES ASSUME IInv, [Next]_vars PROVE IInv'
  OBVIOUS
<1>1. CASE ControlTask
  BY <1>1, WakePreserves, ConvertPreserves, SensePreserves, ActPreserves, FeedPreserves
  DEF ControlTask
<1>2. CASE Http
  BY <1>2, CommandPreserves, ChangePreserves, OthersPreserve DEF Http
<1>3. CASE Clock \/ Reset \/ Glitch
  BY <1>3, ClockPreserves, ResetPreserves, OthersPreserve
<1>4. CASE UNCHANGED vars
  BY <1>4 DEF vars, IInv, TypeOK, TimesInOrder, SeenThenRead, LockFree, OverrideNotDue,
              FailuresTell, RelayDue, ReadComes, FlagsStale, Agrees, ReadUnderWay
<1> QED BY <1>1, <1>2, <1>3, <1>4 DEF Next

(* The invariant of the tasks holds in every reachable state, for any      *)
(* thresholds, readings, commands, read period and watchdog timeout.       *)
THEOREM Invariant == Spec => []IInv
  BY InitHolds, NextPreserves, PTL DEF Spec

(***************************************************************************)
(* The bounds.                                                             *)
(***************************************************************************)

(* The stamp the health check looks at is at most two timeouts old.        *)
THEOREM Heartbeat == Spec => []HeartbeatFresh
<1>1. IInv => HeartbeatFresh
  BY Numbers DEF IInv, TimesInOrder, HeartbeatFresh
<1> QED BY <1>1, Invariant, PTL

(* No override outlives its deadline by two timeouts.                      *)
THEOREM OverrideEnds == Spec => []OverrideEndsInTime
<1>1. IInv => OverrideEndsInTime
  <2> SUFFICES ASSUME IInv, seen.manual # "none" PROVE now < seen.manual_until_s + 2 * WDT_S
    BY DEF OverrideEndsInTime
  <2>1. seen.manual_until_s \in Int
    BY Numbers DEF CtlState
  <2> QED BY <2>1, Numbers DEF IInv, TimesInOrder, OverrideNotDue
<1> QED BY <1>1, Invariant, PTL

(* A relay that lost its level is repaired within two timeouts.            *)
THEOREM RelayRepaired == Spec => []RelayRestored
<1>1. IInv => RelayRestored
  BY Numbers DEF IInv, TimesInOrder, RelayDue, RelayRestored
<1> QED BY <1>1, Invariant, PTL

(* Changed thresholds rule the flags a read period and two timeouts later. *)
THEOREM NewThresholdsRule == Spec => []ThresholdsInForce
<1>1. IInv => ThresholdsInForce
  BY Numbers DEF IInv, TimesInOrder, ReadComes, FlagsStale, ThresholdsInForce
<1> QED BY <1>1, Invariant, PTL

(***************************************************************************)
(* The refinement of PumpLogic.                                            *)
(***************************************************************************)

(* Logic has its own copy of the operators of control_logic.c.             *)
LEMMA SameInit == \A t : Logic!ctl_init(t) = ctl_init(t)
  BY DEF ctl_init, Logic!ctl_init

LEMMA SameSensor ==
  ASSUME NEW s, NEW cfg, NEW t, NEW r
  PROVE  Logic!ctl_sensor(s, cfg, t, r) = ctl_sensor(s, cfg, t, r)
  BY Zenon DEF ctl_sensor, GoodRead, BadRead, OverheatAfter, HotAfter,
         Logic!ctl_sensor, Logic!GoodRead, Logic!BadRead, Logic!OverheatAfter, Logic!HotAfter

LEMMA SameManual ==
  ASSUME NEW s, NEW m, NEW d, NEW t
  PROVE  Logic!ctl_manual(s, m, d, t) = ctl_manual(s, m, d, t)
  BY Zenon DEF ctl_manual, Logic!ctl_manual

LEMMA SameDecide ==
  ASSUME NEW s, NEW cfg, NEW t
  PROVE  Logic!ctl_decide(s, cfg, t) = ctl_decide(s, cfg, t)
<1>1. \A x : Logic!Verdict(x) = Verdict(x)
  BY Zenon DEF Verdict, Logic!Verdict
<1>2. \A x, v : Logic!Switch(x, v, t) = Switch(x, v, t)
  BY Zenon DEF Switch, Logic!Switch
<1>3. Logic!Refresh(s, cfg, t) = Refresh(s, cfg, t)
  BY Zenon DEF Refresh, ManualAfter, ManualExpired, ManualCancelled, LastOn,
         MaintenanceRunning, MaintenanceDue,
         Logic!Refresh, Logic!ManualAfter, Logic!ManualExpired, Logic!ManualCancelled,
         Logic!LastOn, Logic!MaintenanceRunning, Logic!MaintenanceDue
<1> QED BY <1>1, <1>2, <1>3, Zenon DEF ctl_decide, Logic!ctl_decide

LEMMA InitRefines == Init => Logic!Init
  BY SameInit DEF Init, NoneUsed, Logic!Init

(* A sample is at most one timeout old when it is used.                    *)
LEMMA StampInTime ==
  ASSUME IInv, task.pc \in {"take", "decide"}
  PROVE  task.now_s \in Logic!Stamps
<1>1. /\ fed_s <= task.now_s /\ task.now_s <= now
      /\ now <= fed_s + WDT_S
  BY DEF IInv, TimesInOrder
<1>2. {fed_s, changed_s, glitch_s} \subseteq 0..now
  BY DEF IInv, TypeOK
<1>3. fed_s >= 0
  BY <1>2, Numbers
<1> QED BY <1>1, <1>3, Numbers DEF Logic!Stamps

(* Both ways of writing what a decision without a read notes.              *)
LEMMA LatestUpdate ==
  ASSUME NEW l \in Latest, NEW x \in Int, NEW y \in Int,
         NEW m, m = [l EXCEPT !.stop_x10 = x, !.at_s = y]
  PROVE  m = [critical_x10 |-> l.critical_x10, stop_x10 |-> x, at_s |-> y]
  BY DEF Latest

(* A tick is a call of ctl_decide, after one of ctl_sensor if it read.     *)
LEMMA ActRefines ==
  ASSUME IInv, Act
  PROVE  Logic!Next
<1>1. /\ task \in Task
      /\ now' = now
      /\ seen' = ctl_decide(s_state, settings, task.now_s)
      /\ latest' = [critical_x10 |-> IF task.reading # NoReading /\ task.reading.valid
                                     THEN task.critical_x10 ELSE latest.critical_x10,
                    stop_x10 |-> settings.stop_x10, at_s |-> task.now_s]
      /\ settings \in Configs
  BY Numbers DEF IInv, TypeOK, Act, Decision
<1>2. CASE task.pc = "decide"
  <2>1. PICK cfg \in Configs : /\ cfg.critical_x10 = task.critical_x10
                               /\ s_state = ctl_sensor(seen, cfg, task.now_s, task.reading)
    BY <1>2 DEF IInv, SeenThenRead, LockFree
  <2>2. task.reading \in Readings /\ task.reading # NoReading
    BY <1>2, ControlConstants DEF ControlConstants, IInv, SeenThenRead, LockFree
  <2>3. task.now_s \in Logic!Stamps
    BY <1>2, StampInTime
  <2>4. seen' = Logic!ctl_decide(Logic!ctl_sensor(seen, cfg, task.now_s, task.reading),
                                 settings, task.now_s)
    BY <1>1, <2>1, SameSensor, SameDecide
  <2>5. latest' = [critical_x10 |-> IF task.reading.valid THEN cfg.critical_x10
                                                         ELSE latest.critical_x10,
                  stop_x10 |-> settings.stop_x10, at_s |-> task.now_s]
    BY <1>1, <2>1, <2>2
  <2>6. Logic!Read(task.reading, cfg, settings, task.now_s)
    BY <1>1, <2>4, <2>5 DEF Logic!Read, Logic!Decided
  <2> QED BY <1>1, <2>2, <2>3, <2>6 DEF Logic!Next, Logic!ReadTick
<1>3. CASE task.pc = "take" /\ task.reading = NoReading
  <2>1. task.now_s \in Logic!Stamps
    BY <1>3, StampInTime
  <2>2. s_state = seen
    BY <1>3 DEF IInv, SeenThenRead, LockFree
  <2>3. latest' = [latest EXCEPT !.stop_x10 = settings.stop_x10, !.at_s = task.now_s]
    <3>1. latest' = [critical_x10 |-> latest.critical_x10, stop_x10 |-> settings.stop_x10,
                     at_s |-> task.now_s]
      BY <1>1, <1>3, Zenon
    <3>2. latest \in Latest /\ settings.stop_x10 \in Int /\ task.now_s \in Int
      BY Numbers DEF Config
    <3> QED BY <3>1, <3>2, LatestUpdate, Zenon
  <2>4. seen' = Logic!ctl_decide(seen, settings, task.now_s)
    <3>1. seen' = ctl_decide(seen, settings, task.now_s)
      BY <1>1, <2>2, Zenon
    <3> QED BY <3>1, SameDecide, Zenon
  <2>5. Logic!Decide(settings, task.now_s)
    BY <1>1, <2>3, <2>4 DEF Logic!Decide, Logic!Decided
  <2> QED BY <1>1, <2>1, <2>5 DEF Logic!Next, Logic!DecideTick
<1> QED BY <1>2, <1>3 DEF Act, Decision

LEMMA CommandRefines ==
  ASSUME IInv, NEW manual \in Commands, NEW duration_s \in Durations,
         Command(manual, duration_s)
  PROVE  Logic!Next
<1> DEFINE d == ClampDuration(duration_s)
<1>1. d \in MANUAL_MIN_S..MANUAL_MAX_S /\ manual \in Logic!Manuals
  BY Clamped, ControlConstants DEF ControlConstants, Manuals, Logic!Manuals
<1>2. /\ seen' = ctl_decide(ctl_manual(s_state, manual, d, now), settings, now)
      /\ latest' = [latest EXCEPT !.stop_x10 = settings.stop_x10, !.at_s = now]
      /\ now' = now
      /\ ManualAccepted(s_state, manual)
  BY DEF Command
<1>3. s_state = seen
  BY DEF IInv, SeenThenRead, Command
<1> HIDE DEF d
<1>4. seen' = Logic!ctl_decide(Logic!ctl_manual(seen, manual, d, now), settings, now)
  BY <1>2, <1>3, SameManual, SameDecide
<1>5. Logic!ManualAccepted(seen, manual)
  BY <1>2, <1>3 DEF ManualAccepted, Logic!ManualAccepted
<1>6. Logic!Manual(manual, d, settings)
  BY <1>2, <1>4, <1>5 DEF Logic!Manual, Logic!Decided
<1> QED BY <1>1, <1>6, Numbers DEF Logic!Next, Logic!Command

LEMMA StepRefines ==
  ASSUME IInv, [Next]_vars
  PROVE  [Logic!Next]_(Logic!vars)
<1>1. CASE Act
  BY <1>1, ActRefines
<1>2. CASE \E manual \in Commands, duration_s \in Durations : Command(manual, duration_s)
  BY <1>2, CommandRefines
<1>3. CASE Clock
  BY <1>3 DEF Clock, Logic!Clock, Logic!Next
<1>4. CASE Reset
  BY <1>4, SameInit DEF Reset, NoneUsed, Logic!Restart, Logic!Next
<1>5. CASE Wake \/ (\E reading \in Readings : Convert(reading)) \/ Sense \/ Feed
  BY <1>5 DEF Wake, Convert, Sense, Feed, Logic!vars
<1>6. CASE (\E cfg \in NewSettings : ChangeSettings(cfg)) \/ SettingsChanged \/ Glitch
  BY <1>6 DEF ChangeSettings, SettingsChanged, Glitch, Logic!vars
<1>7. CASE UNCHANGED vars
  BY <1>7 DEF vars, Logic!vars
<1> QED BY <1>1, <1>2, <1>3, <1>4, <1>5, <1>6, <1>7 DEF Next, ControlTask, Http

(* The tasks, with their lock, their samples taken ahead of it, thresholds *)
(* that change between a read and its decision, and resets at any step,    *)
(* make only the calls PumpLogic allows with stamps one timeout old: what  *)
(* is proved of PumpLogic holds of the state the lock releases.            *)
THEOREM Refinement == Spec => ImplementsLogic
<1>1. IInv /\ [Next]_vars => [Logic!Next]_(Logic!vars)
  BY StepRefines
<1> QED BY <1>1, InitRefines, Invariant, PTL DEF Spec, ImplementsLogic, Logic!Spec

=============================================================================
