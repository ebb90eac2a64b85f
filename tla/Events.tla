------------------------------- MODULE Events --------------------------------
(***************************************************************************)
(* How a change of the pump reaches its readers: the events that           *)
(* decide_locked publishes while it still holds s_lock (control.c), and    *)
(* the status document that the state task of the MQTT client builds when  *)
(* it is signalled, or periodically, and leaves retained at the broker     *)
(* (events.c, main.c; the client itself is an external component).         *)
(***************************************************************************)
EXTENDS ControlLogic, EventRing

CONSTANTS
  Configs,     \* the threshold triples the settings can hold
  Readings,    \* what the sensor may return
  Durations,   \* of manual overrides
  MaxTime,     \* bound on the clock
  NoDocument   \* the state task is waiting

ASSUME EventsConstants ==
  /\ Configs \subseteq Config
  /\ Readings \subseteq Reading
  /\ Durations \subseteq Nat \ {0}
  /\ MaxTime \in Nat

VARIABLES
  now,        \* the monotonic clock, in seconds since boot
  s_state,    \* the controller state, guarded by s_lock
  unsent,     \* the events decide_locked has yet to publish; it holds s_lock until then
  started,    \* the MQTT client runs
  signal,     \* the state task has been signalled
  document,   \* the document the state task has built and not sent, or NoDocument
  broker,     \* the broker can be reached
  retained,   \* the document the broker retains
  current     \* history: the last document sent arrived, and was built since the boot

control == <<now, s_state, unsent>>
feed == <<started, signal, document, broker, retained, current>>
vars == <<control, ring, feed>>

(* The fields of api_status_json that this module tells apart.             *)
Document == [on: BOOLEAN, reason: Reasons, overheat: BOOLEAN, sensor_failed: BOOLEAN]

ASSUME DocumentConstants == NoDocument \notin Document

LockFree == unsent = <<>>

api_status(s) == [on |-> s.on, reason |-> s.reason,
                  overheat |-> s.overheat, sensor_failed |-> s.sensor_failed]

-----------------------------------------------------------------------------
(* make_event: every event also carries the pump's state.                  *)
make_event(type, on, s) == <<[type |-> type, on |-> on, pump |-> s.on]>>

(* The override of prepared ended in the decision that led to after.       *)
OverrideEnded(prepared, after) == prepared.manual # "none" /\ after.manual = "none"

SlipEventsOfNoEnd(before, prepared, after) ==
  LET Changed(flag) == before[flag] # prepared[flag]
  IN  (IF Changed("sensor_failed")
         THEN make_event("sensor", after.sensor_failed, after) ELSE <<>>)
      \o (IF Changed("overheat") /\ after.overheat
            THEN make_event("overheat", TRUE, after) ELSE <<>>)
      \o (IF after.on # prepared.on THEN make_event("pump", after.on, after) ELSE <<>>)

(* The events of one call: before it, prepared by ctl_sensor or ctl_manual *)
(* and after ctl_decide.                                                   *)
EventsOf(before, prepared, after) ==
  LET Changed(flag) == before[flag] # prepared[flag]
  IN  (IF Changed("sensor_failed")
         THEN make_event("sensor", after.sensor_failed, after) ELSE <<>>)
      \o (IF Changed("overheat")
            THEN make_event("overheat", after.overheat, after) ELSE <<>>)
      \o (IF after.on # prepared.on THEN make_event("pump", after.on, after)
          ELSE IF OverrideEnded(prepared, after)
            THEN make_event("manual_end", after.on, after) ELSE <<>>)

Init ==
  /\ now = 0
  /\ s_state = ctl_init(0)
  /\ unsent = <<>>
  /\ RingInit
  /\ started = FALSE /\ signal = FALSE
  /\ document = NoDocument
  /\ broker = TRUE
  /\ retained \in {api_status(ctl_init(0)), [api_status(ctl_init(0)) EXCEPT !.on = TRUE]}
  /\ current = FALSE

(* decide_locked, up to its first event.                                   *)
Call(prepared, cfg) ==
  /\ LockFree
  /\ s_state' = ctl_decide(prepared, cfg, now)
  /\ unsent' = EventsOf(s_state, prepared, s_state')
  /\ UNCHANGED <<now, ring, feed>>

Tick == \E cfg \in Configs :
          \/ Call(s_state, cfg)
          \/ \E reading \in Readings : Call(ctl_sensor(s_state, cfg, now, reading), cfg)

Command == \E manual \in Manuals, duration_s \in Durations, cfg \in Configs :
             /\ ManualAccepted(s_state, manual)
             /\ Call(ctl_manual(s_state, manual, duration_s, now), cfg)

SlipPublishSignalsStarts ==
  /\ unsent # <<>>
  /\ Publish(Head(unsent))
  /\ signal' = (signal \/ (started /\ Head(unsent).on))
  /\ unsent' = Tail(unsent)
  /\ UNCHANGED <<now, s_state, started, document, broker, retained, current>>

(* Into the ring, then a signal, which is lost as long as the MQTT client  *)
(* has not been started.                                                   *)
events_publish ==
  /\ unsent # <<>>
  /\ Publish(Head(unsent))
  /\ signal' = (signal \/ started)
  /\ unsent' = Tail(unsent)
  /\ UNCHANGED <<now, s_state, started, document, broker, retained, current>>

Clock ==
  /\ now < MaxTime
  /\ now' = now + 1
  /\ UNCHANGED <<s_state, unsent, ring, feed>>

-----------------------------------------------------------------------------
(* hi_mqtt_start, the last step of the boot but one.                       *)
Start ==
  /\ ~started
  /\ started' = TRUE
  /\ UNCHANGED <<control, ring, signal, document, broker, retained, current>>

SlipNoPeriod == FALSE

(* The client is given a positive state_period_s, so a period passes       *)
(* sooner or later.                                                        *)
PeriodPasses == TRUE

(* The state task takes the signal, or its period has passed; the document *)
(* is a copy that control_status makes under s_lock.                       *)
Build ==
  /\ started /\ document = NoDocument
  /\ signal \/ PeriodPasses
  /\ LockFree
  /\ document' = api_status(s_state)
  /\ signal' = FALSE
  /\ UNCHANGED <<control, ring, started, broker, retained, current>>

Send ==
  /\ document # NoDocument
  /\ document' = NoDocument
  /\ retained' = IF broker THEN document ELSE retained
  /\ current' = broker
  /\ UNCHANGED <<control, ring, started, signal, broker>>

Broker ==
  /\ broker' = ~broker
  /\ UNCHANGED <<control, ring, started, signal, document, retained, current>>

(* Only what the broker retains survives a reset.                          *)
Reset ==
  /\ now' = 0
  /\ s_state' = ctl_init(0)
  /\ unsent' = <<>>
  /\ RingRestart
  /\ started' = FALSE /\ signal' = FALSE
  /\ document' = NoDocument
  /\ current' = FALSE
  /\ UNCHANGED <<broker, retained>>

Next == Tick \/ Command \/ events_publish \/ Clock \/ Start \/ Build \/ Send \/ Broker \/ Reset

(* A call that holds s_lock finishes, since it never waits on the network; *)
(* the boot goes on, and the state task is scheduled.  s_lock is a mutex   *)
(* that is free for most of every second and is handed to its waiters, so  *)
(* the state task gets it although it is taken again and again.            *)
Fairness == WF_vars(events_publish) /\ WF_vars(Start) /\ SF_vars(Build) /\ WF_vars(Send)

Spec == Init /\ [][Next]_vars

FairSpec == Spec /\ Fairness

-----------------------------------------------------------------------------
TypeOK ==
  /\ now \in 0..MaxTime
  /\ s_state \in CtlState
  /\ unsent \in Seq(Event) /\ Len(unsent) <= 3
  /\ {started, signal, broker, current} \subseteq BOOLEAN
  /\ document \in Document \cup {NoDocument}
  /\ retained \in Document
  /\ RingInv

(* The i-th newest event of the log is the newest of its type.             *)
NewestOfType(i) ==
  \A j \in 1..(i - 1) : NewestAt(j).type # NewestAt(i).type

(* The event log tells the truth: whoever reads it with s_lock free finds  *)
(* the pump as the newest event has it, the overheat and the sensor as the *)
(* newest events of their types have them, and a log without one of these  *)
(* that has not wrapped tells that nothing happened since the boot.        *)
LogTellsState ==
  LockFree =>
    /\ s_count > 0 => NewestAt(1).pump = s_state.on
    /\ \A i \in 1..s_count : NewestOfType(i) =>
         LET event == NewestAt(i)
         IN  /\ event.type = "overheat" => event.on = s_state.overheat
             /\ event.type = "sensor" => event.on = s_state.sensor_failed
    /\ s_count < EVENTS_RING_SIZE =>
         LET types == {NewestAt(i).type : i \in 1..s_count}
         IN  /\ s_state.on => types # {}
             /\ s_state.overheat => "overheat" \in types
             /\ s_state.sensor_failed => "sensor" \in types

(* Once a document of this boot has arrived and none has failed since, the *)
(* broker retains the pump's state as it is, unless a newer document is on *)
(* its way.                                                                *)
RetainedTellsPump ==
  LockFree /\ current /\ ~signal /\ document = NoDocument
    => /\ retained.on = s_state.on
       /\ retained.overheat = s_state.overheat
       /\ retained.sensor_failed = s_state.sensor_failed

(* What LogTellsState becomes while events wait to be published: the log   *)
(* will tell the truth once it is extended by them.                        *)
Announces(type) == \E j \in 1..Len(unsent) : unsent[j].type = type

RingTells(type, flag) ==
  /\ \A i \in 1..s_count :
       NewestAt(i).type = type /\ NewestOfType(i) => NewestAt(i).on = flag
  /\ s_count < EVENTS_RING_SIZE /\ flag => \E i \in 1..s_count : NewestAt(i).type = type

LogWillTell(type, flag) ==
  /\ \A j \in 1..Len(unsent) : unsent[j].type = type => unsent[j].on = flag
  /\ ~Announces(type) => RingTells(type, flag)

LogWillTellPump ==
  /\ \A j \in 1..Len(unsent) : unsent[j].pump = s_state.on
  /\ LockFree => IF s_count > 0 THEN NewestAt(1).pump = s_state.on ELSE ~s_state.on

(* What RetainedTellsPump becomes while a document is on its way: it may   *)
(* be out of date only if the state task has been signalled once more.     *)
DocumentTellsPump ==
  LockFree /\ ~signal /\ document # NoDocument
    => /\ document.on = s_state.on
       /\ document.overheat = s_state.overheat
       /\ document.sensor_failed = s_state.sensor_failed

OnlyOnceStarted == current \/ document # NoDocument => started

(* The invariant that every step preserves.                                *)
IInv ==
  /\ TypeOK
  /\ LogWillTellPump
  /\ LogWillTell("overheat", s_state.overheat)
  /\ LogWillTell("sensor", s_state.sensor_failed)
  /\ OnlyOnceStarted
  /\ DocumentTellsPump
  /\ RetainedTellsPump

(* A broker that stays reachable gets to retain the pump's true state.     *)
FeedCatchesUp == <>[](broker /\ started) => []<>(retained.on = s_state.on)

(* "a state change republishes at once" (config.h): the broker retains the *)
(* reason in force, unless a document is on its way.                       *)
RetainedTellsReason ==
  LockFree /\ current /\ ~signal /\ document = NoDocument
    => retained.reason = s_state.reason

=============================================================================
