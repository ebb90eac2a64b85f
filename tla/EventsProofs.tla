---------------------------- MODULE EventsProofs -----------------------------
(***************************************************************************)
(* The event log gives its readers the latest events, newest first, and    *)
(* what it tells of the pump is true; so is the status document that the   *)
(* broker retains.  For every size of the ring, every thresholds and       *)
(* readings, and every order of the tasks' steps.                          *)
(***************************************************************************)
EXTENDS Events, ControlLogicProofs, SequenceTheorems

(***************************************************************************)
(* The ring by itself.                                                     *)
(***************************************************************************)
(* The remainder of a number below twice the divisor.                      *)
LEMMA ModBelow ==
  ASSUME NEW N \in Nat \ {0}, NEW x \in 0..(N - 1)
  PROVE  x % N = x
  OBVIOUS

LEMMA ModOnceAround ==
  ASSUME NEW N \in Nat \ {0}, NEW x \in N..(2 * N - 1)
  PROVE  x % N = x - N
  OBVIOUS

(* Going i slots back from the slot after the head leads to the head       *)
(* itself, or to where i - 1 slots back from the head led.                 *)
LEMMA OneSlotBack ==
  ASSUME NEW N \in Nat \ {0}, NEW h \in 0..(N - 1), NEW i \in 1..N
  PROVE  /\ ((h + 1) % N) \in 0..(N - 1)
         /\ i = 1 => (((h + 1) % N) + N - i) % N = h
         /\ i > 1 => /\ (((h + 1) % N) + N - i) % N = (h + N - (i - 1)) % N
                     /\ (h + N - (i - 1)) % N # h
                     /\ (h + N - (i - 1)) % N \in 0..(N - 1)
<1>1. CASE h + 1 < N
  <2>1. (h + 1) % N = h + 1
    BY <1>1, ModBelow
  <2>2. h + 1 + N - i = h + N - (i - 1)
    OBVIOUS
  <2>3. CASE i > h + 1
    <3>1. (h + 1 + N - i) % N = h + 1 + N - i
      BY <2>3, ModBelow
    <3> QED BY <1>1, <2>1, <2>2, <2>3, <3>1
  <2>4. CASE i <= h + 1
    <3>1. (h + 1 + N - i) % N = h + 1 - i
      BY <1>1, <2>4, ModOnceAround
    <3> QED BY <1>1, <2>1, <2>2, <2>4, <3>1
  <2> QED BY <2>3, <2>4
<1>2. CASE h + 1 = N
  <2>1. (h + 1) % N = 0
    BY <1>2, ModOnceAround
  <2>2. (N - i) % N = N - i
    BY ModBelow
  <2>3. i > 1 => (h + N - (i - 1)) % N = N - i
    BY <1>2, ModOnceAround
  <2> QED BY <1>2, <2>1, <2>2, <2>3
<1> QED BY <1>1, <1>2

-----------------------------------------------------------------------------
LEMMA RingInitHolds == RingInit => RingInv
  BY RingConstants DEF RingInit, RingInv, RingTypeOK, Written, RingSlots

LEMMA PublishPreserves ==
  ASSUME RingInv, NEW event \in Event, Publish(event)
  PROVE  RingInv'
<1>1. (s_head + 1) % EVENTS_RING_SIZE \in RingSlots
  BY RingConstants, OneSlotBack DEF RingInv, RingTypeOK, RingSlots
<1>2. RingTypeOK'
  BY <1>1, RingConstants DEF RingInv, RingTypeOK, Publish, CountAfter
<1>3. s_count < EVENTS_RING_SIZE => s_count' = s_count + 1
  BY DEF Publish, CountAfter
<1>4. s_count' < EVENTS_RING_SIZE => s_head' = s_count'
  <2> SUFFICES ASSUME s_count' < EVENTS_RING_SIZE PROVE s_head' = s_count'
    OBVIOUS
  <2>1. s_count < EVENTS_RING_SIZE /\ s_count' = s_count + 1 /\ s_head = s_count
    BY RingConstants DEF RingInv, RingTypeOK, Written, Publish, CountAfter
  <2>2. (s_count + 1) % EVENTS_RING_SIZE = s_count + 1
    BY <2>1, RingConstants, ModBelow DEF RingInv, RingTypeOK
  <2> QED BY <2>1, <2>2 DEF Publish
<1>5. ASSUME NEW i \in RingSlots, i < s_count' PROVE s_ring'[i] \in Event
  <2>1. CASE i = s_head
    BY <2>1 DEF RingInv, RingTypeOK, Publish
  <2>2. CASE i # s_head
    <3>1. i < s_count
      BY <1>5, <2>2, RingConstants DEF RingInv, RingTypeOK, Written, Publish, CountAfter, RingSlots
    <3> QED BY <2>2, <3>1 DEF RingInv, RingTypeOK, Written, Publish
  <2> QED BY <2>1, <2>2
<1> QED BY <1>2, <1>4, <1>5 DEF RingInv, Written, RingSlots

LEMMA RingNextPreserves == RingInv /\ [RingNext]_ring => RingInv'
<1> SUFFICES ASSUME RingInv, [RingNext]_ring PROVE RingInv'
  OBVIOUS
<1>1. CASE RingRestart
  BY <1>1, RingConstants DEF RingRestart, RingInv, RingTypeOK, Written, RingSlots
<1>2. ASSUME NEW event \in Event, Publish(event) PROVE RingInv'
  BY <1>2, PublishPreserves
<1>3. CASE UNCHANGED ring
  BY <1>3 DEF ring, RingInv, RingTypeOK, Written, RingSlots
<1> QED BY <1>1, <1>2, <1>3 DEF RingNext

(* The head, the count and the slots a reader may reach are always valid.  *)
THEOREM RingIsValid == RingSpec => []RingInv
  BY RingInitHolds, RingNextPreserves, PTL DEF RingSpec

-----------------------------------------------------------------------------
(* A reader of the whole ring sees s_count events.                         *)
LEMMA RecentIs ==
  ASSUME RingInv
  PROVE  events_recent(EVENTS_RING_SIZE) = [i \in 1..s_count |-> NewestAt(i)]
  BY RingConstants DEF RingInv, RingTypeOK, events_recent

LEMMA RecentLength ==
  ASSUME RingInv
  PROVE  Len(events_recent(EVENTS_RING_SIZE)) = s_count
<1>1. s_count \in Nat
  BY DEF RingInv, RingTypeOK
<1> QED BY <1>1, RecentIs

(* A published event becomes the newest; the others move one place down.   *)
LEMMA PublishMoves ==
  ASSUME RingInv, NEW event \in Event, Publish(event), NEW i \in 1..s_count'
  PROVE  NewestAt(i)' = IF i = 1 THEN event ELSE NewestAt(i - 1)
<1> DEFINE N == EVENTS_RING_SIZE
<1>1. N \in Nat \ {0} /\ s_head \in 0..(N - 1) /\ i \in 1..N
  BY RingConstants DEF RingInv, RingTypeOK, RingSlots, Publish, CountAfter
<1>2. /\ i = 1 => (((s_head + 1) % N) + N - i) % N = s_head
      /\ i > 1 => /\ (((s_head + 1) % N) + N - i) % N = (s_head + N - (i - 1)) % N
                  /\ (s_head + N - (i - 1)) % N # s_head
                  /\ (s_head + N - (i - 1)) % N \in RingSlots
  BY <1>1, OneSlotBack DEF RingSlots
<1>3. NewestAt(i)' = s_ring'[(((s_head + 1) % N) + N - i) % N]
  BY DEF NewestAt, Publish
<1>4. CASE i = 1
  BY <1>1, <1>2, <1>3, <1>4 DEF Publish, RingInv, RingTypeOK, RingSlots
<1>5. CASE i > 1
  <2>1. NewestAt(i)' = s_ring[(s_head + N - (i - 1)) % N]
    BY <1>1, <1>2, <1>3, <1>5 DEF Publish, RingInv, RingTypeOK
  <2> QED BY <1>5, <2>1 DEF NewestAt
<1> QED BY <1>1, <1>4, <1>5

LEMMA PublishRefines ==
  ASSUME RingInv, RingInv', NEW event \in Event, Publish(event)
  PROVE  Promise!Add(event)
<1> DEFINE log == events_recent(EVENTS_RING_SIZE)
<1>1. log' = [i \in 1..s_count' |-> NewestAt(i)']
  BY RingConstants DEF RingInv, RingTypeOK, events_recent
<1>2. Len(log) = s_count /\ log = [i \in 1..s_count |-> NewestAt(i)]
  BY RecentIs, RecentLength
<1>3. s_count' = IF Len(log) < EVENTS_RING_SIZE THEN Len(log) + 1 ELSE EVENTS_RING_SIZE
  BY <1>2, RingConstants DEF Publish, CountAfter, RingInv, RingTypeOK
<1>4. ASSUME NEW i \in 1..s_count'
      PROVE  NewestAt(i)' = IF i = 1 THEN event ELSE log[i - 1]
  <2>1. i = 1 \/ i - 1 \in 1..s_count
    BY RingConstants DEF Publish, CountAfter, RingInv, RingTypeOK
  <2> QED BY <1>2, <2>1, PublishMoves
<1>5. log' = [i \in 1..s_count' |-> IF i = 1 THEN event ELSE log[i - 1]]
  BY <1>1, <1>4
<1> QED BY <1>3, <1>5 DEF Promise!Add, Publish

LEMMA EmptyRing ==
  ASSUME s_count = 0
  PROVE  events_recent(EVENTS_RING_SIZE) = <<>>
  BY RingConstants DEF events_recent

(* Every behaviour of the ring is one of the list of recent events: what a *)
(* reader gets is never reordered, repeated or lost before its time.       *)
THEOREM RingKeepsRecent == RingSpec => LogKeepsRecent
<1>1. RingInit => Promise!Init
  BY EmptyRing DEF RingInit, Promise!Init
<1>2. RingInv /\ RingInv' /\ [RingNext]_ring => [Promise!Next]_(Promise!vars)
  <2> SUFFICES ASSUME RingInv, RingInv', [RingNext]_ring PROVE [Promise!Next]_(Promise!vars)
    OBVIOUS
  <2>1. CASE RingRestart
    <3>1. events_recent(EVENTS_RING_SIZE)' = <<>>
      BY <2>1, RingConstants DEF RingRestart, events_recent
    <3> QED BY <2>1, <3>1 DEF RingRestart, Promise!Restart, Promise!Next
  <2>2. ASSUME NEW event \in Event, Publish(event) PROVE Promise!Next
    BY <2>2, PublishRefines DEF Promise!Next
  <2>3. CASE UNCHANGED ring
    BY <2>3 DEF ring, Promise!vars, events_recent, NewestAt
  <2> QED BY <2>1, <2>2, <2>3 DEF RingNext
<1> QED BY <1>1, <1>2, RingIsValid, PTL DEF RingSpec, LogKeepsRecent, Promise!Spec

(***************************************************************************)
(* The events of one call.                                                 *)
(***************************************************************************)
(* All that a sequence of events says of a controller state is true of it. *)
TrueOf(events, after) ==
  \A j \in 1..Len(events) :
    /\ events[j].pump = after.on
    /\ events[j].type = "overheat" => events[j].on = after.overheat
    /\ events[j].type = "sensor" => events[j].on = after.sensor_failed

OfType(events, type) == \E j \in 1..Len(events) : events[j].type = type

LEMMA OneEvent ==
  ASSUME NEW after \in CtlState, NEW type \in EventTypes, NEW on \in BOOLEAN,
         type = "overheat" => on = after.overheat,
         type = "sensor" => on = after.sensor_failed,
         NEW e, e = make_event(type, on, after)
  PROVE  e \in Seq(Event) /\ Len(e) <= 1 /\ TrueOf(e, after) /\ OfType(e, type)
<1>1. after.on \in BOOLEAN
  BY DEF CtlState
<1>2. [type |-> type, on |-> on, pump |-> after.on] \in Event
  BY <1>1 DEF Event
<1>3. e \in Seq(Event) /\ Len(e) = 1 /\ e[1] = [type |-> type, on |-> on, pump |-> after.on]
  BY <1>2 DEF make_event
<1>4. TrueOf(e, after)
  BY <1>3 DEF TrueOf
<1>5. OfType(e, type)
  BY <1>3 DEF OfType
<1> QED BY <1>3, <1>4, <1>5

LEMMA NoEvents ==
  ASSUME NEW after, NEW e, e = <<>>
  PROVE  e \in Seq(Event) /\ Len(e) <= 1 /\ TrueOf(e, after)
  BY DEF TrueOf

LEMMA EventIf ==
  ASSUME NEW after \in CtlState, NEW type \in EventTypes, NEW on \in BOOLEAN,
         type = "overheat" => on = after.overheat,
         type = "sensor" => on = after.sensor_failed,
         NEW condition \in BOOLEAN,
         NEW e, e = IF condition THEN make_event(type, on, after) ELSE <<>>
  PROVE  e \in Seq(Event) /\ Len(e) <= 1 /\ TrueOf(e, after) /\ (condition => OfType(e, type))
<1>1. CASE condition
  <2>1. e = make_event(type, on, after)
    BY <1>1
  <2> QED BY <2>1, OneEvent, Zenon
<1>2. CASE ~condition
  <2>1. e = <<>>
    BY <1>2
  <2> QED BY <1>2, <2>1, NoEvents, Zenon
<1> QED BY <1>1, <1>2

LEMMA TrueOfConcat ==
  ASSUME NEW after, NEW s \in Seq(Event), NEW t \in Seq(Event),
         TrueOf(s, after), TrueOf(t, after), NEW st, st = s \o t
  PROVE  /\ st \in Seq(Event) /\ Len(st) = Len(s) + Len(t)
         /\ TrueOf(st, after)
         /\ \A type : OfType(s, type) \/ OfType(t, type) => OfType(st, type)
<1>1. /\ st \in Seq(Event) /\ Len(st) = Len(s) + Len(t)
      /\ \A i \in 1..Len(s) + Len(t) : st[i] = IF i <= Len(s) THEN s[i] ELSE t[i - Len(s)]
  BY ConcatProperties
<1>2. Len(s) \in Nat /\ Len(t) \in Nat
  OBVIOUS
<1>3. ASSUME NEW j \in 1..Len(st)
      PROVE  \/ \E k \in 1..Len(s) : st[j] = s[k]
             \/ \E k \in 1..Len(t) : st[j] = t[k]
  <2>1. CASE j <= Len(s)
    BY <1>1, <1>2, <2>1
  <2>2. CASE j > Len(s)
    <3>1. j - Len(s) \in 1..Len(t) /\ st[j] = t[j - Len(s)]
      BY <1>1, <1>2, <2>2
    <3> QED BY <3>1
  <2> QED BY <1>1, <1>2, <2>1, <2>2
<1>4. ASSUME NEW k \in 1..Len(s) PROVE \E j \in 1..Len(st) : st[j] = s[k]
  BY <1>1, <1>2
<1>5. ASSUME NEW k \in 1..Len(t) PROVE \E j \in 1..Len(st) : st[j] = t[k]
  <2>1. Len(s) + k \in 1..Len(st) /\ st[Len(s) + k] = t[k]
    BY <1>1, <1>2
  <2> QED BY <2>1
<1>6. TrueOf(st, after)
  <2> SUFFICES ASSUME NEW j \in 1..Len(st)
               PROVE  /\ st[j].pump = after.on
                      /\ st[j].type = "overheat" => st[j].on = after.overheat
                      /\ st[j].type = "sensor" => st[j].on = after.sensor_failed
    BY Zenon DEF TrueOf
  <2>1. CASE \E k \in 1..Len(s) : st[j] = s[k]
    BY <2>1 DEF TrueOf
  <2>2. CASE \E k \in 1..Len(t) : st[j] = t[k]
    BY <2>2 DEF TrueOf
  <2> QED BY <1>3, <2>1, <2>2
<1>7. ASSUME NEW type, OfType(s, type) \/ OfType(t, type) PROVE OfType(st, type)
  <2>1. CASE OfType(s, type)
    <3>1. PICK k \in 1..Len(s) : s[k].type = type
      BY <2>1 DEF OfType
    <3> QED BY <1>4, <3>1 DEF OfType
  <2>2. CASE OfType(t, type)
    <3>1. PICK k \in 1..Len(t) : t[k].type = type
      BY <2>2 DEF OfType
    <3> QED BY <1>5, <3>1 DEF OfType
  <2> QED BY <1>7, <2>1, <2>2
<1> QED BY <1>1, <1>6, <1>7

(* What a call announces is true after it, every change of a flag is       *)
(* announced, and so is every switch of the pump.                          *)
LEMMA EventsOfShape ==
  ASSUME NEW before \in CtlState, NEW prepared \in CtlState, NEW after \in CtlState,
         NEW e, e = EventsOf(before, prepared, after)
  PROVE  /\ e \in Seq(Event) /\ Len(e) <= 3
         /\ TrueOf(e, after)
         /\ before.overheat # prepared.overheat => OfType(e, "overheat")
         /\ before.sensor_failed # prepared.sensor_failed => OfType(e, "sensor")
         /\ after.on # prepared.on => e # <<>>
<1> DEFINE sensor == IF before.sensor_failed # prepared.sensor_failed
                       THEN make_event("sensor", after.sensor_failed, after) ELSE <<>>
           overheat == IF before.overheat # prepared.overheat
                         THEN make_event("overheat", after.overheat, after) ELSE <<>>
           pump == IF after.on # prepared.on THEN make_event("pump", after.on, after)
                   ELSE IF OverrideEnded(prepared, after)
                     THEN make_event("manual_end", after.on, after) ELSE <<>>
<1>1. after.on \in BOOLEAN /\ after.overheat \in BOOLEAN /\ after.sensor_failed \in BOOLEAN
  BY DEF CtlState
<1>2. /\ sensor \in Seq(Event) /\ Len(sensor) <= 1 /\ TrueOf(sensor, after)
      /\ before.sensor_failed # prepared.sensor_failed => OfType(sensor, "sensor")
  <2>1. "sensor" \in EventTypes
    BY DEF EventTypes
  <2> QED BY <1>1, <2>1, EventIf
<1>3. /\ overheat \in Seq(Event) /\ Len(overheat) <= 1 /\ TrueOf(overheat, after)
      /\ before.overheat # prepared.overheat => OfType(overheat, "overheat")
  <2>1. "overheat" \in EventTypes
    BY DEF EventTypes
  <2> QED BY <1>1, <2>1, EventIf
<1>4. /\ pump \in Seq(Event) /\ Len(pump) <= 1 /\ TrueOf(pump, after)
      /\ after.on # prepared.on => OfType(pump, "pump")
  <2>1. "pump" \in EventTypes /\ "manual_end" \in EventTypes
    BY DEF EventTypes
  <2>2. CASE after.on # prepared.on
    <3>1. pump = IF after.on # prepared.on THEN make_event("pump", after.on, after) ELSE <<>>
      BY <2>2
    <3> HIDE DEF pump
    <3> QED BY <1>1, <2>1, <3>1, EventIf
  <2>3. CASE after.on = prepared.on
    <3>1. pump = IF OverrideEnded(prepared, after)
                   THEN make_event("manual_end", after.on, after) ELSE <<>>
      BY <2>3
    <3> HIDE DEF pump
    <3> QED BY <1>1, <2>1, <2>3, <3>1, EventIf
  <2> QED BY <2>2, <2>3
<1>5. e = (sensor \o overheat) \o pump
  BY Zenon DEF EventsOf
<1> HIDE DEF sensor, overheat, pump
<1> DEFINE front == sensor \o overheat
<1>6. /\ front \in Seq(Event) /\ Len(front) = Len(sensor) + Len(overheat)
      /\ TrueOf(front, after)
      /\ \A type : OfType(sensor, type) \/ OfType(overheat, type) => OfType(front, type)
  BY <1>2, <1>3, TrueOfConcat
<1>7. e = front \o pump
  BY <1>5
<1> HIDE DEF front
<1>8. /\ e \in Seq(Event) /\ Len(e) = Len(front) + Len(pump)
      /\ TrueOf(e, after)
      /\ \A type : OfType(front, type) \/ OfType(pump, type) => OfType(e, type)
  BY <1>4, <1>6, <1>7, TrueOfConcat
<1>9. Len(e) <= 3
  BY <1>2, <1>3, <1>4, <1>6, <1>8
<1>10. OfType(e, "pump") => e # <<>>
  <2>1. Len(<<>>) = 0
    OBVIOUS
  <2> QED BY <2>1 DEF OfType
<1> QED BY <1>2, <1>3, <1>4, <1>6, <1>8, <1>9, <1>10

(***************************************************************************)
(* The log and the retained document tell the truth.                       *)
(***************************************************************************)
(* A controller that has just started, with nothing told and nothing sent. *)
Fresh ==
  /\ now = 0 /\ s_state = ctl_init(0) /\ unsent = <<>> /\ RingInv /\ s_count = 0
  /\ started = FALSE /\ signal = FALSE /\ document = NoDocument /\ current = FALSE
  /\ broker \in BOOLEAN /\ retained \in Document

LEMMA FreshHolds == Fresh => IInv
<1> SUFFICES ASSUME Fresh PROVE IInv
  OBVIOUS
<1> USE DEF Fresh
<1>1. ctl_init(0) \in CtlState
  BY LogicConstants DEF ctl_init, CtlState, Reasons, Manuals
<1>2. ~s_state.on /\ s_state.overheat = FALSE /\ s_state.sensor_failed = FALSE
  BY DEF ctl_init
<1>3. TypeOK
  <2>1. now \in 0..MaxTime
    BY EventsConstants
  <2>2. unsent \in Seq(Event) /\ Len(unsent) <= 3
    OBVIOUS
  <2>3. {started, signal, broker, current} \subseteq BOOLEAN
    OBVIOUS
  <2> QED BY <1>1, <2>1, <2>2, <2>3 DEF TypeOK
<1>4. LogWillTellPump
  BY <1>2 DEF LogWillTellPump
<1>5. ASSUME NEW type PROVE LogWillTell(type, FALSE)
  BY DEF LogWillTell, RingTells
<1>6. OnlyOnceStarted /\ DocumentTellsPump /\ RetainedTellsPump
  BY DEF OnlyOnceStarted, DocumentTellsPump, RetainedTellsPump
<1> QED BY <1>2, <1>3, <1>4, <1>5, <1>6 DEF IInv

LEMMA InitHolds == Init => IInv
<1> SUFFICES ASSUME Init PROVE IInv
  OBVIOUS
<1>1. ctl_init(0) \in CtlState
  BY LogicConstants DEF ctl_init, CtlState, Reasons, Manuals
<1>2. retained \in Document
  <2>1. api_status(ctl_init(0)) \in Document
    BY <1>1 DEF api_status, Document, CtlState
  <2>2. [api_status(ctl_init(0)) EXCEPT !.on = TRUE] \in Document
    BY <2>1 DEF Document
  <2> QED BY <2>1, <2>2 DEF Init
<1> QED BY <1>2, FreshHolds, RingInitHolds DEF Fresh, Init, RingInit

LEMMA ResetPreserves ==
  ASSUME IInv, Reset
  PROVE  IInv'
<1>1. /\ now' = 0 /\ s_state' = ctl_init(0) /\ unsent' = <<>> /\ s_count' = 0
      /\ started' = FALSE /\ signal' = FALSE /\ document' = NoDocument /\ current' = FALSE
      /\ broker' \in BOOLEAN /\ retained' \in Document
  BY DEF Reset, RingRestart, IInv, TypeOK
<1>2. RingInv'
  <2>1. RingInv /\ RingRestart
    BY DEF Reset, IInv, TypeOK
  <2> QED BY <2>1, RingNextPreserves DEF RingNext
<1>3. Fresh'
  BY <1>1, <1>2 DEF Fresh
<1> QED BY <1>3, FreshHolds, PTL

(* A call that announces every change leaves the log to tell the truth.    *)
LEMMA CallTells ==
  ASSUME LockFree, NEW type, NEW flag, NEW flag_, LogWillTell(type, flag),
         UNCHANGED ring,
         \A j \in 1..Len(unsent') : unsent'[j].type = type => unsent'[j].on = flag_,
         flag # flag_ => OfType(unsent', type)
  PROVE  /\ \A j \in 1..Len(unsent') : unsent'[j].type = type => unsent'[j].on = flag_
         /\ ~Announces(type)' => RingTells(type, flag_)'
<1>1. RingTells(type, flag)
  BY DEF LogWillTell, Announces, LockFree
<1>2. Announces(type)' = OfType(unsent', type)
  BY DEF Announces, OfType
<1>3. CASE flag = flag_
  <2>1. RingTells(type, flag_)'
    BY <1>1, <1>3 DEF RingTells, ring, NewestAt, NewestOfType
  <2> QED BY <2>1
<1> QED BY <1>2, <1>3

LEMMA CallPreserves ==
  ASSUME IInv, NEW prepared \in CtlState, prepared.on = s_state.on,
         NEW cfg \in Configs, Call(prepared, cfg)
  PROVE  IInv'
<1>1. /\ LockFree /\ s_state' = ctl_decide(prepared, cfg, now)
      /\ unsent' = EventsOf(s_state, prepared, s_state')
      /\ UNCHANGED <<now, ring, feed>>
  BY DEF Call
<1>2. s_state \in CtlState /\ cfg \in Config /\ now \in Int
  BY EventsConstants DEF IInv, TypeOK
<1>3. /\ s_state' \in CtlState
      /\ s_state'.overheat = prepared.overheat
      /\ s_state'.sensor_failed = prepared.sensor_failed
  BY <1>1, <1>2, DecideType, DecideShape
<1>4. /\ unsent' \in Seq(Event) /\ Len(unsent') <= 3
      /\ TrueOf(unsent', s_state')
      /\ s_state.overheat # prepared.overheat => OfType(unsent', "overheat")
      /\ s_state.sensor_failed # prepared.sensor_failed => OfType(unsent', "sensor")
      /\ s_state'.on # prepared.on => unsent' # <<>>
  BY <1>1, <1>2, <1>3, EventsOfShape
<1>5. RingInv'
  <2>1. RingInv
    BY DEF IInv, TypeOK
  <2>2. UNCHANGED ring
    BY <1>1
  <2> QED BY <2>1, <2>2, RingNextPreserves
<1>6. TypeOK'
  BY <1>1, <1>3, <1>4, <1>5 DEF IInv, TypeOK, feed
<1>7. LogWillTellPump'
  <2>1. \A j \in 1..Len(unsent') : unsent'[j].pump = s_state'.on
    BY <1>4 DEF TrueOf
  <2>2. ASSUME unsent' = <<>>
        PROVE  IF s_count' > 0 THEN NewestAt(1)' = NewestAt(1) /\ NewestAt(1).pump = s_state'.on
                               ELSE ~s_state'.on
    <3>1. s_state'.on = s_state.on
      BY <1>4, <2>2
    <3>2. s_count' = s_count /\ NewestAt(1)' = NewestAt(1)
      BY <1>1 DEF ring, NewestAt
    <3> QED BY <1>1, <3>1, <3>2 DEF IInv, LogWillTellPump
  <2> QED BY <2>1, <2>2 DEF LogWillTellPump, LockFree
<1>8. LogWillTell("overheat", s_state.overheat)'
  <2>1. LogWillTell("overheat", s_state.overheat)
    BY DEF IInv
  <2>2. \A j \in 1..Len(unsent') : unsent'[j].type = "overheat" => unsent'[j].on = s_state'.overheat
    BY <1>4 DEF TrueOf
  <2> QED BY <1>1, <1>3, <1>4, <2>1, <2>2, CallTells DEF LogWillTell
<1>9. LogWillTell("sensor", s_state.sensor_failed)'
  <2>1. LogWillTell("sensor", s_state.sensor_failed)
    BY DEF IInv
  <2>2. \A j \in 1..Len(unsent') : unsent'[j].type = "sensor" => unsent'[j].on = s_state'.sensor_failed
    BY <1>4 DEF TrueOf
  <2> QED BY <1>1, <1>3, <1>4, <2>1, <2>2, CallTells DEF LogWillTell
<1>10. OnlyOnceStarted'
  BY <1>1 DEF IInv, OnlyOnceStarted, feed
<1>11. unsent' = <<>> => /\ s_state'.on = s_state.on
                         /\ s_state'.overheat = s_state.overheat
                         /\ s_state'.sensor_failed = s_state.sensor_failed
  <2>1. \A type : unsent' = <<>> => ~OfType(unsent', type)
    BY DEF OfType
  <2> QED BY <1>3, <1>4, <2>1
<1>12. DocumentTellsPump' /\ RetainedTellsPump'
  BY <1>1, <1>11 DEF IInv, DocumentTellsPump, RetainedTellsPump, LockFree, feed
<1> QED BY <1>6, <1>7, <1>8, <1>9, <1>10, <1>12 DEF IInv

(* A published event of a type is the newest of it; one of another type    *)
(* moves the others down and hides none of them.                           *)
LEMMA PublishTells ==
  ASSUME RingInv, RingInv', unsent \in Seq(Event), unsent # <<>>, Publish(Head(unsent)),
         unsent' = Tail(unsent), NEW type, NEW flag, LogWillTell(type, flag)
  PROVE  /\ \A j \in 1..Len(unsent') : unsent'[j].type = type => unsent'[j].on = flag
         /\ ~Announces(type)' => RingTells(type, flag)'
<1> DEFINE event == Head(unsent)
<1>1. /\ event \in Event /\ event = unsent[1]
      /\ Len(unsent') = Len(unsent) - 1 /\ Len(unsent) \in Nat \ {0}
      /\ \A j \in 1..Len(unsent') : unsent'[j] = unsent[j + 1]
  BY HeadTailProperties
<1>2. \A j \in 1..Len(unsent') : j + 1 \in 1..Len(unsent)
  BY <1>1
<1>3. \A j \in 1..Len(unsent') : unsent'[j].type = type => unsent'[j].on = flag
  BY <1>1, <1>2 DEF LogWillTell
<1>4. /\ s_count \in 0..EVENTS_RING_SIZE /\ EVENTS_RING_SIZE \in Nat \ {0}
      /\ s_count' = IF s_count < EVENTS_RING_SIZE THEN s_count + 1 ELSE s_count
  BY RingConstants DEF RingInv, RingTypeOK, Publish, CountAfter
<1>5. \A i \in 1..s_count' : NewestAt(i)' = IF i = 1 THEN event ELSE NewestAt(i - 1)
  BY <1>1, PublishMoves
<1>6. 1 \in 1..s_count'
  BY <1>4
<1> HIDE DEF event
<1>7. CASE event.type = type
  <2>1. event.on = flag
    BY <1>1, <1>7 DEF LogWillTell
  <2>2. ASSUME NEW i \in 1..s_count', NewestAt(i)'.type = type, NewestOfType(i)'
        PROVE  NewestAt(i)'.on = flag
    <3>1. i = 1
      <4> SUFFICES ASSUME i # 1 PROVE FALSE
        OBVIOUS
      <4>1. 1 \in 1..(i - 1) /\ NewestAt(1)' = event
        BY <1>4, <1>5, <1>6
      <4>2. NewestAt(1)'.type # NewestAt(i)'.type
        BY <2>2, <4>1 DEF NewestOfType
      <4> QED BY <1>7, <2>2, <4>1, <4>2
    <3> QED BY <1>5, <1>6, <2>1, <3>1
  <2>3. NewestAt(1)'.type = type
    BY <1>5, <1>6, <1>7
  <2>4. RingTells(type, flag)'
    BY <1>6, <2>2, <2>3 DEF RingTells
  <2> QED BY <1>3, <2>4
<1>8. CASE event.type # type
  <2> SUFFICES ASSUME ~Announces(type)' PROVE RingTells(type, flag)'
    BY <1>3
  <2>1. RingTells(type, flag)
    <3>1. ASSUME NEW j \in 1..Len(unsent), unsent[j].type = type PROVE FALSE
      <4>1. j - 1 \in 1..Len(unsent') /\ unsent'[j - 1] = unsent[j]
        BY <1>1, <1>8, <3>1
      <4> QED BY <3>1, <4>1 DEF Announces
    <3>2. ~Announces(type)
      BY <3>1 DEF Announces
    <3> QED BY <3>2 DEF LogWillTell
  <2>2. ASSUME NEW i \in 1..s_count', NewestAt(i)'.type = type, NewestOfType(i)'
        PROVE  NewestAt(i)'.on = flag
    <3>1. i - 1 \in 1..s_count /\ NewestAt(i)' = NewestAt(i - 1)
      BY <1>4, <1>5, <1>8, <2>2
    <3>2. ASSUME NEW j \in 1..(i - 1 - 1) PROVE NewestAt(j).type # NewestAt(i - 1).type
      <4>1. j + 1 \in 1..(i - 1) /\ j + 1 \in 1..s_count' /\ j + 1 # 1 /\ (j + 1) - 1 = j
        BY <1>4
      <4>2. NewestAt(j + 1)' = NewestAt(j)
        BY <1>5, <4>1
      <4>3. NewestAt(j + 1)'.type # NewestAt(i)'.type
        BY <2>2, <4>1 DEF NewestOfType
      <4> QED BY <3>1, <4>2, <4>3
    <3>3. NewestOfType(i - 1)
      BY <3>2 DEF NewestOfType
    <3> QED BY <2>1, <2>2, <3>1, <3>3 DEF RingTells
  <2>3. ASSUME s_count' < EVENTS_RING_SIZE, flag
        PROVE  \E i \in 1..s_count' : NewestAt(i)'.type = type
    <3>1. s_count < EVENTS_RING_SIZE /\ s_count' = s_count + 1
      BY <1>4, <2>3
    <3>2. PICK i \in 1..s_count : NewestAt(i).type = type
      BY <2>1, <2>3, <3>1 DEF RingTells
    <3>3. i + 1 \in 1..s_count' /\ i + 1 # 1 /\ (i + 1) - 1 = i
      BY <1>4, <3>1
    <3>4. NewestAt(i + 1)' = NewestAt(i)
      BY <1>5, <3>3
    <3> QED BY <3>2, <3>3, <3>4
  <2> QED BY <2>2, <2>3 DEF RingTells
<1> QED BY <1>7, <1>8

LEMMA PublishPreservesAll ==
  ASSUME IInv, events_publish
  PROVE  IInv'
<1>1. /\ unsent \in Seq(Event) /\ unsent # <<>> /\ Len(unsent) <= 3
      /\ Publish(Head(unsent)) /\ unsent' = Tail(unsent)
      /\ signal' = (signal \/ started)
      /\ UNCHANGED <<now, s_state, started, document, broker, retained, current>>
  BY DEF IInv, TypeOK, events_publish
<1>2. /\ Head(unsent) \in Event /\ Head(unsent) = unsent[1]
      /\ unsent' \in Seq(Event) /\ Len(unsent') = Len(unsent) - 1 /\ Len(unsent) \in Nat \ {0}
      /\ \A j \in 1..Len(unsent') : unsent'[j] = unsent[j + 1]
  BY <1>1, HeadTailProperties
<1>3. RingInv /\ RingInv'
  BY <1>1, <1>2, PublishPreserves DEF IInv, TypeOK
<1>4. TypeOK'
  <2>1. {started, signal, broker, current}' \subseteq BOOLEAN
    BY <1>1 DEF IInv, TypeOK
  <2> QED BY <1>1, <1>2, <1>3, <2>1 DEF IInv, TypeOK
<1>5. LogWillTellPump'
  <2>1. \A j \in 1..Len(unsent) : unsent[j].pump = s_state.on
    BY DEF IInv, LogWillTellPump
  <2>2. \A j \in 1..Len(unsent') : unsent'[j].pump = s_state'.on
    BY <1>1, <1>2, <2>1
  <2>3. 1 \in 1..s_count'
    BY <1>1, RingConstants, <1>3 DEF Publish, CountAfter, RingInv, RingTypeOK
  <2>4. NewestAt(1)'.pump = s_state'.on
    <3>1. NewestAt(1)' = Head(unsent)
      BY <1>1, <1>2, <1>3, <2>3, PublishMoves
    <3> QED BY <1>1, <1>2, <2>1, <3>1
  <2>5. LockFree' => s_count' > 0
    BY <1>3, <2>3 DEF RingInv, RingTypeOK
  <2> QED BY <2>2, <2>4, <2>5 DEF LogWillTellPump
<1>6. LogWillTell("overheat", s_state.overheat)'
  <2>1. LogWillTell("overheat", s_state.overheat) /\ s_state'.overheat = s_state.overheat
    BY <1>1 DEF IInv
  <2> QED BY <1>1, <1>3, <2>1, PublishTells DEF LogWillTell
<1>7. LogWillTell("sensor", s_state.sensor_failed)'
  <2>1. LogWillTell("sensor", s_state.sensor_failed) /\ s_state'.sensor_failed = s_state.sensor_failed
    BY <1>1 DEF IInv
  <2> QED BY <1>1, <1>3, <2>1, PublishTells DEF LogWillTell
<1>8. OnlyOnceStarted'
  BY <1>1 DEF IInv, OnlyOnceStarted
<1>9. DocumentTellsPump' /\ RetainedTellsPump'
  BY <1>1 DEF IInv, DocumentTellsPump, RetainedTellsPump, OnlyOnceStarted
<1> QED BY <1>4, <1>5, <1>6, <1>7, <1>8, <1>9 DEF IInv

(* The clock and the feed leave the log and what is still to be published. *)
LEMMA LogFrame ==
  ASSUME IInv, UNCHANGED <<s_state, unsent, ring>>
  PROVE  /\ RingInv'
         /\ LogWillTellPump'
         /\ LogWillTell("overheat", s_state.overheat)'
         /\ LogWillTell("sensor", s_state.sensor_failed)'
<1>1. RingInv'
  <2>1. RingInv /\ UNCHANGED ring
    BY DEF IInv, TypeOK
  <2> QED BY <2>1, RingNextPreserves
<1>2. LogWillTellPump'
  BY DEF IInv, LogWillTellPump, LockFree, NewestAt, ring
<1>3. ASSUME NEW type, NEW flag, LogWillTell(type, flag)
      PROVE  /\ \A j \in 1..Len(unsent') : unsent'[j].type = type => unsent'[j].on = flag
             /\ ~Announces(type)' => RingTells(type, flag)'
  BY <1>3 DEF LogWillTell, Announces, RingTells, NewestOfType, NewestAt, ring
<1>4. LogWillTell("overheat", s_state.overheat)'
  BY <1>3 DEF IInv, LogWillTell
<1>5. LogWillTell("sensor", s_state.sensor_failed)'
  BY <1>3 DEF IInv, LogWillTell
<1> QED BY <1>1, <1>2, <1>4, <1>5

LEMMA TickPreserves ==
  ASSUME IInv, Tick
  PROVE  IInv'
<1>1. s_state \in CtlState /\ now \in Int
  BY EventsConstants DEF IInv, TypeOK
<1>2. PICK cfg \in Configs : \/ Call(s_state, cfg)
                             \/ \E reading \in Readings : Call(ctl_sensor(s_state, cfg, now, reading), cfg)
  BY DEF Tick
<1>3. CASE Call(s_state, cfg)
  BY <1>1, <1>3, CallPreserves
<1>4. ASSUME NEW reading \in Readings, Call(ctl_sensor(s_state, cfg, now, reading), cfg)
      PROVE  IInv'
  <2> DEFINE prepared == ctl_sensor(s_state, cfg, now, reading)
  <2>1. cfg \in Config /\ reading \in Reading
    BY EventsConstants
  <2>2. prepared \in CtlState /\ prepared.on = s_state.on
    BY <1>1, <2>1, SensorType, SensorFrame
  <2> HIDE DEF prepared
  <2>3. Call(prepared, cfg)
    BY <1>4 DEF prepared
  <2> QED BY <2>2, <2>3, CallPreserves
<1> QED BY <1>2, <1>3, <1>4

LEMMA CommandPreserves ==
  ASSUME IInv, Command
  PROVE  IInv'
<1>1. s_state \in CtlState /\ now \in Int
  BY EventsConstants DEF IInv, TypeOK
<1>2. PICK manual \in Manuals, duration_s \in Durations, cfg \in Configs :
        Call(ctl_manual(s_state, manual, duration_s, now), cfg)
  BY DEF Command
<1> DEFINE prepared == ctl_manual(s_state, manual, duration_s, now)
<1>3. duration_s \in Int
  BY EventsConstants
<1>4. prepared \in CtlState /\ prepared.on = s_state.on
  BY <1>1, <1>3, ManualType, ManualFrame
<1>5. Call(prepared, cfg)
  BY <1>2
<1> HIDE DEF prepared
<1> QED BY <1>4, <1>5, CallPreserves

LEMMA NextPreserves == IInv /\ [Next]_vars => IInv'
<1> SUFFICES ASSUME IInv, [Next]_vars PROVE IInv'
  OBVIOUS
<1>1. CASE Tick
  BY <1>1, TickPreserves
<1>2. CASE Command
  BY <1>2, CommandPreserves
<1>3. CASE events_publish
  BY <1>3, PublishPreservesAll
<1>4. CASE Clock
  <2>1. UNCHANGED <<s_state, unsent, ring>> /\ UNCHANGED feed
    BY <1>4 DEF Clock
  <2>2. now' \in 0..MaxTime
    BY <1>4, EventsConstants DEF Clock, IInv, TypeOK
  <2>3. TypeOK'
    BY <2>1, <2>2, LogFrame DEF IInv, TypeOK, feed
  <2>4. OnlyOnceStarted' /\ DocumentTellsPump' /\ RetainedTellsPump'
    BY <2>1 DEF IInv, OnlyOnceStarted, DocumentTellsPump, RetainedTellsPump, LockFree, feed
  <2> QED BY <2>1, <2>3, <2>4, LogFrame DEF IInv
<1>5. CASE Start
  <2>1. /\ UNCHANGED <<s_state, unsent, ring>> /\ now' = now /\ ~started /\ started' = TRUE
        /\ UNCHANGED <<signal, document, broker, retained, current>>
    BY <1>5 DEF Start, control
  <2>2. TypeOK'
    BY <2>1, LogFrame DEF IInv, TypeOK
  <2>3. OnlyOnceStarted' /\ DocumentTellsPump' /\ RetainedTellsPump'
    BY <2>1 DEF IInv, OnlyOnceStarted, DocumentTellsPump, RetainedTellsPump
  <2> QED BY <2>1, <2>2, <2>3, LogFrame DEF IInv
<1>6. CASE Build
  <2>1. /\ UNCHANGED <<s_state, unsent, ring>> /\ now' = now
        /\ UNCHANGED <<started, broker, retained, current>>
        /\ started /\ document' = api_status(s_state) /\ signal' = FALSE
    BY <1>6 DEF Build, control
  <2>2. document' \in Document
    BY <2>1 DEF IInv, TypeOK, api_status, Document, CtlState
  <2>3. document' # NoDocument
    BY <2>2, DocumentConstants
  <2>4. TypeOK'
    BY <2>1, <2>2, LogFrame DEF IInv, TypeOK
  <2>5. DocumentTellsPump'
    BY <2>1 DEF DocumentTellsPump, api_status
  <2>6. OnlyOnceStarted' /\ RetainedTellsPump'
    BY <2>1, <2>3 DEF OnlyOnceStarted, RetainedTellsPump
  <2> QED BY <2>1, <2>4, <2>5, <2>6, LogFrame DEF IInv
<1>7. CASE Send
  <2>1. /\ UNCHANGED <<s_state, unsent, ring>> /\ now' = now
        /\ UNCHANGED <<started, signal, broker>>
        /\ document # NoDocument /\ document' = NoDocument
        /\ retained' = (IF broker THEN document ELSE retained) /\ current' = broker
    BY <1>7 DEF Send, control
  <2>2. TypeOK'
    BY <2>1, LogFrame DEF IInv, TypeOK
  <2>3. OnlyOnceStarted' /\ DocumentTellsPump' /\ RetainedTellsPump'
    BY <2>1 DEF IInv, OnlyOnceStarted, DocumentTellsPump, RetainedTellsPump, LockFree
  <2> QED BY <2>1, <2>2, <2>3, LogFrame DEF IInv
<1>8. CASE Broker
  <2>1. /\ UNCHANGED <<s_state, unsent, ring>> /\ now' = now /\ broker' = ~broker
        /\ UNCHANGED <<started, signal, document, retained, current>>
    BY <1>8 DEF Broker, control
  <2>2. TypeOK'
    BY <2>1, LogFrame DEF IInv, TypeOK
  <2>3. OnlyOnceStarted' /\ DocumentTellsPump' /\ RetainedTellsPump'
    BY <2>1 DEF IInv, OnlyOnceStarted, DocumentTellsPump, RetainedTellsPump, LockFree
  <2> QED BY <2>1, <2>2, <2>3, LogFrame DEF IInv
<1>9. CASE Reset
  BY <1>9, ResetPreserves
<1>10. CASE UNCHANGED vars
  <2>1. UNCHANGED <<s_state, unsent, ring>> /\ now' = now /\ UNCHANGED feed
    BY <1>10 DEF vars, control
  <2>2. TypeOK'
    BY <2>1, LogFrame DEF IInv, TypeOK, feed
  <2>3. OnlyOnceStarted' /\ DocumentTellsPump' /\ RetainedTellsPump'
    BY <2>1 DEF IInv, OnlyOnceStarted, DocumentTellsPump, RetainedTellsPump, LockFree, feed
  <2> QED BY <2>1, <2>2, <2>3, LogFrame DEF IInv
<1> QED BY <1>1, <1>2, <1>3, <1>4, <1>5, <1>6, <1>7, <1>8, <1>9, <1>10 DEF Next

(* No step of the tasks, the client or a reset breaks the invariant.       *)
THEOREM Invariant == Spec => []IInv
  BY InitHolds, NextPreserves, PTL DEF Spec

LEMMA IInvTellsState == IInv => LogTellsState
<1> SUFFICES ASSUME IInv, LockFree PROVE LogTellsState
  BY DEF LogTellsState
<1> DEFINE types == {NewestAt(i).type : i \in 1..s_count}
<1>1. s_count \in Nat
  BY DEF IInv, TypeOK, RingInv, RingTypeOK
<1>2. IF s_count > 0 THEN NewestAt(1).pump = s_state.on ELSE ~s_state.on
  BY DEF IInv, LogWillTellPump
<1>3. \A type : ~Announces(type)
  BY DEF LockFree, Announces
<1>4. RingTells("overheat", s_state.overheat) /\ RingTells("sensor", s_state.sensor_failed)
  BY <1>3 DEF IInv, LogWillTell
<1>5. ASSUME NEW i \in 1..s_count, NewestOfType(i)
      PROVE  /\ NewestAt(i).type = "overheat" => NewestAt(i).on = s_state.overheat
             /\ NewestAt(i).type = "sensor" => NewestAt(i).on = s_state.sensor_failed
  BY <1>4, <1>5 DEF RingTells
<1>6. ASSUME s_count < EVENTS_RING_SIZE
      PROVE  /\ s_state.on => types # {}
             /\ s_state.overheat => "overheat" \in types
             /\ s_state.sensor_failed => "sensor" \in types
  <2>1. s_state.on => 1 \in 1..s_count
    <3>1. s_state.on \in BOOLEAN
      BY DEF IInv, TypeOK, CtlState
    <3>2. CASE s_count > 0
      BY <1>1, <3>2
    <3>3. CASE s_count = 0
      BY <1>2, <3>1, <3>3
    <3> QED BY <1>1, <3>2, <3>3
  <2>2. s_state.overheat => \E i \in 1..s_count : NewestAt(i).type = "overheat"
    BY <1>4, <1>6 DEF RingTells
  <2>3. s_state.sensor_failed => \E i \in 1..s_count : NewestAt(i).type = "sensor"
    BY <1>4, <1>6 DEF RingTells
  <2> QED BY <2>1, <2>2, <2>3
<1> QED BY <1>2, <1>5, <1>6 DEF LogTellsState

(* Whoever reads the log with s_lock free reads the truth: about the pump  *)
(* from the newest event, about the overheat and the sensor from the       *)
(* newest events of their types, and from a log that has not wrapped even  *)
(* that nothing happened.                                                  *)
THEOREM LogTellsTheState == Spec => []LogTellsState
  BY Invariant, IInvTellsState, PTL

(* A document that arrived keeps telling the pump's state until a newer    *)
(* one is signalled or on its way: no change is lost between the decision, *)
(* the signal, the copy of the state and the broker.                       *)
THEOREM RetainedTellsThePump == Spec => []RetainedTellsPump
<1>1. IInv => RetainedTellsPump
  BY DEF IInv
<1> QED BY <1>1, Invariant, PTL

(* Seen through events_recent, the whole module is a list of recent events:*)
(* the ring is touched by nothing but events_publish and a reset.          *)
THEOREM Refinement == Spec => LogKeepsRecent
<1>1. Init => RingInit
  BY DEF Init
<1>2. IInv /\ [Next]_vars => [RingNext]_ring
  <2> SUFFICES ASSUME IInv, [Next]_vars PROVE [RingNext]_ring
    OBVIOUS
  <2>1. CASE events_publish
    <3>1. Head(unsent) \in Event /\ Publish(Head(unsent))
      BY <2>1, HeadTailProperties DEF events_publish, IInv, TypeOK
    <3> QED BY <3>1 DEF RingNext
  <2>2. CASE Reset
    BY <2>2 DEF Reset, RingNext
  <2>3. CASE Tick
    BY <2>3 DEF Tick, Call
  <2>4. CASE Command
    BY <2>4 DEF Command, Call
  <2>5. CASE Clock \/ Start \/ Build \/ Send \/ Broker \/ UNCHANGED vars
    BY <2>5 DEF Clock, Start, Build, Send, Broker, vars
  <2> QED BY <2>1, <2>2, <2>3, <2>4, <2>5 DEF Next
<1> QED BY <1>1, <1>2, Invariant, RingKeepsRecent, PTL DEF Spec, RingSpec

=============================================================================
