------------------------------ MODULE EventRing ------------------------------
(***************************************************************************)
(* The ring of firmware/main/events.c.  Both operations run in the critical*)
(* section of s_mux, so each is one step.                                  *)
(***************************************************************************)
EXTENDS Integers, Sequences

CONSTANTS
  EVENTS_RING_SIZE,
  NoEvent     \* a slot of the ring that was never written

ASSUME RingConstants == EVENTS_RING_SIZE \in Nat \ {0}

VARIABLES
  s_ring, s_head, s_count,
  given   \* history: the event published last, or NoEvent

ring == <<s_ring, s_head, s_count, given>>

EventTypes == {"pump", "overheat", "sensor", "manual_end"}

(* The fields of event_t a property speaks of: what the event announces,   *)
(* and the pump's state, which every event carries.                        *)
Event == [type: EventTypes, on: BOOLEAN, pump: BOOLEAN]

RingSlots == 0..(EVENTS_RING_SIZE - 1)

RingInit ==
  /\ s_ring = [i \in RingSlots |-> NoEvent]
  /\ s_head = 0
  /\ s_count = 0
  /\ given = NoEvent

SlipCountPastSize(n) == n + 1

CountAfter(n) == IF n < EVENTS_RING_SIZE THEN n + 1 ELSE n

(* events_publish, up to the end of its critical section.                  *)
Publish(event) ==
  /\ s_ring' = [s_ring EXCEPT ![s_head] = event]
  /\ s_head' = (s_head + 1) % EVENTS_RING_SIZE
  /\ s_count' = CountAfter(s_count)
  /\ given' = event

(* A reset; events_init empties the ring again.                            *)
RingRestart ==
  /\ s_ring' = [i \in RingSlots |-> NoEvent]
  /\ s_head' = 0
  /\ s_count' = 0
  /\ given' = NoEvent

SlipNewestAt(i) == s_ring[(s_head + EVENTS_RING_SIZE - i + 1) % EVENTS_RING_SIZE]

(* The i-th newest event.                                                  *)
NewestAt(i) == s_ring[(s_head + EVENTS_RING_SIZE - i) % EVENTS_RING_SIZE]

(* Newest first, at most max of them.                                      *)
events_recent(max) ==
  [i \in 1..(IF s_count < max THEN s_count ELSE max) |-> NewestAt(i)]

RingNext == RingRestart \/ \E event \in Event : Publish(event)

RingSpec == RingInit /\ [][RingNext]_ring

-----------------------------------------------------------------------------
RingTypeOK ==
  /\ s_ring \in [RingSlots -> Event \cup {NoEvent}]
  /\ s_head \in RingSlots
  /\ s_count \in 0..EVENTS_RING_SIZE
  /\ given \in Event \cup {NoEvent}

(* The head follows the count until the ring is full: every slot a reader  *)
(* may reach has been written.                                             *)
Written ==
  /\ s_count < EVENTS_RING_SIZE => s_head = s_count
  /\ \A i \in RingSlots : i < s_count => s_ring[i] \in Event

RingInv == RingTypeOK /\ Written

(* A reader gets exactly the latest events, newest first, however often    *)
(* the ring has wrapped.                                                   *)
Promise == INSTANCE Recent WITH Items <- Event, Size <- EVENTS_RING_SIZE,
                                log <- events_recent(EVENTS_RING_SIZE)

LogKeepsRecent == Promise!Spec

=============================================================================
