------------------------------ MODULE Sampling -------------------------------
(***************************************************************************)
(* When the samples of the temperature history are taken, and where the    *)
(* app draws them.  The control task (control.c) reads the sensor every    *)
(* CONTROL_READ_PERIOD_S and keeps the first reading that comes            *)
(* HISTORY_PERIOD_S or more after the last one it kept; the app (app.html) *)
(* knows the time of the newest sample and puts the others exactly one     *)
(* period apart.  Stamps are whole seconds.                                *)
(***************************************************************************)
EXTENDS History

CONSTANTS
  CONTROL_READ_PERIOD_S,
  HISTORY_PERIOD_S,
  DELAY,     \* how long any step of the control task may be late
  MaxTime    \* bound on the clock

ASSUME SamplingConstants ==
  /\ CONTROL_READ_PERIOD_S \in Nat \ {0}
  /\ HISTORY_PERIOD_S \in Nat \ {0}
  /\ DELAY \in Nat
  /\ MaxTime \in Nat
  /\ 0..MaxTime \subseteq Temperatures   \* a reading stands for when it was taken

VARIABLES
  now,              \* the monotonic clock
  pc,               \* "wait" for the next read, "convert", "add" after the decision
  since,            \* when pc was entered
  now_s,            \* the stamp of this tick's reading
  next_read_s, next_history_s

task == <<pc, since, now_s, next_read_s, next_history_s>>
vars == <<now, task, history>>

-----------------------------------------------------------------------------
Init ==
  /\ now = 0
  /\ pc = "wait" /\ since = 0 /\ now_s = 0
  /\ next_read_s = 0 /\ next_history_s = 0
  /\ HistoryInit

(* The tick that finds a read due starts a conversion.                     *)
Read ==
  /\ pc = "wait"
  /\ now >= next_read_s
  /\ pc' = "convert" /\ since' = now
  /\ next_read_s' = now + CONTROL_READ_PERIOD_S
  /\ UNCHANGED <<now, now_s, next_history_s, history>>

(* The conversion ends and the clock is sampled again; the decision        *)
(* follows under s_lock.                                                   *)
Convert ==
  /\ pc = "convert"
  /\ pc' = "add" /\ since' = now
  /\ now_s' = now
  /\ UNCHANGED <<now, next_read_s, next_history_s, history>>

SlipNextHistory(stamp) == next_history_s + HISTORY_PERIOD_S

NextHistory(stamp) == stamp + HISTORY_PERIOD_S

SlipKeepsStrictly(stamp) == stamp > next_history_s

Keeps(stamp) == stamp >= next_history_s

(* The reading may be a failed one, and the pump either way.               *)
Keep ==
  /\ Keeps(now_s)
  /\ next_history_s' = NextHistory(now_s)
  /\ \E temp \in {now_s, HISTORY_NO_READING}, on \in BOOLEAN : history_add(now, temp, on)

Skip ==
  /\ ~Keeps(now_s)
  /\ UNCHANGED <<next_history_s, history>>

Add ==
  /\ pc = "add"
  /\ Keep \/ Skip
  /\ pc' = "wait" /\ since' = now
  /\ UNCHANGED <<now, now_s, next_read_s>>

(* When the step the task is in became possible.                           *)
Possible == IF pc = "wait" /\ since < next_read_s THEN next_read_s ELSE since

Clock ==
  /\ now < MaxTime
  /\ now < Possible + DELAY
  /\ now' = now + 1
  /\ UNCHANGED <<task, history>>

(* The clock, the schedule and the history are in RAM.                     *)
Reset ==
  /\ now' = 0
  /\ pc' = "wait" /\ since' = 0 /\ now_s' = 0
  /\ next_read_s' = 0 /\ next_history_s' = 0
  /\ HistoryRestart

Next == Read \/ Convert \/ Add \/ Clock \/ Reset

Spec == Init /\ [][Next]_vars

-----------------------------------------------------------------------------
(* How much later than it was taken the app draws the i-th newest sample,  *)
(* whose age it computes back from that of the newest one.                 *)
DrawnLate(i) == s_newest_mono_s - (i - 1) * HISTORY_PERIOD_S - Reversed[i].temp

Readable == {i \in 1..s_count : Reversed[i].temp # HISTORY_NO_READING}

(* No sample is drawn before it was taken, at whatever depth of the ring.  *)
NeverDrawnTooEarly == \A i \in Readable : DrawnLate(i) >= 0

(* How long a read that came just too early for a sample may hold up the   *)
(* next one: until it is due, or until this tick is through, and then for  *)
(* the two steps that lead to its stamp.                                   *)
Longer == IF DELAY > CONTROL_READ_PERIOD_S THEN DELAY ELSE CONTROL_READ_PERIOD_S

Slack == Longer + 2 * DELAY - 1

(* "One sample per HISTORY_PERIOD_S" (history.h) holds up to an error that *)
(* grows with the depth: each sample may have come Slack seconds later     *)
(* than the app assumes, a read period and the jitter of its tick.         *)
DrawnDrift == \A i \in Readable : DrawnLate(i) <= DELAY + (i - 1) * Slack

TypeOK ==
  /\ now \in 0..MaxTime
  /\ pc \in {"wait", "convert", "add"}
  /\ {since, now_s} \subseteq 0..now
  /\ {next_read_s, next_history_s} \subseteq Nat
  /\ HistoryTypeOK

(* The schedule of the ticks: how far the step the task is in can be from  *)
(* the read that is due, and the read that is due from the sample that is. *)
Schedule ==
  /\ pc = "wait" =>
       /\ now <= Possible + DELAY
       /\ s_count > 0 => Possible < next_history_s + Longer
  /\ pc # "wait" => now <= since + DELAY
  /\ pc = "convert" =>
       /\ next_read_s = since + CONTROL_READ_PERIOD_S
       /\ s_count > 0 => since < next_history_s + Longer + DELAY
  /\ pc = "add" =>
       /\ now_s = since
       /\ next_read_s <= now_s + CONTROL_READ_PERIOD_S
       /\ s_count > 0 => now_s < next_history_s + Longer + 2 * DELAY

(* The stamp of the sample kept last, once there is one.                   *)
LastStamp == next_history_s - HISTORY_PERIOD_S

(* Where the samples lie before it.                                        *)
Spacing ==
  /\ s_count > 0 => s_newest_mono_s - LastStamp \in 0..DELAY
  /\ \A i \in Readable :
       /\ Reversed[i].temp \in Nat
       /\ LastStamp - (i - 1) * HISTORY_PERIOD_S - Reversed[i].temp
            \in 0..((i - 1) * Slack)

(* The invariant that every step preserves.                                *)
IInv ==
  /\ TypeOK
  /\ Schedule
  /\ Spacing

=============================================================================
