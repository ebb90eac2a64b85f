------------------------------ MODULE Counters ------------------------------
(***************************************************************************)
(* The run-time and start counters of control.c, as its two callers bring  *)
(* them up to date: the control task with a stamp it sampled before it     *)
(* waited for s_lock, a manual command with a stamp taken under the lock.  *)
(* Stamps are signed, the counters are unsigned and wrap; the local day is *)
(* known once the clock is synchronised.                                   *)
(***************************************************************************)
EXTENDS Integers

CONSTANTS
  COUNTER_MOD,  \* the counters count modulo this (2^32)
  LAG,          \* how old the control task's stamp may be when it is used
  Days,         \* the days of the year that are met
  MaxTime,      \* bound on the clock
  MaxStarts     \* bound on the pump starts; the counters of starts do not wrap

ASSUME CountersConstants ==
  /\ COUNTER_MOD \in Nat \ {0}
  /\ LAG \in Nat
  /\ Days \subseteq Nat
  /\ MaxTime \in Nat
  /\ MaxStarts \in 0..(COUNTER_MOD - 1)

NoDay == -1
NotSampled == -1

VARIABLES
  now,               \* monotonic seconds since boot
  yday,              \* the local day, NoDay while not synchronised
  now_s,             \* the control task's sample, or NotSampled
  on,                \* the pump
  s_last_tick_s,
  s_today_yday,
  s_runtime_today_s, s_starts_today,
  s_runtime_boot_s, s_starts_boot,
  since_s,           \* history: the stamp this run of the pump counts from
  banked_s,          \* history: the lengths of the finished runs, not wrapped
  starts_before,     \* history: the starts before the day being counted
  run_before_s,      \* history: run_s when the day being counted began
  pumped_s           \* history: how long the pump ran while it was counted, by no stamp

counters == <<s_last_tick_s, s_today_yday, s_runtime_today_s, s_starts_today,
              s_runtime_boot_s, s_starts_boot>>
runs == <<since_s, banked_s, starts_before, run_before_s>>
vars == <<now, yday, now_s, on, counters, runs, pumped_s>>

-----------------------------------------------------------------------------
Init ==
  /\ now = 0 /\ yday = NoDay /\ now_s = NotSampled /\ on = FALSE
  /\ s_last_tick_s = 0 /\ s_today_yday = NoDay
  /\ s_runtime_today_s = 0 /\ s_starts_today = 0
  /\ s_runtime_boot_s = 0 /\ s_starts_boot = 0
  /\ since_s = 0 /\ banked_s = 0 /\ starts_before = 0 /\ run_before_s = 0
  /\ pumped_s = 0

SlipNoWrap(x) == x

Wrap(x) == x % COUNTER_MOD

(* A day that follows another one resets the counters of the day; the      *)
(* first day inherits what was counted before it was known.                *)
NewDay == yday # NoDay /\ yday # s_today_yday
SlipResetOnAnyDay == NewDay

DayReset == NewDay /\ s_today_yday # NoDay

SlipElapsedNeverBack(t) ==
  IF on /\ s_last_tick_s > 0 /\ t > s_last_tick_s THEN t - s_last_tick_s ELSE 0

SlipElapsedWhileOff(t) == IF s_last_tick_s > 0 THEN t - s_last_tick_s ELSE 0

Elapsed(t) == IF on /\ s_last_tick_s > 0 THEN t - s_last_tick_s ELSE 0

(* The lengths of the pump's runs, not wrapped.                            *)
run_s == banked_s + (IF on THEN s_last_tick_s - since_s ELSE 0)

(* count_runtime_locked at stamp t, then the decision switches the pump or *)
(* leaves it.                                                              *)
CountAndDecide(t) ==
  \E decided \in BOOLEAN :
    LET start == IF decided /\ ~on THEN 1 ELSE 0
        today == IF DayReset THEN 0 ELSE s_runtime_today_s
        starts == IF DayReset THEN 0 ELSE s_starts_today
    IN  /\ s_starts_boot + start <= MaxStarts
        /\ s_today_yday' = IF NewDay THEN yday ELSE s_today_yday
        /\ s_runtime_today_s' = Wrap(today + Elapsed(t))
        /\ s_runtime_boot_s' = Wrap(s_runtime_boot_s + Elapsed(t))
        /\ s_last_tick_s' = t
        /\ s_starts_today' = Wrap(starts + start)
        /\ s_starts_boot' = Wrap(s_starts_boot + start)
        /\ on' = decided
        /\ since_s' = IF ~on \/ s_last_tick_s = 0 THEN t ELSE since_s
        /\ banked_s' = IF on /\ (~decided \/ s_last_tick_s = 0)
                       THEN banked_s + (s_last_tick_s + Elapsed(t) - since_s) ELSE banked_s
        /\ starts_before' = IF NewDay /\ s_today_yday # NoDay THEN s_starts_boot ELSE starts_before
        /\ run_before_s' = IF NewDay /\ s_today_yday # NoDay THEN run_s ELSE run_before_s

(* The control task samples the clock, and later takes the lock.           *)
Sample ==
  /\ now_s = NotSampled
  /\ now_s' = now
  /\ UNCHANGED <<now, yday, on, counters, runs, pumped_s>>

Tick ==
  /\ now_s # NotSampled
  /\ CountAndDecide(now_s)
  /\ now_s' = NotSampled
  /\ UNCHANGED <<now, yday, pumped_s>>

Command ==
  /\ CountAndDecide(now)
  /\ UNCHANGED <<now, yday, now_s, pumped_s>>

(* A pump switched on at stamp 0 is not counted before its next call.      *)
Counting == on /\ s_last_tick_s > 0

Clock ==
  /\ now < MaxTime
  /\ now_s # NotSampled => now < now_s + LAG
  /\ now' = now + 1
  /\ pumped_s' = pumped_s + (IF Counting THEN 1 ELSE 0)
  /\ UNCHANGED <<yday, now_s, on, counters, runs>>

(* The clock is synchronised, midnight passes, or the clock is corrected.  *)
Day ==
  /\ yday' \in Days
  /\ UNCHANGED <<now, now_s, on, counters, runs, pumped_s>>

Next == Sample \/ Tick \/ Command \/ Clock \/ Day

Spec == Init /\ [][Next]_vars

-----------------------------------------------------------------------------
Counter == 0..(COUNTER_MOD - 1)

TypeOK ==
  /\ now \in 0..MaxTime
  /\ yday \in Days \cup {NoDay} /\ s_today_yday \in Days \cup {NoDay}
  /\ now_s \in {NotSampled} \cup (0..now)
  /\ on \in BOOLEAN
  /\ s_last_tick_s \in 0..now /\ since_s \in 0..now
  /\ {s_runtime_today_s, s_starts_today, s_runtime_boot_s, s_starts_boot} \subseteq Counter
  /\ {banked_s, run_before_s} \subseteq Int
  /\ starts_before \in Counter
  /\ pumped_s \in 0..now

(* Stale stamps cancel out: modulo the counters' width, the run time since *)
(* boot is the sum of the lengths of the pump's runs, each from the stamp  *)
(* of its start to the stamp of its end, whatever was counted in between   *)
(* (what passes after a stamp of 0 is not counted and cuts a run in two).  *)
RuntimeIsRunLengths ==
  /\ s_runtime_boot_s = run_s % COUNTER_MOD
  /\ s_runtime_today_s = (run_s - run_before_s) % COUNTER_MOD

(* What the next exact call will add.                                      *)
uncounted_s == IF Counting THEN now - s_last_tick_s ELSE 0

stops == s_starts_boot - (IF on THEN 1 ELSE 0)

(* However many stale calls there are, the counter is off from the time    *)
(* the pump really ran by at most a lag for each start, which a stale      *)
(* stamp dates back, and a lag for each stop; and one lag for a late call  *)
(* with the stamp 0, after which nothing is counted.                       *)
RuntimeNearPumping ==
  \E error \in -(LAG * (stops + 1)) .. LAG * s_starts_boot :
    s_runtime_boot_s = (pumped_s - uncounted_s + error) % COUNTER_MOD

(* The starts of the day are the starts since boot less those of the days  *)
(* before, and a day whose date is not known yet is never cut off.         *)
StartsOfDay ==
  /\ s_starts_today = s_starts_boot - starts_before
  /\ s_today_yday = NoDay => starts_before = 0

(* The starts fit their counters.                                          *)
StartsFit == s_starts_boot <= MaxStarts /\ starts_before <= s_starts_boot

(* The invariant that every step preserves.                                *)
IInv ==
  /\ TypeOK
  /\ RuntimeIsRunLengths
  /\ StartsOfDay
  /\ StartsFit

(* "local day once the clock is synced, since boot before that"            *)
(* (control.h): before the clock is synchronised the pump cannot have run  *)
(* for longer than the board.                                              *)
RuntimeWithinUptime == s_today_yday = NoDay => s_runtime_today_s <= now

=============================================================================
