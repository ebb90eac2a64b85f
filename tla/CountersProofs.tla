--------------------------- MODULE CountersProofs ----------------------------
(***************************************************************************)
(* Proofs about Counters and Ingest for every width, lag, calendar and     *)
(* bound: the run times are the lengths of the pump's runs, the starts add *)
(* up by days, and the server never stores a run time that wrapped.        *)
(***************************************************************************)
EXTENDS Ingest, TLAPS

(* Division with a remainder, and that the remainder is the only one.      *)
LEMMA Division ==
  ASSUME NEW M \in Nat \ {0}, NEW a \in Int
  PROVE  a % M \in 0..(M - 1) /\ a \div M \in Int /\ a = M * (a \div M) + (a % M)
  OBVIOUS

LEMMA OneRemainder ==
  ASSUME NEW M \in Nat \ {0}, NEW k \in Int, NEW x \in 0..(M - 1), NEW y \in 0..(M - 1),
         M * k = x - y
  PROVE  x = y
<1>1. CASE k = 0
  BY <1>1
<1>2. CASE k >= 1
  <2>1. M * k >= M
    BY <1>2
  <2> QED BY <2>1
<1>3. CASE k <= -1
  <2>1. M * k <= -M
    BY <1>3
  <2> QED BY <2>1
<1> QED BY <1>1, <1>2, <1>3

(* Wrapping a sum once or at every addition gives the same.                *)
LEMMA WrapSum ==
  ASSUME NEW M \in Nat \ {0}, NEW a \in Int, NEW e \in Int
  PROVE  ((a % M) + e) % M = (a + e) % M
<1> DEFINE r == a % M
           q == a \div M
           x == (r + e) % M
           y == (a + e) % M
<1>1. r \in Int /\ q \in Int /\ a = M * q + r
  BY Division
<1>2. x \in 0..(M - 1) /\ (r + e) \div M \in Int /\ r + e = M * ((r + e) \div M) + x
  <2>1. r + e \in Int
    BY <1>1
  <2> HIDE DEF r
  <2> QED BY <2>1, Division, Zenon
<1>3. y \in 0..(M - 1) /\ (a + e) \div M \in Int /\ a + e = M * ((a + e) \div M) + y
  <2>1. a + e \in Int
    OBVIOUS
  <2> QED BY <2>1, Division, Zenon
<1> DEFINE u == (r + e) \div M
           v == (a + e) \div M
<1>4. x - y = M * (v - q - u)
  <2> HIDE DEF r, q, x, y, u, v
  <2>1. u \in Int /\ v \in Int /\ r + e = M * u + x /\ a + e = M * v + y
    BY <1>2, <1>3 DEF u, v
  <2>2. M * (v - q - u) = M * v - M * q - M * u
    BY <1>1, <2>1
  <2>3. M * u \in Int /\ M * v \in Int /\ M * q \in Int
    BY <1>1, <2>1
  <2> QED BY <1>1, <1>2, <1>3, <2>1, <2>2, <2>3
<1> HIDE DEF r, q, x, y, u, v
<1>5. v - q - u \in Int
  BY <1>1, <1>2, <1>3 DEF u, v
<1>6. x = y
  BY <1>2, <1>3, <1>4, <1>5, OneRemainder
<1> QED BY <1>6 DEF x, y, r

(* The numbers of the invariant.                                           *)
Times ==
  /\ now \in Int /\ now >= 0
  /\ now_s \in Int /\ (now_s = NotSampled \/ (0 <= now_s /\ now_s <= now))
  /\ s_last_tick_s \in Int /\ 0 <= s_last_tick_s /\ s_last_tick_s <= now
  /\ since_s \in Int /\ 0 <= since_s /\ since_s <= now
  /\ banked_s \in Int /\ run_before_s \in Int
  /\ on \in BOOLEAN

Starts ==
  /\ s_starts_boot \in Int /\ s_starts_today \in Int
  /\ starts_before \in Int /\ 0 <= starts_before
  /\ StartsFit
  /\ StartsOfDay

LEMMA Numbers == IInv => Times /\ Starts
<1> SUFFICES ASSUME IInv PROVE Times /\ Starts
  OBVIOUS
<1>1. /\ COUNTER_MOD \in Nat \ {0} /\ MaxTime \in Nat
      /\ TypeOK /\ StartsFit /\ StartsOfDay
  BY CountersConstants DEF CountersConstants, IInv
<1>2. /\ s_starts_today \in Counter /\ s_starts_boot \in Counter
      /\ banked_s \in Int /\ run_before_s \in Int
  BY <1>1, Zenon DEF TypeOK
<1>3. now_s \in {NotSampled} \cup (0..now)
  BY <1>1 DEF TypeOK
<1>4. Times
  BY <1>1, <1>2, <1>3 DEF TypeOK, Times, NotSampled
<1>5. Starts
  BY <1>1, <1>2 DEF TypeOK, Starts, Counter
<1> QED BY <1>4, <1>5

LEMMA InitHolds == Init => IInv
<1> SUFFICES ASSUME Init PROVE IInv
  OBVIOUS
<1>1. COUNTER_MOD \in Nat \ {0} /\ 0 % COUNTER_MOD = 0 /\ MaxTime \in Nat /\ MaxStarts \in Nat
  <2>1. COUNTER_MOD \in Nat \ {0} /\ MaxTime \in Nat /\ MaxStarts \in 0..(COUNTER_MOD - 1)
    BY CountersConstants DEF CountersConstants
  <2> QED BY <2>1
<1>2. RuntimeIsRunLengths
  BY <1>1 DEF Init, RuntimeIsRunLengths, run_s
<1>3. TypeOK
  <2>1. on \in BOOLEAN
    BY DEF Init
  <2>2. {s_runtime_today_s, s_starts_today, s_runtime_boot_s, s_starts_boot} \subseteq Counter
    BY <1>1 DEF Init, Counter
  <2> QED BY <1>1, <2>1, <2>2 DEF Init, TypeOK, NotSampled, Counter
<1>4. StartsOfDay /\ StartsFit
  BY <1>1 DEF Init, StartsOfDay, StartsFit
<1> QED BY <1>2, <1>3, <1>4 DEF IInv

(***************************************************************************)
(* A call that counts up to stamp t and decides.                           *)
(***************************************************************************)

(* What the call does, without its abbreviations.                          *)
Counted(t, decided) ==
  /\ decided \in BOOLEAN
  /\ s_starts_boot + (IF decided /\ ~on THEN 1 ELSE 0) <= MaxStarts
  /\ s_today_yday' = IF NewDay THEN yday ELSE s_today_yday
  /\ s_runtime_today_s' = ((IF DayReset THEN 0 ELSE s_runtime_today_s) + Elapsed(t)) % COUNTER_MOD
  /\ s_runtime_boot_s' = (s_runtime_boot_s + Elapsed(t)) % COUNTER_MOD
  /\ s_last_tick_s' = t
  /\ s_starts_today' = ((IF DayReset THEN 0 ELSE s_starts_today)
                         + (IF decided /\ ~on THEN 1 ELSE 0)) % COUNTER_MOD
  /\ s_starts_boot' = (s_starts_boot + (IF decided /\ ~on THEN 1 ELSE 0)) % COUNTER_MOD
  /\ on' = decided
  /\ since_s' = IF ~on \/ s_last_tick_s = 0 THEN t ELSE since_s
  /\ banked_s' = IF on /\ (~decided \/ s_last_tick_s = 0)
                 THEN banked_s + (s_last_tick_s + Elapsed(t) - since_s) ELSE banked_s
  /\ starts_before' = IF DayReset THEN s_starts_boot ELSE starts_before
  /\ run_before_s' = IF DayReset THEN run_s ELSE run_before_s

LEMMA CallCounts ==
  ASSUME NEW t, CountAndDecide(t)
  PROVE  \E decided : Counted(t, decided)
  BY Zenon DEF CountAndDecide, Counted, Wrap, DayReset

(* The lengths of the runs grow by exactly what is counted, be it negative.*)
LEMMA RunGrows ==
  ASSUME Times, NEW t \in Int, NEW decided, Counted(t, decided)
  PROVE  /\ Elapsed(t) \in Int /\ run_s \in Int
         /\ run_s' = run_s + Elapsed(t)
         /\ since_s' \in Int /\ banked_s' \in Int /\ run_before_s' \in Int
<1>1. /\ on \in BOOLEAN /\ decided \in BOOLEAN
      /\ s_last_tick_s \in Int /\ s_last_tick_s >= 0
      /\ since_s \in Int /\ banked_s \in Int /\ run_before_s \in Int
  BY DEF Times, Counted
<1>2. Elapsed(t) \in Int /\ run_s \in Int
  BY <1>1 DEF Elapsed, run_s
<1>3. since_s' \in Int /\ banked_s' \in Int /\ run_before_s' \in Int
  BY <1>1, <1>2 DEF Counted
<1>4. run_s' = banked_s' + (IF decided THEN t - since_s' ELSE 0)
  BY DEF run_s, Counted
<1>5. CASE ~on
  BY <1>1, <1>4, <1>5 DEF Counted, Elapsed, run_s
<1>6. CASE on /\ s_last_tick_s = 0
  BY <1>1, <1>4, <1>6 DEF Counted, Elapsed, run_s
<1>7. CASE on /\ s_last_tick_s > 0
  <2>1. Elapsed(t) = t - s_last_tick_s /\ since_s' = since_s
    BY <1>1, <1>7 DEF Counted, Elapsed
  <2>2. banked_s' = IF decided THEN banked_s ELSE banked_s + (t - since_s)
    BY <1>1, <1>7, <2>1 DEF Counted
  <2>3. run_s = banked_s + (s_last_tick_s - since_s)
    BY <1>7 DEF run_s
  <2> QED BY <1>1, <1>2, <1>3, <1>4, <2>1, <2>2, <2>3
<1> QED BY <1>1, <1>2, <1>3, <1>5, <1>6, <1>7

LEMMA RuntimeKept ==
  ASSUME Times, RuntimeIsRunLengths, NEW t \in Int, NEW decided, Counted(t, decided)
  PROVE  RuntimeIsRunLengths'
<1> DEFINE e == Elapsed(t)
           M == COUNTER_MOD
<1>1. /\ M \in Nat \ {0}
      /\ e \in Int /\ run_s \in Int /\ run_s' = run_s + e
      /\ run_before_s \in Int
  BY CountersConstants, RunGrows DEF CountersConstants, Times
<1>2. s_runtime_boot_s' = (run_s' % M)
  <2>1. s_runtime_boot_s' = ((run_s % M) + e) % M
    BY DEF Counted, RuntimeIsRunLengths
  <2> HIDE DEF e, M
  <2> QED BY <1>1, <2>1, WrapSum
<1>3. s_runtime_today_s' = (run_s' - run_before_s') % M
  <2>1. CASE DayReset
    <3>1. s_runtime_today_s' = (0 + e) % M /\ run_before_s' = run_s
      BY <2>1 DEF Counted
    <3> HIDE DEF e, M
    <3>2. run_s' - run_before_s' = 0 + e
      BY <1>1, <3>1
    <3> QED BY <3>1, <3>2
  <2>2. CASE ~DayReset
    <3>1. s_runtime_today_s' = (((run_s - run_before_s) % M) + e) % M
          /\ run_before_s' = run_before_s
      BY <2>2 DEF Counted, RuntimeIsRunLengths
    <3> HIDE DEF e, M
    <3>2. run_s' - run_before_s' = (run_s - run_before_s) + e /\ run_s - run_before_s \in Int
      BY <1>1, <3>1
    <3>3. (((run_s - run_before_s) % M) + e) % M = ((run_s - run_before_s) + e) % M
      BY <1>1, <3>2, WrapSum, Zenon
    <3> QED BY <3>1, <3>2, <3>3, Zenon
  <2> QED BY <2>1, <2>2
<1> QED BY <1>2, <1>3 DEF RuntimeIsRunLengths

(* A number of starts below the bound is not wrapped.                      *)
LEMMA StartsKept ==
  ASSUME Starts, on \in BOOLEAN, NEW t, NEW decided, Counted(t, decided)
  PROVE  Starts'
<1> DEFINE start == IF decided /\ ~on THEN 1 ELSE 0
           before == IF DayReset THEN s_starts_boot ELSE starts_before
           today == IF DayReset THEN 0 ELSE s_starts_today
<1>1. start \in 0..1
  OBVIOUS
<1>2. /\ s_starts_boot \in Int /\ starts_before \in Int
      /\ s_starts_today = s_starts_boot - starts_before
      /\ 0 <= starts_before /\ starts_before <= s_starts_boot
      /\ s_starts_boot + start <= MaxStarts
  BY DEF Starts, StartsFit, StartsOfDay, Counted
<1>3. /\ COUNTER_MOD \in Nat \ {0} /\ MaxStarts \in Nat /\ MaxStarts < COUNTER_MOD
  BY CountersConstants DEF CountersConstants
<1>4. /\ before \in Int /\ today = s_starts_boot - before
      /\ 0 <= before /\ before <= s_starts_boot
  BY <1>2
<1>5. /\ s_starts_today' = (today + start) % COUNTER_MOD
      /\ s_starts_boot' = (s_starts_boot + start) % COUNTER_MOD
      /\ starts_before' = before
  BY DEF Counted
<1>6. s_starts_today' = today + start /\ s_starts_boot' = s_starts_boot + start
  <2> HIDE DEF start, before, today
  <2> QED BY <1>1, <1>2, <1>3, <1>4, <1>5
<1>7. s_today_yday' = NoDay => starts_before' = 0
  BY DEF Starts, StartsOfDay, Counted, NewDay, DayReset
<1> HIDE DEF start, before, today
<1> QED BY <1>1, <1>2, <1>4, <1>5, <1>6, <1>7 DEF Starts, StartsFit, StartsOfDay

(***************************************************************************)
(* The steps.                                                              *)
(***************************************************************************)

LEMMA CallPreserves ==
  ASSUME IInv, NEW t \in Int, 0 <= t, t <= now, CountAndDecide(t), UNCHANGED <<now, yday, pumped_s>>,
         now_s' = now_s \/ now_s' = NotSampled
  PROVE  IInv'
<1>1. PICK decided : Counted(t, decided)
  BY CallCounts
<1>2. Times /\ Starts /\ RuntimeIsRunLengths /\ TypeOK /\ on \in BOOLEAN
  BY Numbers DEF IInv, Times
<1>3. RuntimeIsRunLengths'
  BY <1>1, <1>2, RuntimeKept
<1>4. Starts'
  BY <1>1, <1>2, StartsKept
<1>5. TypeOK'
  <2>1. since_s' \in Int /\ banked_s' \in Int /\ run_before_s' \in Int
    BY <1>1, <1>2, RunGrows
  <2>2. s_last_tick_s' = t /\ on' \in BOOLEAN /\ since_s' \in 0..now'
    BY <1>1, <1>2 DEF Counted, Times
  <2>3. s_today_yday' \in Days \cup {NoDay}
    BY <1>1, <1>2 DEF Counted, TypeOK
  <2>4. {s_runtime_today_s', s_starts_today', s_runtime_boot_s', s_starts_boot'} \subseteq Counter
    <3>1. COUNTER_MOD \in Nat \ {0} /\ Elapsed(t) \in Int
      BY <1>1, <1>2, CountersConstants, RunGrows DEF CountersConstants
    <3>2. s_runtime_today_s \in Int /\ s_runtime_boot_s \in Int
      <4>1. s_runtime_today_s \in Counter /\ s_runtime_boot_s \in Counter
        BY <1>2, Zenon DEF TypeOK
      <4> QED BY <4>1, <3>1 DEF Counter
    <3>3. s_runtime_today_s' \in Counter /\ s_runtime_boot_s' \in Counter
      BY <1>1, <3>1, <3>2 DEF Counted, Counter
    <3>4. s_starts_today' \in Counter /\ s_starts_boot' \in Counter
      BY <1>1, <1>2, <3>1 DEF Counted, Counter, Starts
    <3> QED BY <3>3, <3>4
  <2>5. starts_before' \in Counter
    <3>1. s_starts_boot' \in Counter /\ 0 <= starts_before' /\ starts_before' \in Int
          /\ starts_before' <= s_starts_boot'
      BY <1>4, <2>4 DEF Starts, StartsFit
    <3> QED BY <3>1, CountersConstants DEF CountersConstants, Counter
  <2>6. now_s' \in {NotSampled} \cup (0..now')
    BY <1>2 DEF TypeOK
  <2> QED BY <1>2, <2>1, <2>2, <2>3, <2>4, <2>5, <2>6 DEF TypeOK, Times
<1> QED BY <1>3, <1>4, <1>5 DEF IInv, Starts

LEMMA NextPreserves == IInv /\ [Next]_vars => IInv'
<1> SUFFICES ASSUME IInv, [Next]_vars PROVE IInv'
  OBVIOUS
<1>1. CASE Tick
  <2>1. now_s \in Int /\ 0 <= now_s /\ now_s <= now
    BY <1>1, Numbers DEF Tick, Times
  <2> QED BY <1>1, <2>1, CallPreserves DEF Tick
<1>2. CASE Command
  <2>1. now \in Int /\ 0 <= now
    BY Numbers DEF Times
  <2> QED BY <1>2, <2>1, CallPreserves DEF Command
<1>3. CASE Sample \/ Clock \/ Day \/ UNCHANGED vars
  <2>1. /\ UNCHANGED <<on, counters, runs>>
        /\ run_s' = run_s
    BY <1>3 DEF Sample, Clock, Day, vars, counters, runs, run_s
  <2>2. RuntimeIsRunLengths' /\ StartsOfDay' /\ StartsFit'
    BY <2>1 DEF IInv, RuntimeIsRunLengths, StartsFit, StartsOfDay, counters, runs
  <2>3. /\ now' \in 0..MaxTime /\ now <= now'
        /\ now_s' \in {NotSampled} \cup (0..now')
        /\ yday' \in Days \cup {NoDay}
        /\ pumped_s' \in 0..now'
    <3>1. TypeOK /\ MaxTime \in Nat
      BY CountersConstants DEF CountersConstants, IInv
    <3>2. CASE Sample
      BY <3>1, <3>2 DEF Sample, TypeOK
    <3>3. CASE Clock
      BY <3>1, <3>3 DEF Clock, TypeOK
    <3>4. CASE Day \/ UNCHANGED vars
      BY <3>1, <3>4 DEF Day, vars, TypeOK
    <3> QED BY <1>3, <3>2, <3>3, <3>4
  <2>4. TypeOK'
    <3>1. TypeOK /\ Times
      BY Numbers DEF IInv
    <3>2. s_last_tick_s' \in 0..now' /\ since_s' \in 0..now'
      BY <2>1, <2>3, <3>1 DEF Times, counters, runs
    <3>3. {s_runtime_today_s, s_starts_today, s_runtime_boot_s, s_starts_boot}' \subseteq Counter
      BY <2>1, <3>1 DEF TypeOK, counters
    <3>4. starts_before' \in Counter /\ {banked_s', run_before_s'} \subseteq Int
          /\ on' \in BOOLEAN /\ s_today_yday' \in Days \cup {NoDay}
      BY <2>1, <3>1 DEF TypeOK, counters, runs
    <3> QED BY <2>3, <3>2, <3>3, <3>4 DEF TypeOK
  <2> QED BY <2>2, <2>4 DEF IInv
<1> QED BY <1>1, <1>2, <1>3 DEF Next

(* The counters keep their types, and add up, in every reachable state.    *)
THEOREM Invariant == Spec => []IInv
  BY InitHolds, NextPreserves, PTL DEF Spec

(* However old the stamps are and however often the counters wrap, the run *)
(* times are the lengths of the pump's runs, since boot and of the day.    *)
THEOREM RuntimeAddsUp == Spec => []RuntimeIsRunLengths
<1>1. IInv => RuntimeIsRunLengths
  BY DEF IInv
<1> QED BY <1>1, Invariant, PTL

(* The starts of the day are those since boot less those of earlier days.  *)
THEOREM StartsAddUp == Spec => []StartsOfDay
<1>1. IInv => StartsOfDay
  BY DEF IInv
<1> QED BY <1>1, Invariant, PTL

(***************************************************************************)
(* The counter against the time the pump really ran.                       *)
(***************************************************************************)

(* How far the counter will be off once an exact call has been counted.    *)
Error == run_s + uncounted_s - pumped_s

(* The stamp 0 may still come; until then every call was exact.            *)
FirstStamp == now = 0 \/ now_s = 0

NearInv ==
  /\ now_s # NotSampled => now <= now_s + LAG
  /\ on => s_starts_boot >= 1
  /\ FirstStamp => Error = 0
  /\ on /\ s_last_tick_s = 0 => Error <= 0
  /\ -(LAG * s_starts_boot + (IF on THEN 0 ELSE LAG)) <= Error
  /\ Error <= LAG * s_starts_boot

LEMMA CallKeepsNear ==
  ASSUME Times, Starts, pumped_s \in Int, NearInv,
         NEW t \in Int, NEW decided, Counted(t, decided), 0 <= t,
         now' = now, pumped_s' = pumped_s,
         \/ t = now /\ now_s' = now_s
         \/ t = now_s /\ now_s # NotSampled /\ now_s' = NotSampled
  PROVE  NearInv'
<1> DEFINE lag == now - t
           start == IF decided /\ ~on THEN 1 ELSE 0
           lost == IF Counting THEN lag ELSE 0
           won == IF decided /\ t > 0 THEN lag ELSE 0
           K == LAG * s_starts_boot
<1>1. /\ now \in Int /\ now_s \in Int /\ s_last_tick_s \in Int /\ s_starts_boot \in Int
      /\ on \in BOOLEAN /\ decided \in BOOLEAN /\ LAG \in Nat
      /\ s_last_tick_s >= 0 /\ s_starts_boot >= 0
  BY CountersConstants DEF CountersConstants, Times, Starts, StartsFit, Counted
<1>2. lag \in Int /\ 0 <= lag /\ lag <= LAG
  BY <1>1 DEF Times, NearInv
<1>3. Error \in Int /\ Error' = Error - lost + won
  <2>1. run_s \in Int /\ Elapsed(t) \in Int /\ run_s' = run_s + Elapsed(t)
    BY RunGrows
  <2>2. Elapsed(t) = IF Counting THEN t - s_last_tick_s ELSE 0
    BY DEF Elapsed, Counting
  <2>3. uncounted_s = IF Counting THEN now - s_last_tick_s ELSE 0
    BY DEF uncounted_s
  <2>4. uncounted_s' = IF decided /\ t > 0 THEN now - t ELSE 0
    BY DEF uncounted_s, Counting, Counted
  <2>5. PICK e, u, u2, run, run2 : /\ e = Elapsed(t) /\ u = uncounted_s /\ u2 = uncounted_s'
                                   /\ run = run_s /\ run2 = run_s'
    OBVIOUS
  <2>6. Error = run + u - pumped_s /\ Error' = run2 + u2 - pumped_s
    BY <2>5 DEF Error
  <2> QED BY <1>1, <2>1, <2>2, <2>3, <2>4, <2>5, <2>6
<1>4. s_starts_boot' = s_starts_boot + start
  <2>1. /\ COUNTER_MOD \in Nat \ {0} /\ MaxStarts \in Nat /\ MaxStarts < COUNTER_MOD
    BY CountersConstants DEF CountersConstants
  <2>2. /\ s_starts_boot' = (s_starts_boot + start) % COUNTER_MOD
        /\ s_starts_boot + start <= MaxStarts
    BY DEF Counted
  <2>3. start \in 0..1
    OBVIOUS
  <2> HIDE DEF start
  <2> QED BY <1>1, <2>1, <2>2, <2>3
<1>5. /\ K \in Int /\ K >= 0 /\ LAG * s_starts_boot' = K + LAG * start
      /\ s_starts_boot >= 1 => K >= LAG
  <2>1. start \in 0..1
    OBVIOUS
  <2> HIDE DEF start
  <2> QED BY <1>1, <1>4, <2>1
<1>6. /\ t = 0 => FirstStamp
      /\ FirstStamp' => FirstStamp /\ lag = 0
  BY <1>1 DEF FirstStamp, Times, NotSampled
<1>7. /\ on => s_starts_boot >= 1
      /\ FirstStamp => Error = 0
      /\ on /\ s_last_tick_s = 0 => Error <= 0
      /\ -(K + (IF on THEN 0 ELSE LAG)) <= Error
      /\ Error <= K
  BY DEF NearInv
<1>8. Counting <=> on /\ s_last_tick_s > 0
  BY DEF Counting
<1>9. on' = decided /\ s_last_tick_s' = t
  BY DEF Counted
<1>10. now_s' # NotSampled => now' <= now_s' + LAG
  BY <1>1 DEF NearInv
<1>11. on' => s_starts_boot' >= 1
  BY <1>1, <1>4, <1>7, <1>9
<1> HIDE DEF lag, K
<1>12. PICK error : error = Error'
  OBVIOUS
<1>13. FirstStamp' => error = 0
  BY <1>2, <1>3, <1>6, <1>7, <1>12
<1>14. decided /\ t = 0 => error <= 0
  BY <1>2, <1>3, <1>6, <1>7, <1>12
<1>15. -(K + LAG * start + (IF decided THEN 0 ELSE LAG)) <= error
  BY <1>1, <1>2, <1>3, <1>5, <1>6, <1>7, <1>8, <1>12
<1>16. error <= K + LAG * start
  BY <1>1, <1>2, <1>3, <1>5, <1>6, <1>7, <1>8, <1>12
<1> QED BY <1>5, <1>9, <1>10, <1>11, <1>12, <1>13, <1>14, <1>15, <1>16 DEF NearInv

LEMMA NearNext == IInv /\ NearInv /\ [Next]_vars => NearInv'
<1> SUFFICES ASSUME IInv, NearInv, [Next]_vars PROVE NearInv'
  OBVIOUS
<1>1. Times /\ Starts /\ now \in Int /\ now_s \in Int
  BY Numbers DEF Times
<1>2. pumped_s \in Int
  <2>1. pumped_s \in 0..now
    BY DEF IInv, TypeOK
  <2> QED BY <1>1, <2>1
<1>3. CASE Tick
  <2>1. PICK decided : Counted(now_s, decided)
    BY <1>3, CallCounts DEF Tick
  <2>2. 0 <= now_s
    BY <1>1, <1>3 DEF Tick, Times
  <2> QED BY <1>1, <1>2, <1>3, <2>1, <2>2, CallKeepsNear DEF Tick
<1>4. CASE Command
  <2>1. PICK decided : Counted(now, decided)
    BY <1>4, CallCounts DEF Command
  <2>2. 0 <= now
    BY <1>1 DEF Times
  <2> QED BY <1>1, <1>2, <1>4, <2>1, <2>2, CallKeepsNear DEF Command
<1>5. CASE Sample \/ Day \/ UNCHANGED vars
  <2>1. /\ now' = now /\ on' = on /\ s_starts_boot' = s_starts_boot
        /\ s_last_tick_s' = s_last_tick_s /\ Error' = Error
    BY <1>5 DEF Sample, Day, vars, counters, runs, Error, run_s, uncounted_s, Counting
  <2>2. now_s' = now_s \/ (now_s = NotSampled /\ now_s' = now)
    BY <1>5 DEF Sample, Day, vars
  <2>3. LAG \in Nat
    BY CountersConstants DEF CountersConstants
  <2>4. /\ now_s' # NotSampled => now' <= now_s' + LAG
        /\ FirstStamp' => FirstStamp
    BY <1>1, <2>1, <2>2, <2>3 DEF NearInv, FirstStamp
  <2> QED BY <2>1, <2>4 DEF NearInv
<1>6. CASE Clock
  <2>1. /\ now' = now + 1 /\ now_s' = now_s /\ on' = on /\ s_starts_boot' = s_starts_boot
        /\ s_last_tick_s' = s_last_tick_s /\ run_s' = run_s
        /\ pumped_s' = pumped_s + (IF Counting THEN 1 ELSE 0)
    <3>1. /\ now' = now + 1 /\ now_s' = now_s /\ UNCHANGED <<on, counters, runs>>
          /\ pumped_s' = pumped_s + (IF Counting THEN 1 ELSE 0)
      BY <1>6 DEF Clock
    <3> QED BY <3>1 DEF counters, runs, run_s
  <2>2. Error' = Error
    <3>1. run_s \in Int /\ s_last_tick_s \in Int
      BY <1>1 DEF Times, run_s
    <3>2. PICK run, u, u2, p2 : run = run_s /\ u = uncounted_s /\ u2 = uncounted_s' /\ p2 = pumped_s'
      OBVIOUS
    <3>3. Error = run + u - pumped_s /\ Error' = run + u2 - p2
      BY <2>1, <3>2 DEF Error
    <3>4. u = IF Counting THEN now - s_last_tick_s ELSE 0
      BY <3>2 DEF uncounted_s
    <3>5. u2 = IF Counting THEN (now + 1) - s_last_tick_s ELSE 0
      <4>1. u2 = IF on' /\ s_last_tick_s' > 0 THEN now' - s_last_tick_s' ELSE 0
        BY <3>2 DEF uncounted_s, Counting
      <4> QED BY <2>1, <4>1 DEF Counting
    <3> QED BY <1>1, <1>2, <2>1, <3>1, <3>2, <3>3, <3>4, <3>5
  <2>3. /\ now_s' # NotSampled => now' <= now_s' + LAG
        /\ FirstStamp' => FirstStamp
    <3>1. LAG \in Nat /\ 0 <= now
      BY <1>1, CountersConstants DEF CountersConstants, Times
    <3>2. now_s # NotSampled => now < now_s + LAG
      BY <1>6 DEF Clock
    <3> QED BY <1>1, <2>1, <3>1, <3>2 DEF FirstStamp
  <2> QED BY <2>1, <2>2, <2>3 DEF NearInv
<1> QED BY <1>3, <1>4, <1>5, <1>6 DEF Next

(* However the calls of the control task and of commands interleave, the   *)
(* run time since boot is off from the time the pump ran by at most a lag  *)
(* for each start and each stop, and one (count_runtime_locked in          *)
(* control.c).                                                             *)
THEOREM RuntimeIsNear == Spec => []RuntimeNearPumping
<1>1. Init => NearInv
  <2>1. LAG \in Nat
    BY CountersConstants DEF CountersConstants
  <2> QED BY <2>1 DEF Init, NearInv, Error, run_s, uncounted_s, Counting, FirstStamp, NotSampled
<1>2. IInv /\ NearInv => RuntimeNearPumping
  <2> SUFFICES ASSUME IInv, NearInv PROVE RuntimeNearPumping
    OBVIOUS
  <2>1. Times /\ Starts /\ LAG \in Nat /\ s_starts_boot \in Int /\ on \in BOOLEAN
    BY Numbers, CountersConstants DEF CountersConstants, Times, Starts
  <2>2. now \in Int /\ pumped_s \in Int /\ run_s \in Int /\ uncounted_s \in Int
    <3>1. pumped_s \in 0..now /\ now \in Int /\ s_last_tick_s \in Int
      BY <2>1 DEF IInv, TypeOK, Times
    <3> QED BY <2>1, <3>1 DEF Times, run_s, uncounted_s
  <2>3. LAG * (stops + 1) = LAG * s_starts_boot + (IF on THEN 0 ELSE LAG)
    <3>1. CASE on
      BY <2>1, <3>1 DEF stops
    <3>2. CASE ~on
      BY <2>1, <3>2 DEF stops
    <3> QED BY <3>1, <3>2
  <2>4. Error \in -(LAG * (stops + 1)) .. LAG * s_starts_boot
    <3>1. Error \in Int
      BY <2>2 DEF Error
    <3>2. LAG * s_starts_boot \in Int
      BY <2>1
    <3> QED BY <2>1, <2>3, <3>1, <3>2 DEF NearInv
  <2>5. pumped_s - uncounted_s + Error = run_s
    <3> HIDE DEF run_s, uncounted_s
    <3> QED BY <2>2 DEF Error
  <2> QED BY <2>4, <2>5 DEF RuntimeNearPumping, IInv, RuntimeIsRunLengths
<1> QED BY <1>1, <1>2, Invariant, NearNext, PTL DEF Spec

(***************************************************************************)
(* What the ingest stores.                                                 *)
(***************************************************************************)

(* The run time of the day without its counter.                            *)
Today == run_s - run_before_s

LEMMA TodayGrows ==
  ASSUME Times, NEW t \in Int, NEW decided, Counted(t, decided)
  PROVE  /\ Today \in Int /\ Elapsed(t) \in Int
         /\ Today' = (IF DayReset THEN 0 ELSE Today) + Elapsed(t)
<1>1. /\ Elapsed(t) \in Int /\ run_s \in Int /\ run_before_s \in Int
      /\ run_s' = run_s + Elapsed(t)
  BY RunGrows DEF Times
<1>2. run_before_s' = IF DayReset THEN run_s ELSE run_before_s
  BY DEF Counted
<1> QED BY <1>1, <1>2 DEF Today

(* A call with a stamp as old as the task's sample may take back what was  *)
(* counted since; afterwards the next stamp cannot be older than now.      *)
LEMMA BoundsKept ==
  ASSUME Times, RuntimeWithinStamps, NEW t \in Int, NEW decided, Counted(t, decided),
         now' = now,
         \/ t = now /\ now_s' = now_s
         \/ t = now_s /\ now_s # NotSampled /\ now_s' = NotSampled
  PROVE  RuntimeWithinStamps'
<1> DEFINE e == Elapsed(t)
           today == Today
           old == oldest_s
<1>1. /\ today \in Int /\ e \in Int
      /\ Today' = (IF DayReset THEN 0 ELSE today) + e
  BY TodayGrows
<1>2. e = 0 \/ e = t - s_last_tick_s
  BY DEF Elapsed
<1>3. /\ now \in Int /\ s_last_tick_s \in Int /\ 0 <= s_last_tick_s /\ s_last_tick_s <= now
      /\ old \in Int /\ 0 <= old /\ old <= now
  BY DEF Times, oldest_s, NotSampled
<1>4. -old <= today /\ today <= s_last_tick_s + old
  BY DEF RuntimeWithinStamps, Today
<1>5. s_last_tick_s' = t
  BY DEF Counted
<1>6. PICK new, today2 : new = oldest_s' /\ today2 = Today'
  OBVIOUS
<1>7. (t = now /\ new = old) \/ (t = old /\ new = now)
  BY <1>6 DEF Times, oldest_s
<1>8. today2 = today + e \/ today2 = e
  <2>1. CASE DayReset
    <3> HIDE DEF e
    <3> QED BY <1>1, <1>6, <2>1
  <2>2. CASE ~DayReset
    BY <1>1, <1>6, <2>2
  <2> QED BY <2>1, <2>2
<1>9. -new <= today2 /\ today2 <= t + new
  <2> HIDE DEF e, today, old
  <2> QED BY <1>1, <1>2, <1>3, <1>4, <1>7, <1>8
<1>10. -oldest_s' <= Today' /\ Today' <= s_last_tick_s' + oldest_s'
  BY <1>5, <1>6, <1>9
<1> QED BY <1>10 DEF RuntimeWithinStamps, Today

LEMMA BoundsNext == IInv /\ RuntimeWithinStamps /\ [Next]_vars => RuntimeWithinStamps'
<1> SUFFICES ASSUME IInv, RuntimeWithinStamps, [Next]_vars PROVE RuntimeWithinStamps'
  OBVIOUS
<1>1. Times /\ now \in Int /\ now_s \in Int
  BY Numbers DEF Times
<1>2. CASE Tick
  <2>1. PICK decided : Counted(now_s, decided)
    BY <1>2, CallCounts DEF Tick
  <2> QED BY <1>1, <1>2, <2>1, BoundsKept DEF Tick
<1>3. CASE Command
  <2>1. PICK decided : Counted(now, decided)
    BY <1>3, CallCounts DEF Command
  <2> QED BY <1>1, <1>3, <2>1, BoundsKept DEF Command
<1>4. CASE Sample \/ Clock \/ Day \/ UNCHANGED vars
  <2>1. /\ run_s' = run_s /\ run_before_s' = run_before_s
        /\ s_last_tick_s' = s_last_tick_s
    BY <1>4 DEF Sample, Clock, Day, vars, counters, runs, run_s
  <2>2. oldest_s \in Int /\ oldest_s' \in Int /\ oldest_s <= oldest_s'
    <3>1. CASE Sample
      BY <1>1, <3>1 DEF Sample, oldest_s, Times, NotSampled
    <3>2. CASE Clock
      BY <1>1, <3>2 DEF Clock, oldest_s, Times, NotSampled
    <3>3. CASE Day \/ UNCHANGED vars
      BY <1>1, <3>3 DEF Day, vars, oldest_s
    <3> QED BY <1>4, <3>1, <3>2, <3>3
  <2>3. run_s \in Int /\ run_before_s \in Int /\ s_last_tick_s \in Int
    BY <1>1 DEF Times, run_s
  <2>4. -oldest_s <= run_s - run_before_s /\ run_s - run_before_s <= s_last_tick_s + oldest_s
    BY DEF RuntimeWithinStamps
  <2> HIDE DEF run_s, oldest_s
  <2>5. -oldest_s' <= run_s - run_before_s /\ run_s - run_before_s <= s_last_tick_s + oldest_s'
    <3>1. PICK old, today : old = oldest_s' /\ today = run_s - run_before_s
      OBVIOUS
    <3>2. oldest_s \in Int /\ old \in Int /\ oldest_s <= old /\ today \in Int
      BY <2>2, <2>3, <3>1
    <3>3. -oldest_s <= today /\ today <= s_last_tick_s + oldest_s
      BY <2>4, <3>1
    <3>4. -old <= today /\ today <= s_last_tick_s + old
      BY <2>3, <3>2, <3>3
    <3> QED BY <3>1, <3>4
  <2> QED BY <2>1, <2>5 DEF RuntimeWithinStamps
<1> QED BY <1>2, <1>3, <1>4 DEF Next

(* However many commands come between a sample and its tick, the run time  *)
(* of the day stays between minus the oldest stamp to come and that stamp  *)
(* plus the last one (count_runtime_locked in control.c).  Both are of the *)
(* order of the uptime; RuntimeIsNear is the close bound.                  *)
THEOREM DayWithinUptime == Spec => []IngestInv
<1>1. Init => RuntimeWithinStamps
  BY DEF Init, RuntimeWithinStamps, oldest_s, run_s, NotSampled
<1>2. IInv /\ RuntimeWithinStamps <=> IngestInv
  BY DEF IngestInv
<1> QED BY <1>1, <1>2, Invariant, BoundsNext, PTL DEF Spec

(* A wrapped number is close to the width of the counter, too long for a   *)
(* day: what parse accepts is the true run time, in every reachable state. *)
THEOREM StoredIsTheRunTime == Spec => []StoredIsRunTime
<1>1. IngestInv => StoredIsRunTime
  <2> SUFFICES ASSUME IInv, RuntimeWithinStamps, Parsed(s_runtime_today_s)
               PROVE  s_runtime_today_s = run_s - run_before_s
    BY DEF StoredIsRunTime, IngestInv
  <2>1. /\ COUNTER_MOD \in Nat \ {0} /\ RUNTIME_MAX \in Nat
        /\ RUNTIME_MAX + MaxTime < COUNTER_MOD /\ 2 * MaxTime < COUNTER_MOD
    BY CountersConstants, IngestConstants DEF CountersConstants, IngestConstants
  <2>2. /\ now \in 0..MaxTime /\ MaxTime \in Nat
        /\ s_last_tick_s \in Int /\ 0 <= s_last_tick_s /\ s_last_tick_s <= now
        /\ oldest_s \in Int /\ 0 <= oldest_s /\ oldest_s <= now
    BY Numbers, CountersConstants DEF CountersConstants, Times, IInv, TypeOK, oldest_s, NotSampled
  <2>3. Today \in Int
    BY Numbers DEF Times, Today, run_s
  <2>4. -MaxTime <= Today /\ Today <= 2 * MaxTime
    <3>1. -oldest_s <= Today /\ Today <= s_last_tick_s + oldest_s
      BY DEF RuntimeWithinStamps, Today
    <3> QED BY <2>2, <2>3, <3>1
  <2>5. s_runtime_today_s = Today % COUNTER_MOD /\ s_runtime_today_s <= RUNTIME_MAX
    BY DEF IInv, RuntimeIsRunLengths, Today, Parsed
  <2>6. Today >= 0
    <3>1. CASE Today < 0
      <4>1. Today % COUNTER_MOD = Today + COUNTER_MOD
        BY <2>1, <2>2, <2>3, <2>4, <3>1
      <4> QED BY <2>1, <2>2, <2>3, <2>4, <2>5, <4>1
    <3> QED BY <2>3, <3>1
  <2> QED BY <2>1, <2>2, <2>3, <2>4, <2>5, <2>6 DEF Today
<1> QED BY <1>1, DayWithinUptime, PTL

=============================================================================
