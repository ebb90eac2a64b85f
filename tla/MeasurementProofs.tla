-------------------------- MODULE MeasurementProofs ---------------------------
(***************************************************************************)
(* The temperature on its way from the sensor to the chart: a swapped      *)
(* sensor is found again and never goes unnoticed, the history gives its   *)
(* readers the latest samples, each with its own pump bit, and the app     *)
(* draws them neither before they were taken nor too long after.  For      *)
(* every period, delay, depth and byte width.                              *)
(***************************************************************************)
EXTENDS Sampling, TempSensor, ControlLogicProofs

(***************************************************************************)
(* The history by itself.                                                  *)
(***************************************************************************)
(* The remainder of a number below twice the divisor.                      *)
LEMMA ModBelow ==
  ASSUME NEW N \in Nat \ {0}, NEW x \in 0..(N - 1)
  PROVE  x % N = x
  OBVIOUS

LEMMA ModOnceAround ==
  ASSUME NEW N \in Nat \ {0}, NEW x \in N..(2 * N - 1)
  PROVE  x % N = x - N
  OBVIOUS

(* The head after one more sample.                                         *)
LEMMA HeadAfter ==
  ASSUME NEW N \in Nat \ {0}, NEW h \in 0..(N - 1)
  PROVE  (h + 1) % N = IF h + 1 < N THEN h + 1 ELSE 0
  BY ModBelow, ModOnceAround

(* The slot of the j-th of the last n samples, counted from the newest.    *)
LEMMA SlotFromNewest ==
  ASSUME NEW N \in Nat \ {0}, NEW h \in 0..(N - 1), NEW n \in 0..N, NEW j \in 1..n
  PROVE  (((h + N - n) % N) + (n + 1 - j) - 1) % N = IF j <= h THEN h - j ELSE h + N - j
<1>1. CASE n > h
  <2>1. (h + N - n) % N = h + N - n
    BY <1>1, ModBelow
  <2>2. ((h + N - n) % N) + (n + 1 - j) - 1 = h + N - j
    BY <2>1
  <2>3. CASE j <= h
    <3>1. h + N - j \in N..(2 * N - 1)
      BY <2>3
    <3>2. (h + N - j) % N = h - j
      BY <3>1, ModOnceAround
    <3> QED BY <2>2, <2>3, <3>2
  <2>4. CASE j > h
    BY <2>2, <2>4, ModBelow
  <2> QED BY <2>3, <2>4
<1>2. CASE n <= h
  <2>1. (h + N - n) % N = h - n
    BY <1>2, ModOnceAround
  <2>2. ((h + N - n) % N) + (n + 1 - j) - 1 = h - j
    BY <2>1
  <2> QED BY <1>2, <2>2, ModBelow
<1> QED BY <1>1, <1>2

(* A slot has a byte of its own or a bit of its own.                       *)
LEMMA DivMod ==
  ASSUME NEW B \in Nat \ {0}, NEW x \in Nat
  PROVE  x \div B \in Nat /\ x % B \in 0..(B - 1) /\ x = B * (x \div B) + (x % B)
  OBVIOUS

LEMMA BitIsOwn ==
  ASSUME NEW B \in Nat \ {0}, NEW x \in Nat, NEW y \in Nat,
         x \div B = y \div B, x % B = y % B
  PROVE  x = y
  BY DivMod

LEMMA ByteExists ==
  ASSUME NEW N \in Nat \ {0}, NEW B \in Nat \ {0}, NEW x \in 0..(N - 1)
  PROVE  x \div B \in 0..((N + B - 1) \div B - 1)
<1> DEFINE q == x \div B
           m == (N + B - 1) \div B
<1>1. q \in Nat /\ m \in Nat /\ B * q <= x
  BY DivMod
<1>2. N + B - 1 = B * m + ((N + B - 1) % B) /\ (N + B - 1) % B \in 0..(B - 1)
  BY DivMod
<1>3. N <= B * m
  BY <1>1, <1>2
<1>4. B * q < B * m
  BY <1>1, <1>3
<1>5. q < m
  BY <1>1, <1>4
<1> QED BY <1>1, <1>5

-----------------------------------------------------------------------------
(* Where the j-th sample from the newest is, when the head is at h.        *)
SlotOf(h, j) == IF j <= h THEN h - j ELSE h + HISTORY_SAMPLES - j

LEMMA SlotExists ==
  ASSUME NEW h \in Slots, NEW j \in 1..HISTORY_SAMPLES
  PROVE  SlotOf(h, j) \in Slots
<1>1. HISTORY_SAMPLES \in Nat /\ h \in 0..(HISTORY_SAMPLES - 1)
  BY HistoryConstants DEF Slots
<1> QED BY <1>1 DEF SlotOf, Slots

LEMMA HistoryInitHolds == HistoryInit => HistoryTypeOK
  BY HistoryConstants DEF HistoryInit, HistoryTypeOK, Slots, Bytes, Temps, Sample

LEMMA HistoryNextPreserves == HistoryTypeOK /\ [HistoryNext]_history => HistoryTypeOK'
<1> SUFFICES ASSUME HistoryTypeOK, [HistoryNext]_history PROVE HistoryTypeOK'
  OBVIOUS
<1>1. ASSUME NEW t \in Nat, NEW temp \in Temps, NEW on \in BOOLEAN, history_add(t, temp, on) PROVE HistoryTypeOK'
  <2>1. s_temps' \in [Slots -> Temps] /\ given' \in Sample /\ s_newest_mono_s' \in Nat
    BY <1>1 DEF history_add, HistoryTypeOK, Sample
  <2>2. s_pump' \in [Bytes -> SUBSET (0..(BITS - 1))]
    <3>1. s_head % BITS \in 0..(BITS - 1)
      BY HistoryConstants, DivMod DEF HistoryTypeOK, Slots
    <3>2. ASSUME NEW b \in Bytes
          PROVE  SetBit(s_pump[b], s_head % BITS, on) \in SUBSET (0..(BITS - 1))
      BY <3>1 DEF SetBit, HistoryTypeOK
    <3> QED BY <1>1, <3>2 DEF history_add, HistoryTypeOK
  <2>3. s_head' = IF s_head + 1 < HISTORY_SAMPLES THEN s_head + 1 ELSE 0
    BY <1>1, HeadAfter, HistoryConstants DEF history_add, After, HistoryTypeOK, Slots
  <2>4. s_head' \in Slots
    BY <2>3, HistoryConstants DEF HistoryTypeOK, Slots
  <2>5. s_count' \in 0..HISTORY_SAMPLES
    BY <1>1, HistoryConstants DEF history_add, HistoryTypeOK
  <2>6. s_count' < HISTORY_SAMPLES => s_head' = s_count'
    BY <1>1, <2>3, HistoryConstants DEF history_add, HistoryTypeOK, Slots
  <2> QED BY <2>1, <2>2, <2>4, <2>5, <2>6 DEF HistoryTypeOK
<1>2. CASE HistoryRestart
  BY <1>2, HistoryConstants DEF HistoryRestart, HistoryTypeOK, Slots, Bytes, Temps, Sample
<1>3. CASE UNCHANGED history
  BY <1>3 DEF history, HistoryTypeOK
<1> QED BY <1>1, <1>2, <1>3 DEF HistoryNext

(* The head, the count and both rings stay within their arrays.            *)
THEOREM HistoryIsValid == HistorySpec => []HistoryTypeOK
  BY HistoryInitHolds, HistoryNextPreserves, PTL DEF HistorySpec

-----------------------------------------------------------------------------
(* Adding a sample changes one slot: the neighbours' bits in its byte stay.*)
LEMMA AddWritesOneSlot ==
  ASSUME HistoryTypeOK, NEW t \in Nat, NEW temp \in Temps, NEW on \in BOOLEAN,
         history_add(t, temp, on), NEW idx \in Slots
  PROVE  SampleAt(idx)' = IF idx = s_head THEN [temp |-> temp, on |-> on] ELSE SampleAt(idx)
<1>1. s_temps'[idx] = IF idx = s_head THEN temp ELSE s_temps[idx]
  BY DEF history_add, HistoryTypeOK
<1>2. idx \div BITS \in Bytes /\ s_head \div BITS \in Bytes
  BY HistoryConstants, ByteExists DEF HistoryTypeOK, Slots, Bytes
<1>3. s_pump'[idx \div BITS] =
        IF idx \div BITS = s_head \div BITS
        THEN SetBit(s_pump[idx \div BITS], s_head % BITS, on) ELSE s_pump[idx \div BITS]
  BY <1>2 DEF history_add, HistoryTypeOK
<1>4. CASE idx = s_head
  <2>1. (idx % BITS \in s_pump'[idx \div BITS]) = on
    BY <1>3, <1>4 DEF SetBit
  <2> QED BY <1>1, <1>4, <2>1 DEF SampleAt
<1>5. CASE idx # s_head
  <2>1. ~(idx \div BITS = s_head \div BITS /\ idx % BITS = s_head % BITS)
    <3>1. idx \in Nat /\ s_head \in Nat /\ BITS \in Nat \ {0}
      BY HistoryConstants DEF HistoryTypeOK, Slots
    <3> QED BY <1>5, <3>1, BitIsOwn
  <2>2. (idx % BITS \in s_pump'[idx \div BITS]) = (idx % BITS \in s_pump[idx \div BITS])
    BY <1>3, <2>1 DEF SetBit
  <2> QED BY <1>1, <1>5, <2>2 DEF SampleAt
<1> QED BY <1>4, <1>5

(* A reader of the whole ring, seen from the newest sample.                *)
LEMMA ReversedIs ==
  HistoryTypeOK => Reversed = [i \in 1..s_count |-> SampleAt(SlotOf(s_head, i))]
<1> SUFFICES ASSUME HistoryTypeOK
             PROVE  Reversed = [i \in 1..s_count |-> SampleAt(SlotOf(s_head, i))]
  OBVIOUS
<1> DEFINE N == HISTORY_SAMPLES
           start == (s_head + N - s_count) % N
<1>1. history_copy(N) = [i \in 1..s_count |-> SampleAt((start + i - 1) % N)]
  BY HistoryConstants DEF history_copy, HistoryTypeOK
<1>2. ASSUME NEW i \in 1..s_count
      PROVE  history_copy(N)[s_count + 1 - i] = SampleAt(SlotOf(s_head, i))
  <2>1. s_count + 1 - i \in 1..s_count
    BY DEF HistoryTypeOK
  <2>2. (start + (s_count + 1 - i) - 1) % N = SlotOf(s_head, i)
    BY HistoryConstants, SlotFromNewest DEF HistoryTypeOK, Slots, SlotOf
  <2> QED BY <1>1, <2>1, <2>2
<1> QED BY <1>2 DEF Reversed

LEMMA AddRefines ==
  ASSUME HistoryTypeOK, HistoryTypeOK', NEW t \in Nat, NEW temp \in Temps,
         NEW on \in BOOLEAN, history_add(t, temp, on)
  PROVE  Promise!Add([temp |-> temp, on |-> on])
<1> DEFINE item == [temp |-> temp, on |-> on]
<1>1. Reversed = [i \in 1..s_count |-> SampleAt(SlotOf(s_head, i))]
  BY ReversedIs
<1>2. Reversed' = [i \in 1..s_count' |-> SampleAt(SlotOf(s_head, i))']
  <2>1. HistoryTypeOK' => (Reversed = [i \in 1..s_count |-> SampleAt(SlotOf(s_head, i))])'
    BY ReversedIs, PTL
  <2> QED BY <2>1
<1>3. Len(Reversed) = s_count
  <2>1. s_count \in Nat
    BY DEF HistoryTypeOK
  <2> QED BY <1>1, <2>1
<1>4. s_head' = IF s_head + 1 < HISTORY_SAMPLES THEN s_head + 1 ELSE 0
  BY HeadAfter, HistoryConstants DEF history_add, After, HistoryTypeOK, Slots
<1>5. s_count' = IF Len(Reversed) < HISTORY_SAMPLES THEN Len(Reversed) + 1 ELSE HISTORY_SAMPLES
  <2>1. s_count' = IF s_count < HISTORY_SAMPLES THEN s_count + 1 ELSE s_count
    BY DEF history_add
  <2>2. s_count \in 0..HISTORY_SAMPLES
    BY DEF HistoryTypeOK
  <2> QED BY <1>3, <2>1, <2>2, HistoryConstants
<1>6. ASSUME NEW i \in 1..s_count'
      PROVE  SampleAt(SlotOf(s_head, i))' = IF i = 1 THEN item ELSE Reversed[i - 1]
  <2>1. i \in 1..HISTORY_SAMPLES
    BY HistoryConstants DEF HistoryTypeOK
  <2>2. SlotOf(s_head', i) \in Slots
    <3>1. s_head' \in Slots
      BY <1>4, HistoryConstants DEF HistoryTypeOK, Slots
    <3> QED BY <2>1, <3>1, SlotExists
  <2>3. PICK slot \in Slots : slot = SlotOf(s_head', i)
    BY <2>2
  <2>4. SampleAt(SlotOf(s_head, i))' = SampleAt(slot)'
    <3>1. SlotOf(s_head, i)' = slot
      BY <2>3 DEF SlotOf
    <3> QED BY <3>1, Zenon DEF SampleAt
  <2>5. SampleAt(slot)' = IF slot = s_head THEN item ELSE SampleAt(slot)
    BY AddWritesOneSlot
  <2>6. CASE i = 1
    <3>1. slot = s_head
      BY <1>4, <2>3, <2>6, HistoryConstants DEF SlotOf, HistoryTypeOK, Slots
    <3> QED BY <2>4, <2>5, <2>6, <3>1
  <2>7. CASE i > 1
    <3>1. slot = SlotOf(s_head, i - 1) /\ slot # s_head
      BY <1>4, <2>1, <2>3, <2>7, HistoryConstants DEF SlotOf, HistoryTypeOK, Slots
    <3>2. i - 1 \in 1..s_count
      BY <1>3, <1>5, <2>7, HistoryConstants DEF HistoryTypeOK
    <3>3. Reversed[i - 1] = SampleAt(slot)
      BY <1>1, <3>1, <3>2
    <3> QED BY <2>4, <2>5, <2>7, <3>1, <3>3
  <2> QED BY <2>1, <2>6, <2>7
<1>7. Reversed' = [i \in 1..s_count' |-> IF i = 1 THEN item ELSE Reversed[i - 1]]
  BY <1>2, <1>6
<1> QED BY <1>5, <1>7 DEF Promise!Add, history_add

(* Every behaviour of the history is one of the list of recent samples: a  *)
(* reader gets the latest ones in order, each with its own pump bit.       *)
THEOREM HistoryRefinement == HistorySpec => HistoryKeepsRecent
<1>1. HistoryInit => Promise!Init
  BY HistoryConstants DEF HistoryInit, Promise!Init, Reversed, history_copy
<1>2. HistoryTypeOK /\ HistoryTypeOK' /\ [HistoryNext]_history => [Promise!Next]_(Promise!vars)
  <2> SUFFICES ASSUME HistoryTypeOK, HistoryTypeOK', [HistoryNext]_history PROVE [Promise!Next]_(Promise!vars)
    OBVIOUS
  <2>1. ASSUME NEW t \in Nat, NEW temp \in Temps, NEW on \in BOOLEAN, history_add(t, temp, on)
        PROVE  Promise!Next
    <3>1. [temp |-> temp, on |-> on] \in Sample
      BY DEF Sample
    <3> QED BY <2>1, <3>1, AddRefines DEF Promise!Next
  <2>2. CASE HistoryRestart
    <3>1. Reversed' = <<>>
      BY <2>2, HistoryConstants DEF HistoryRestart, Reversed, history_copy
    <3> QED BY <2>2, <3>1 DEF HistoryRestart, Promise!Restart, Promise!Next
  <2>3. CASE UNCHANGED history
    BY <2>3 DEF history, Promise!vars, Reversed, history_copy, SampleAt
  <2> QED BY <2>1, <2>2, <2>3 DEF HistoryNext
<1> QED BY <1>1, <1>2, HistoryIsValid, PTL DEF HistorySpec, HistoryKeepsRecent, Promise!Spec

(***************************************************************************)
(* When the samples were taken, and where the app draws them.              *)
(***************************************************************************)
(* A new sample moves the others one place down.                           *)
LEMMA AddMoves ==
  ASSUME HistoryTypeOK, HistoryTypeOK', NEW t \in Nat, NEW temp \in Temps,
         NEW on \in BOOLEAN, history_add(t, temp, on), NEW i \in 1..s_count'
  PROVE  /\ i = 1 => Reversed'[i] = [temp |-> temp, on |-> on]
         /\ i > 1 => i - 1 \in 1..s_count /\ Reversed'[i] = Reversed[i - 1]
<1>1. Reversed' = [j \in 1..(IF Len(Reversed) < HISTORY_SAMPLES THEN Len(Reversed) + 1
                                                                 ELSE HISTORY_SAMPLES) |->
                     IF j = 1 THEN [temp |-> temp, on |-> on] ELSE Reversed[j - 1]]
  BY AddRefines DEF Promise!Add
<1>2. Len(Reversed) = s_count
  <2>1. s_count \in Nat
    BY DEF HistoryTypeOK
  <2> QED BY <2>1, ReversedIs
<1>3. s_count' = IF s_count < HISTORY_SAMPLES THEN s_count + 1 ELSE s_count
  BY DEF history_add
<1>4. s_count \in 0..HISTORY_SAMPLES /\ HISTORY_SAMPLES \in Nat
  BY HistoryConstants DEF HistoryTypeOK
<1>5. s_count' = IF s_count < HISTORY_SAMPLES THEN s_count + 1 ELSE HISTORY_SAMPLES
  BY <1>3, <1>4
<1>6. Reversed'[i] = IF i = 1 THEN [temp |-> temp, on |-> on] ELSE Reversed[i - 1]
  BY <1>1, <1>2, <1>5
<1> QED BY <1>3, <1>4, <1>6

LEMMA OneDeeper ==
  ASSUME NEW i \in Nat, NEW period \in Int, NEW slack \in Nat,
         NEW late \in 0..((i - 1) * slack), NEW more \in 0..slack
  PROVE  /\ late + more \in 0..(i * slack)
         /\ i * period = (i - 1) * period + period
<1>1. i * slack = (i - 1) * slack + slack /\ i * period = (i - 1) * period + period
  OBVIOUS
<1>2. (i - 1) * slack \in Int /\ i * slack \in Int
  OBVIOUS
<1> QED BY <1>1, <1>2

LEMMA SamplingNumbers ==
  /\ CONTROL_READ_PERIOD_S \in Nat \ {0} /\ HISTORY_PERIOD_S \in Nat \ {0}
  /\ DELAY \in Nat
  /\ Longer \in Nat /\ Longer >= CONTROL_READ_PERIOD_S /\ Longer >= DELAY
  /\ Slack \in Nat /\ Slack = Longer + 2 * DELAY - 1
  BY SamplingConstants DEF Slack, Longer

(* Starting, or starting again.                                            *)
Fresh ==
  /\ HistoryTypeOK
  /\ now = 0 /\ pc = "wait" /\ since = 0 /\ now_s = 0
  /\ next_read_s = 0 /\ next_history_s = 0 /\ s_count = 0

LEMMA FreshHolds == Fresh => IInv
<1> SUFFICES ASSUME Fresh PROVE IInv
  OBVIOUS
<1> USE DEF Fresh
<1>1. TypeOK
  BY SamplingConstants DEF TypeOK
<1>2. Schedule
  BY SamplingConstants DEF Schedule, Possible
<1>3. Spacing
  BY DEF Spacing, Readable
<1> QED BY <1>1, <1>2, <1>3 DEF IInv

LEMMA InitHolds == Init => IInv
  BY FreshHolds, HistoryInitHolds DEF Fresh, Init, HistoryInit

(* A step that keeps no sample leaves the samples where they are.          *)
LEMMA SpacingKept ==
  ASSUME IInv, UNCHANGED <<next_history_s, history>>
  PROVE  HistoryTypeOK' /\ Spacing' /\ s_count' = s_count
<1>1. HistoryTypeOK'
  BY HistoryNextPreserves DEF IInv, TypeOK
<1>2. Reversed' = Reversed /\ s_count' = s_count /\ s_newest_mono_s' = s_newest_mono_s
  BY DEF history, Reversed, history_copy, SampleAt
<1>3. Spacing'
  BY <1>2 DEF IInv, Spacing, LastStamp, Readable
<1> QED BY <1>1, <1>2, <1>3

(* The sample kept now lies a period or more after the one kept before,    *)
(* and no more than the schedule allows.                                   *)
LEMMA KeepSpaces ==
  ASSUME IInv, pc = "add", Keep
  PROVE  HistoryTypeOK' /\ Spacing'
<1> DEFINE P == HISTORY_PERIOD_S
<1>1. PICK temp \in {now_s, HISTORY_NO_READING}, on \in BOOLEAN : history_add(now, temp, on)
  BY DEF Keep
<1>2. /\ now \in Nat /\ now_s \in Nat /\ now_s \in 0..MaxTime /\ next_history_s \in Nat
      /\ now - now_s \in 0..DELAY
      /\ now_s >= next_history_s /\ next_history_s' = now_s + P
      /\ s_count > 0 => now_s <= next_history_s + Slack
  BY SamplingConstants, SamplingNumbers DEF Keep, Keeps, NextHistory, IInv, TypeOK, Schedule
<1>3. temp \in Temps
  BY <1>2, SamplingConstants DEF Temps
<1>4. HistoryTypeOK /\ HistoryTypeOK'
  <2>1. HistoryTypeOK
    BY DEF IInv, TypeOK
  <2>2. HistoryNext
    BY <1>1, <1>2, <1>3 DEF HistoryNext
  <2> QED BY <2>1, <2>2, HistoryNextPreserves
<1>5. LastStamp' = now_s /\ s_newest_mono_s' = now
  BY <1>1, <1>2, SamplingNumbers DEF LastStamp, history_add
<1>6. ASSUME NEW i \in 1..s_count', Reversed'[i].temp # HISTORY_NO_READING
      PROVE  /\ Reversed'[i].temp \in Nat
             /\ now_s - (i - 1) * P - Reversed'[i].temp \in 0..((i - 1) * Slack)
  <2>1. CASE i = 1
    <3>1. Reversed'[i] = [temp |-> temp, on |-> on]
      BY <1>1, <1>2, <1>3, <1>4, <2>1, AddMoves
    <3>2. Reversed'[i].temp = now_s
      BY <1>6, <3>1
    <3> QED BY <1>2, <2>1, <3>2, SamplingNumbers
  <2>2. CASE i > 1
    <3>1. i - 1 \in 1..s_count /\ Reversed'[i] = Reversed[i - 1]
      BY <1>1, <1>2, <1>3, <1>4, <2>2, AddMoves
    <3>2. i - 1 \in Readable
      BY <1>6, <3>1 DEF Readable
    <3> DEFINE x == Reversed[i - 1].temp
               k == i - 1
               late == LastStamp - (k - 1) * P - x
               more == now_s - next_history_s
    <3>3. x \in Nat /\ late \in 0..((k - 1) * Slack)
      BY <3>2 DEF IInv, Spacing
    <3>4. more \in 0..Slack
      <4>1. s_count > 0
        BY <1>4, <3>1 DEF HistoryTypeOK
      <4> QED BY <1>2, <4>1, SamplingNumbers
    <3>5. k \in Nat
      BY <3>1
    <3> HIDE DEF x
    <3>6. late + more \in 0..(k * Slack) /\ k * P = (k - 1) * P + P
      <4> HIDE DEF late, more, k
      <4> QED BY <3>3, <3>4, <3>5, SamplingNumbers, OneDeeper
    <3>7. (k - 1) * P \in Int
      BY <3>5, SamplingNumbers
    <3>8. late + more = now_s - k * P - x
      BY <1>2, <3>3, <3>5, <3>6, <3>7, SamplingNumbers DEF LastStamp
    <3>9. Reversed'[i].temp = x
      BY <3>1 DEF x
    <3> QED BY <3>3, <3>6, <3>8, <3>9
  <2> QED BY <1>4, <2>1, <2>2 DEF HistoryTypeOK
<1>7. Spacing'
  BY <1>2, <1>5, <1>6 DEF Spacing, Readable
<1> QED BY <1>4, <1>7

LEMMA NextPreserves == IInv /\ [Next]_vars => IInv'
<1> SUFFICES ASSUME IInv, [Next]_vars PROVE IInv'
  OBVIOUS
<1>1. /\ now \in Nat /\ since \in Nat /\ now_s \in Nat /\ since <= now /\ now_s <= now
      /\ next_read_s \in Nat /\ next_history_s \in Nat /\ now \in 0..MaxTime
  BY SamplingConstants DEF IInv, TypeOK
<1>2. CASE Read
  <2>1. UNCHANGED <<next_history_s, history>>
    BY <1>2 DEF Read
  <2>2. TypeOK'
    BY <1>1, <1>2, <2>1, SpacingKept, SamplingNumbers DEF Read, IInv, TypeOK
  <2>3. Schedule'
    BY <1>1, <1>2, <2>1, SpacingKept, SamplingNumbers DEF Read, IInv, Schedule, Possible
  <2> QED BY <2>1, <2>2, <2>3, SpacingKept DEF IInv
<1>3. CASE Convert
  <2>1. UNCHANGED <<next_history_s, history>>
    BY <1>3 DEF Convert
  <2>2. TypeOK'
    BY <1>1, <1>3, <2>1, SpacingKept, SamplingNumbers DEF Convert, IInv, TypeOK
  <2>3. Schedule'
    BY <1>1, <1>3, <2>1, SpacingKept, SamplingNumbers DEF Convert, IInv, Schedule
  <2> QED BY <2>1, <2>2, <2>3, SpacingKept DEF IInv
<1>4. CASE Add
  <2>1. /\ pc = "add" /\ pc' = "wait" /\ since' = now
        /\ UNCHANGED <<now, now_s, next_read_s>>
    BY <1>4 DEF Add
  <2>2. HistoryTypeOK' /\ Spacing' /\ next_history_s' \in Nat /\ next_history_s' > now_s
    <3>1. CASE Keep
      <4>1. next_history_s' = now_s + HISTORY_PERIOD_S
        BY <3>1 DEF Keep, NextHistory
      <4> QED BY <1>1, <2>1, <3>1, <4>1, KeepSpaces, SamplingNumbers
    <3>2. CASE Skip
      BY <1>1, <3>2, SpacingKept DEF Skip, Keeps
    <3> QED BY <1>4, <3>1, <3>2 DEF Add
  <2>3. TypeOK'
    BY <1>1, <2>1, <2>2 DEF IInv, TypeOK
  <2>4. /\ now <= since + DELAY /\ now_s = since
        /\ next_read_s <= now_s + CONTROL_READ_PERIOD_S
    BY <2>1 DEF IInv, Schedule
  <2>5. Possible' = IF now < next_read_s THEN next_read_s ELSE now
    BY <2>1 DEF Possible
  <2>6. PICK next \in Nat : next = Possible'
    BY <1>1, <2>5
  <2>7. PICK due \in Nat : due = next_history_s' /\ due > now_s
    BY <2>2
  <2>8. now <= next + DELAY
    BY <1>1, <2>5, <2>6, SamplingNumbers
  <2>9. next < due + Longer
    <3>1. next <= now_s + Longer
      BY <1>1, <2>4, <2>5, <2>6, SamplingNumbers
    <3>2. due > now_s /\ now_s \in Nat
      BY <1>1, <2>7
    <3> QED BY <3>1, <3>2, SamplingNumbers
  <2>10. Schedule'
    BY <2>1, <2>6, <2>7, <2>8, <2>9 DEF Schedule
  <2> QED BY <2>2, <2>3, <2>10 DEF IInv
<1>5. CASE Clock
  <2>1. UNCHANGED <<next_history_s, history>> /\ UNCHANGED <<pc, since, now_s, next_read_s>>
    BY <1>5 DEF Clock, task
  <2>2. now' = now + 1 /\ now' \in 0..MaxTime /\ now' <= Possible + DELAY
    BY <1>1, <1>5, SamplingConstants DEF Clock, Possible
  <2>3. TypeOK'
    BY <1>1, <2>1, <2>2, SpacingKept DEF IInv, TypeOK
  <2>4. Schedule'
    BY <1>1, <2>1, <2>2, SpacingKept, SamplingNumbers DEF IInv, Schedule, Possible
  <2> QED BY <2>1, <2>3, <2>4, SpacingKept DEF IInv
<1>6. CASE Reset
  <2>1. /\ now' = 0 /\ pc' = "wait" /\ since' = 0 /\ now_s' = 0
        /\ next_read_s' = 0 /\ next_history_s' = 0 /\ s_count' = 0
    BY <1>6 DEF Reset, HistoryRestart
  <2>2. HistoryTypeOK'
    BY <1>6, HistoryNextPreserves DEF Reset, HistoryNext, IInv, TypeOK
  <2>3. Fresh'
    BY <2>1, <2>2 DEF Fresh
  <2> QED BY <2>3, FreshHolds, PTL
<1>7. CASE UNCHANGED vars
  <2>1. UNCHANGED <<next_history_s, history>> /\ UNCHANGED <<now, pc, since, now_s, next_read_s>>
    BY <1>7 DEF vars, task
  <2>2. TypeOK'
    BY <2>1, SpacingKept DEF IInv, TypeOK
  <2>3. Schedule'
    BY <2>1, SpacingKept DEF IInv, Schedule, Possible
  <2> QED BY <2>1, <2>2, <2>3, SpacingKept DEF IInv
<1> QED BY <1>2, <1>3, <1>4, <1>5, <1>6, <1>7 DEF Next

(* No order of ticks, delays and resets breaks the schedule or the spacing.*)
THEOREM Invariant == Spec => []IInv
  BY InitHolds, NextPreserves, PTL DEF Spec

(* How late a sample is drawn: by how much the newest was added after its  *)
(* stamp, and by what the periods in between were too long.                *)
LEMMA DrawnWithin ==
  ASSUME IInv, NEW i \in Readable
  PROVE  /\ DrawnLate(i) >= 0
         /\ DrawnLate(i) <= DELAY + (i - 1) * Slack
<1> DEFINE drift == (i - 1) * Slack
           ideal == (i - 1) * HISTORY_PERIOD_S
           late == LastStamp - ideal - Reversed[i].temp
<1>1. i \in 1..s_count /\ s_count \in Nat
  BY DEF Readable, IInv, TypeOK, HistoryTypeOK
<1>2. /\ Reversed[i].temp \in Nat
      /\ late \in 0..drift
      /\ s_newest_mono_s - LastStamp \in 0..DELAY
  BY <1>1 DEF IInv, Spacing
<1>3. drift \in Int /\ ideal \in Int
  BY <1>1, SamplingNumbers
<1>4. s_newest_mono_s \in Nat /\ LastStamp \in Int /\ DELAY \in Nat
  BY SamplingNumbers DEF IInv, TypeOK, HistoryTypeOK, LastStamp
<1>5. DrawnLate(i) = s_newest_mono_s - ideal - Reversed[i].temp
  BY DEF DrawnLate
<1> HIDE DEF drift, ideal
<1>6. DrawnLate(i) = (s_newest_mono_s - LastStamp) + late
  BY <1>2, <1>3, <1>4, <1>5
<1>7. DrawnLate(i) >= 0 /\ DrawnLate(i) <= DELAY + drift
  BY <1>2, <1>3, <1>4, <1>6
<1> QED BY <1>7 DEF drift

(* The app draws no sample before it was taken, at whatever depth.         *)
THEOREM DrawnNeverTooEarly == Spec => []NeverDrawnTooEarly
<1>1. IInv => NeverDrawnTooEarly
  BY DrawnWithin DEF NeverDrawnTooEarly
<1> QED BY <1>1, Invariant, PTL

(* Nor later than DELAY and Slack seconds for each sample between it and   *)
(* the newest, however late the steps of the control task may be: this is  *)
(* the drift that the fixed period of the chart hides.                     *)
THEOREM DrawnWithinDrift == Spec => []DrawnDrift
<1>1. IInv => DrawnDrift
  BY DrawnWithin DEF DrawnDrift
<1> QED BY <1>1, Invariant, PTL

(* As the control task fills it, the history stays a list of the recent    *)
(* samples.                                                                *)
THEOREM Refinement == Spec => HistoryKeepsRecent
<1>1. Init => HistoryInit
  BY DEF Init
<1>2. IInv /\ [Next]_vars => [HistoryNext]_history
  <2> SUFFICES ASSUME IInv, [Next]_vars PROVE [HistoryNext]_history
    OBVIOUS
  <2>1. CASE Add
    <3>1. CASE Keep
      <4>1. PICK temp \in {now_s, HISTORY_NO_READING}, on \in BOOLEAN : history_add(now, temp, on)
        BY <3>1 DEF Keep
      <4>2. now \in Nat /\ temp \in Temps
        BY SamplingConstants DEF IInv, TypeOK, Temps
      <4> QED BY <4>1, <4>2 DEF HistoryNext
    <3>2. CASE Skip
      BY <3>2 DEF Skip
    <3> QED BY <2>1, <3>1, <3>2 DEF Add
  <2>2. CASE Reset
    BY <2>2 DEF Reset, HistoryNext
  <2>3. CASE Read \/ Convert \/ Clock \/ UNCHANGED vars
    BY <2>3 DEF Read, Convert, Clock, vars
  <2> QED BY <2>1, <2>2, <2>3 DEF Next
<1> QED BY <1>1, <1>2, Invariant, HistoryRefinement, PTL DEF Spec, HistorySpec

(***************************************************************************)
(* The sensor driver and the controller that is fed its readings.          *)
(***************************************************************************)
(* Starting, or starting again, with whatever is on the bus.               *)
SensorFresh ==
  /\ bus \in Sensors \cup {NoSensor}
  /\ s_addr = NoSensor /\ s_found = FALSE /\ s_failures = 0
  /\ valid = FALSE /\ temp_x10 = 0
  /\ s_state = ctl_init(0)
  /\ steady = 0

LEMMA SensorFreshHolds == SensorFresh => SensorInv
<1> SUFFICES ASSUME SensorFresh PROVE SensorInv
  OBVIOUS
<1>1. ctl_init(0) \in CtlState /\ ctl_init(0).failures = 0
  BY LogicConstants DEF ctl_init, CtlState, Reasons, Manuals
<1>2. SENSOR_FAIL_READS \in Nat \ {0}
  BY LogicConstants
<1>3. SensorTypeOK
  <2>1. s_addr \in Sensors \cup {NoSensor}
    BY DEF SensorFresh
  <2>2. s_found \in BOOLEAN /\ valid \in BOOLEAN
    BY DEF SensorFresh
  <2>3. s_failures \in 0..(SENSOR_FAIL_READS - 1) /\ steady \in 0..(SENSOR_FAIL_READS + 1)
    BY <1>2 DEF SensorFresh
  <2> QED BY <1>1, <2>1, <2>2, <2>3 DEF SensorFresh, SensorTypeOK
<1>4. SwapProgress /\ DriverNotAhead
  BY <1>1, <1>2 DEF SensorFresh, SwapProgress, DriverNotAhead
<1> QED BY <1>3, <1>4 DEF SensorInv

LEMMA SensorInitHolds == SensorInit => SensorInv
  BY SensorFreshHolds DEF SensorInit, SensorFresh

(* What the controller makes of a reading: it counts a failed one, up to   *)
(* where its counter saturates, and fails the sensor at the limit.         *)
LEMMA FedController ==
  ASSUME s_state \in CtlState, NEW v \in BOOLEAN, NEW x \in Int,
         NEW s, s = ctl_sensor(s_state, Thresholds, 0, [valid |-> v, temp_x10 |-> x])
  PROVE  /\ s \in CtlState
         /\ v => s.failures = 0
         /\ ~v => /\ s.failures = IF s_state.failures < UINT8_MAX THEN s_state.failures + 1
                                                                  ELSE s_state.failures
                  /\ s_state.sensor_failed => s.sensor_failed
                  /\ s.failures >= SENSOR_FAIL_READS => s.sensor_failed
<1> DEFINE reading == [valid |-> v, temp_x10 |-> x]
<1>1. reading \in Reading /\ reading.valid = v
  BY DEF Reading
<1>2. Thresholds \in Config
  BY TempSensorConstants
<1>3. s = ctl_sensor(s_state, Thresholds, 0, reading)
  OBVIOUS
<1> HIDE DEF reading
<1>4. s \in CtlState
  BY <1>1, <1>2, <1>3, SensorType
<1>5. CASE v
  BY <1>1, <1>3, <1>4, <1>5, GoodReadShape
<1>6. CASE ~v
  <2>1. /\ s_state.sensor_failed => s.sensor_failed
        /\ s.failures >= SENSOR_FAIL_READS => s.sensor_failed
    BY <1>1, <1>2, <1>3, <1>6, BadReadShape
  <2>2. s.failures = IF s_state.failures < UINT8_MAX THEN s_state.failures + 1
                                                     ELSE s_state.failures
    BY <1>1, <1>3, <1>6 DEF ctl_sensor, BadRead, CtlState
  <2> QED BY <1>4, <1>6, <2>1, <2>2
<1> QED BY <1>5, <1>6

LEMMA SensorReadPreserves ==
  ASSUME SensorInv, SensorRead
  PROVE  SensorInv'
<1> DEFINE F == SENSOR_FAIL_READS
<1>1. F \in Nat \ {0} /\ UINT8_MAX \in Nat /\ F <= UINT8_MAX
  BY LogicConstants
<1>2. /\ bus \in Sensors \cup {NoSensor} /\ s_addr \in Sensors \cup {NoSensor}
      /\ s_found \in BOOLEAN /\ valid \in BOOLEAN /\ temp_x10 \in Int
      /\ s_failures \in 0..(F - 1)
      /\ steady \in 0..(F + 1)
      /\ s_state \in CtlState
  BY DEF SensorInv, SensorTypeOK
<1>3. s_state.failures \in 0..UINT8_MAX
  BY <1>2 DEF CtlState
<1>4. /\ s_found /\ s_addr # bus => steady <= s_failures
      /\ s_found /\ s_addr = bus /\ steady > 0 => valid
      /\ ~s_found => s_failures = 0 /\ steady <= F
  BY DEF SensorInv, SwapProgress
<1>5. /\ s_failures <= s_state.failures
      /\ ~s_found /\ s_addr # NoSensor => s_state.sensor_failed
  BY DEF SensorInv, DriverNotAhead
<1>6. s_state' = ctl_sensor(s_state, Thresholds, 0, [valid |-> valid', temp_x10 |-> temp_x10'])
  BY DEF SensorRead
<1>7. CASE ScanFails
  <2>1. /\ ~s_found /\ valid' = FALSE /\ steady' = 0
        /\ UNCHANGED <<bus, s_addr, s_found, s_failures, temp_x10>>
    BY <1>7 DEF ScanFails
  <2>2. /\ s_state' \in CtlState
        /\ s_state'.failures >= 0
        /\ s_state.sensor_failed => s_state'.sensor_failed
    <3>1. PICK s : s = s_state'
      OBVIOUS
    <3>2. s \in CtlState /\ (s_state.sensor_failed => s.sensor_failed)
      BY <1>2, <1>6, <2>1, <3>1, FedController
    <3>3. s.failures \in 0..UINT8_MAX
      BY <3>2 DEF CtlState
    <3> QED BY <1>1, <3>1, <3>2, <3>3
  <2>3. SensorTypeOK'
    <3>1. valid' \in BOOLEAN
      BY <2>1
    <3>2. steady' \in 0..(F + 1)
      BY <1>1, <2>1
    <3> QED BY <1>2, <2>1, <2>2, <3>1, <3>2 DEF SensorTypeOK
  <2>4. SwapProgress'
    BY <1>1, <1>4, <2>1 DEF SwapProgress
  <2>5. DriverNotAhead'
    BY <1>4, <1>5, <2>1, <2>2 DEF DriverNotAhead
  <2> QED BY <2>3, <2>4, <2>5 DEF SensorInv
<1>8. ASSUME NEW value \in Values, Answer(value), Plausible(value) PROVE SensorInv'
  <2>1. /\ bus # NoSensor /\ s_addr' = bus /\ bus' = bus
        /\ s_found' = TRUE /\ s_failures' = 0 /\ valid' = TRUE /\ temp_x10' = value
        /\ steady' = Steady(steady)
    BY <1>8 DEF Answer, ReadGood
  <2>2. value \in Int
    BY TempSensorConstants
  <2>3. s_state' \in CtlState /\ s_state'.failures = 0
    <3>1. PICK s : s = s_state'
      OBVIOUS
    <3>2. s \in CtlState /\ s.failures = 0
      BY <1>2, <1>6, <2>1, <2>2, <3>1, FedController
    <3> QED BY <3>1, <3>2
  <2>4. Steady(steady) \in 0..(F + 1)
    BY <1>1, <1>2 DEF Steady
  <2>5. SensorTypeOK'
    BY <1>1, <1>2, <2>1, <2>2, <2>3, <2>4 DEF SensorTypeOK
  <2>6. SwapProgress' /\ DriverNotAhead'
    BY <2>1, <2>3 DEF SwapProgress, DriverNotAhead
  <2> QED BY <2>5, <2>6 DEF SensorInv
<1>9. ASSUME ReadFailed, s_addr' = Asked, valid' = FALSE, UNCHANGED <<bus, temp_x10>>,
             steady' = IF Asked # bus /\ bus # NoSensor THEN Steady(steady) ELSE 0
      PROVE  SensorInv'
  <2>1. \/ /\ s_failures + 1 < F
           /\ s_found' = TRUE /\ s_failures' = s_failures + 1
        \/ /\ s_failures = F - 1
           /\ s_found' = FALSE /\ s_failures' = 0
    BY <1>1, <1>2, <1>9 DEF ReadFailed
  <2>2. Asked # bus => s_found /\ s_addr # bus /\ Asked = s_addr
    BY <1>2 DEF Asked
  <2>3. /\ steady' \in 0..F
        /\ Asked # bus => steady' <= s_failures + 1
        /\ Asked = bus => steady' = 0
    <3>1. CASE Asked # bus /\ bus # NoSensor
      <4>1. steady <= s_failures
        BY <1>4, <2>2, <3>1
      <4>2. steady' = steady + 1
        BY <1>1, <1>2, <1>9, <3>1, <4>1 DEF Steady
      <4> QED BY <1>1, <1>2, <3>1, <4>1, <4>2
    <3>2. CASE ~(Asked # bus /\ bus # NoSensor)
      BY <1>1, <1>2, <1>9, <3>2
    <3> QED BY <3>1, <3>2
  <2>4. /\ s_state' \in CtlState
        /\ s_failures + 1 <= s_state'.failures
        /\ s_failures = F - 1 => s_state'.sensor_failed
    <3>1. PICK s : s = s_state'
      OBVIOUS
    <3>2. /\ s \in CtlState
          /\ s.failures = IF s_state.failures < UINT8_MAX THEN s_state.failures + 1
                                                          ELSE s_state.failures
          /\ s.failures >= F => s.sensor_failed
      BY <1>2, <1>6, <1>9, <3>1, FedController
    <3>3. s_failures + 1 <= s.failures
      BY <1>1, <1>2, <1>3, <1>5, <3>2
    <3>4. s_failures = F - 1 => s.sensor_failed
      BY <1>1, <1>2, <1>3, <3>2, <3>3
    <3> QED BY <3>1, <3>2, <3>3, <3>4
  <2>5. Asked \in Sensors \cup {NoSensor}
    BY <1>2 DEF Asked
  <2>6. SensorTypeOK'
    <3>1. s_found' \in BOOLEAN /\ s_failures' \in 0..(F - 1)
      <4>1. s_found' \in BOOLEAN
        BY <2>1, Zenon
      <4>2. s_failures' \in 0..(F - 1)
        BY <1>1, <1>2, <2>1
      <4> QED BY <4>1, <4>2
    <3>2. steady' \in 0..(F + 1)
      BY <1>1, <2>3
    <3>3. valid' \in BOOLEAN
      BY <1>9
    <3> QED BY <1>2, <1>9, <2>4, <2>5, <3>1, <3>2, <3>3 DEF SensorTypeOK
  <2>7. SwapProgress' /\ DriverNotAhead'
    <3>1. s_failures \in Int /\ F \in Int /\ s_addr' = Asked /\ bus' = bus
      BY <1>1, <1>2, <1>9
    <3>2. CASE s_found' = TRUE /\ s_failures' = s_failures + 1
      BY <2>3, <2>4, <3>1, <3>2 DEF SwapProgress, DriverNotAhead
    <3>3. CASE s_failures = F - 1 /\ s_found' = FALSE /\ s_failures' = 0
      <4>1. steady' <= F /\ 0 <= s_state'.failures /\ s_state'.sensor_failed
        <5>1. PICK n : n = s_state'.failures
          OBVIOUS
        <5>2. n \in Nat
          BY <2>4, <5>1, <1>1 DEF CtlState
        <5> QED BY <2>3, <2>4, <3>1, <3>3, <5>1, <5>2
      <4> QED BY <3>3, <4>1 DEF SwapProgress, DriverNotAhead
    <3> QED BY <2>1, <3>2, <3>3
  <2> QED BY <2>6, <2>7 DEF SensorInv
<1>10. CASE NoAnswer
  BY <1>9, <1>10 DEF NoAnswer
<1>11. ASSUME NEW value \in Values, Answer(value), ~Plausible(value) PROVE SensorInv'
  BY <1>9, <1>11 DEF Answer
<1> QED BY <1>7, <1>8, <1>10, <1>11 DEF SensorRead, temp_sensor_read

LEMMA SensorNextPreserves == SensorInv /\ [SensorNext]_sensor => SensorInv'
<1> SUFFICES ASSUME SensorInv, [SensorNext]_sensor PROVE SensorInv'
  OBVIOUS
<1>1. CASE SensorRead
  BY <1>1, SensorReadPreserves
<1>2. CASE Rewire
  <2>1. /\ bus' \in Sensors \cup {NoSensor} /\ steady' = 0
        /\ UNCHANGED <<s_addr, s_found, s_failures, valid, temp_x10, s_state>>
    BY <1>2 DEF Rewire, driver
  <2>2. SENSOR_FAIL_READS \in Nat \ {0}
    BY LogicConstants
  <2>3. SensorTypeOK'
    BY <2>1, <2>2 DEF SensorInv, SensorTypeOK
  <2>4. SwapProgress' /\ DriverNotAhead'
    BY <2>1, <2>2 DEF SensorInv, SensorTypeOK, SwapProgress, DriverNotAhead
  <2> QED BY <2>3, <2>4 DEF SensorInv
<1>3. CASE SensorReset
  <2>1. SensorFresh'
    BY <1>3 DEF SensorReset, SensorFresh, SensorInv, SensorTypeOK
  <2> QED BY <2>1, SensorFreshHolds, PTL
<1>4. CASE UNCHANGED sensor
  BY <1>4 DEF sensor, driver, SensorInv, SensorTypeOK, SwapProgress, DriverNotAhead
<1> QED BY <1>1, <1>2, <1>3, <1>4 DEF SensorNext

(* However the sensors are swapped and however their answers fail, the     *)
(* driver's count and the controller's stay together.                      *)
THEOREM SensorInvariant == SensorSpec => []SensorInv
  BY SensorInitHolds, SensorNextPreserves, PTL DEF SensorSpec

(* A sensor that was swapped for a working one is read again after at most *)
(* SENSOR_FAIL_READS calls to the old address and a scan.                  *)
THEOREM SwapIsFoundInTime == SensorSpec => []SwapIsFound
<1>1. SensorInv => SwapIsFound
  BY LogicConstants DEF SensorInv, SensorTypeOK, SwapProgress, SwapIsFound
<1> QED BY <1>1, SensorInvariant, PTL

(* The driver gives a sensor up only when the controller has failed it.    *)
THEOREM DriverIsNotAhead == SensorSpec => []DriverNotAhead
<1>1. SensorInv => DriverNotAhead
  BY DEF SensorInv
<1> QED BY <1>1, SensorInvariant, PTL

(* No step takes another sensor into use unless the controller is in its   *)
(* sensor fail-safe.                                                       *)
THEOREM SwapPassesTheFailSafe == SensorSpec => SwapPassesFailSafe
<1> DEFINE Passes == s_addr' # s_addr /\ s_addr' # NoSensor /\ s_addr # NoSensor
                       => s_state.sensor_failed
<1>1. SensorInv /\ [SensorNext]_sensor => [Passes]_sensor
  <2> SUFFICES ASSUME SensorInv, SensorNext, s_addr' # s_addr, s_addr' # NoSensor,
                      s_addr # NoSensor
               PROVE  s_state.sensor_failed
    OBVIOUS
  <2>1. ~s_found
    BY DEF SensorNext, SensorRead, temp_sensor_read, ScanFails, NoAnswer, Answer, Asked,
           Rewire, driver, SensorReset
  <2> QED BY <2>1 DEF SensorInv, DriverNotAhead
<1> QED BY <1>1, SensorInvariant, PTL DEF SensorSpec, SwapPassesFailSafe

=============================================================================
