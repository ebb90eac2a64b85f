------------------------------- MODULE History -------------------------------
(***************************************************************************)
(* The temperature history of firmware/main/history.c: a ring of           *)
(* temperatures next to a ring of pump bits packed into bytes.  Both       *)
(* operations run in the critical section of s_mux.                        *)
(***************************************************************************)
EXTENDS Integers, Sequences

CONSTANTS
  HISTORY_SAMPLES,
  BITS,                 \* of a byte of s_pump (8)
  Temperatures,         \* what a valid read may give
  HISTORY_NO_READING    \* what a failed read leaves

ASSUME HistoryConstants ==
  /\ HISTORY_SAMPLES \in Nat \ {0}
  /\ BITS \in Nat \ {0}
  /\ HISTORY_NO_READING \notin Temperatures

VARIABLES
  s_temps,
  s_pump,    \* each byte as the set of its bits that are set
  s_head, s_count,
  s_newest_mono_s,
  given      \* history: the sample added last

history == <<s_temps, s_pump, s_head, s_count, s_newest_mono_s, given>>

Slots == 0..(HISTORY_SAMPLES - 1)

Bytes == 0..((HISTORY_SAMPLES + BITS - 1) \div BITS - 1)

Temps == Temperatures \cup {HISTORY_NO_READING}

Sample == [temp: Temps, on: BOOLEAN]

HistoryInit ==
  /\ s_temps = [i \in Slots |-> HISTORY_NO_READING]
  /\ s_pump = [b \in Bytes |-> {}]
  /\ s_head = 0
  /\ s_count = 0
  /\ s_newest_mono_s = 0
  /\ given = [temp |-> HISTORY_NO_READING, on |-> FALSE]

SlipBitNeverCleared(byte, bit, on) == IF on THEN byte \cup {bit} ELSE byte

SetBit(byte, bit, on) == IF on THEN byte \cup {bit} ELSE byte \ {bit}

After(idx) == (idx + 1) % HISTORY_SAMPLES

history_add(now, temp, on) ==
  /\ s_temps' = [s_temps EXCEPT ![s_head] = temp]
  /\ s_pump' = [s_pump EXCEPT ![s_head \div BITS] = SetBit(@, s_head % BITS, on)]
  /\ s_head' = After(s_head)
  /\ s_count' = IF s_count < HISTORY_SAMPLES THEN s_count + 1 ELSE s_count
  /\ s_newest_mono_s' = now
  /\ given' = [temp |-> temp, on |-> on]

(* Everything is in RAM.                                                   *)
HistoryRestart ==
  /\ s_temps' = [i \in Slots |-> HISTORY_NO_READING]
  /\ s_pump' = [b \in Bytes |-> {}]
  /\ s_head' = 0
  /\ s_count' = 0
  /\ s_newest_mono_s' = 0
  /\ given' = [temp |-> HISTORY_NO_READING, on |-> FALSE]

SampleAt(idx) == [temp |-> s_temps[idx], on |-> idx % BITS \in s_pump[idx \div BITS]]

(* The last max samples, oldest first.                                     *)
history_copy(max) ==
  LET n == IF s_count < max THEN s_count ELSE max
      start == (s_head + HISTORY_SAMPLES - n) % HISTORY_SAMPLES
  IN  [i \in 1..n |-> SampleAt((start + i - 1) % HISTORY_SAMPLES)]

HistoryNext == HistoryRestart \/ \E now \in Nat, temp \in Temps, on \in BOOLEAN : history_add(now, temp, on)

HistorySpec == HistoryInit /\ [][HistoryNext]_history

-----------------------------------------------------------------------------
HistoryTypeOK ==
  /\ s_temps \in [Slots -> Temps]
  /\ s_pump \in [Bytes -> SUBSET (0..(BITS - 1))]
  /\ s_head \in Slots
  /\ s_count \in 0..HISTORY_SAMPLES
  /\ s_count < HISTORY_SAMPLES => s_head = s_count
  /\ s_newest_mono_s \in Nat
  /\ given \in Sample

(* The samples from the newest to the oldest.                              *)
Reversed == LET copy == history_copy(HISTORY_SAMPLES)
            IN  [i \in 1..s_count |-> copy[s_count + 1 - i]]

(* A reader gets the latest samples, each temperature with the pump bit of *)
(* its own minute, and the bits that share its byte are left alone.        *)
Promise == INSTANCE Recent WITH Items <- Sample, Size <- HISTORY_SAMPLES, log <- Reversed

HistoryKeepsRecent == Promise!Spec

=============================================================================
