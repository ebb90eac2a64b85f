------------------------------- MODULE Ingest -------------------------------
(***************************************************************************)
(* The server's ingest (server/ingest/fh_ingest.py) behind the counters: a *)
(* status document may be built in every state, and what parse accepts of  *)
(* it is stored as a sample.                                               *)
(***************************************************************************)
EXTENDS Counters

CONSTANT RUNTIME_MAX   \* parse rejects a longer run time of the day

(* The board is not up for so long (68 years) that its times are near the  *)
(* width of the counters, and what parse accepts is two days at the most.  *)
ASSUME IngestConstants ==
  /\ RUNTIME_MAX \in Nat
  /\ RUNTIME_MAX + MaxTime < COUNTER_MOD
  /\ 2 * MaxTime < COUNTER_MOD

SlipParseAll(runtime_s) == TRUE

(* A run time out of range makes parse reject the whole document.          *)
Parsed(runtime_s) == runtime_s <= RUNTIME_MAX

(* A run time that wrapped below zero is never stored: the run time of a   *)
(* sample is exactly the lengths of the runs of its day.                   *)
StoredIsRunTime ==
  Parsed(s_runtime_today_s) => s_runtime_today_s = run_s - run_before_s

(* The stamp that the next call of the control task cannot be older than.  *)
oldest_s == IF now_s = NotSampled THEN now ELSE now_s

(* A day cannot be shorter than nothing by more than the oldest stamp to   *)
(* come, nor longer than the last stamp by more than that.  These are      *)
(* bounds of the order of the uptime, coarse but preserved by every call;  *)
(* that a day never comes near the width of the counters needs no more.    *)
RuntimeWithinStamps ==
  /\ -oldest_s <= run_s - run_before_s
  /\ run_s - run_before_s <= s_last_tick_s + oldest_s

(* The invariant that every step preserves.                                *)
IngestInv == IInv /\ RuntimeWithinStamps

=============================================================================
