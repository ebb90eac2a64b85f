------------------------------ MODULE Notices -------------------------------
(***************************************************************************)
(* The push notifications of events.c: what a reader of both ntfy topics   *)
(* was last told of the pump.                                              *)
(***************************************************************************)
EXTENDS Events

VARIABLES
  prev_reason,   \* the reason before the call whose events are being published
  told           \* history: "on", "off", or "run" after a maintenance run,
                 \* whose notice announces its end as well

noticeVars == <<vars, prev_reason, told>>

(* The notice of a switch to a reason; most reasons have one.              *)
PumpNotice(reason) ==
  CASE reason \in {"auto_hot", "manual_on"} -> "on"
    [] reason = "manual_off"                -> "off"
    [] reason = "maintenance"               -> "run"
    [] reason = "auto_cold"                 -> IF prev_reason = "maintenance" THEN "none" ELSE "off"
    [] reason \in {"sensor_fail", "overheat"} -> "none"

(* The error lines for an overheat and a failed sensor say that the pump   *)
(* is on; those for their ends, and the end of an override, say nothing of *)
(* it.                                                                     *)
notify(event) ==
  IF event.type = "pump" THEN PumpNotice(s_state.reason)
  ELSE IF event.type \in {"overheat", "sensor"} /\ event.on THEN "on"
  ELSE "none"

NoticeInit == Init /\ prev_reason = "auto_cold" /\ told = "off"

NoticeNext ==
  \/ /\ Tick \/ Command
     /\ prev_reason' = s_state.reason
     /\ UNCHANGED told
  \/ /\ events_publish
     /\ LET notice == notify(Head(unsent)) IN told' = IF notice = "none" THEN told ELSE notice
     /\ UNCHANGED prev_reason
  \/ /\ Reset
     /\ prev_reason' = "auto_cold" /\ told' = "off"
  \/ /\ Clock \/ Start \/ Build \/ Send \/ Broker
     /\ UNCHANGED <<prev_reason, told>>

NoticeSpec == NoticeInit /\ [][NoticeNext]_noticeVars

-----------------------------------------------------------------------------
(* A switch to the fail-safe sends no notice, because "the error topic     *)
(* already has it" (events.c): so a reader who finds the pump running for  *)
(* a failed sensor was not told since that it stopped.                     *)
FailSafeIsTold ==
  LockFree /\ s_state.on /\ s_state.reason = "sensor_fail" => told = "on"

=============================================================================
