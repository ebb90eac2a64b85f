---------------------------- MODULE PumpPromise -----------------------------
(***************************************************************************)
(* What the controller promises the house, without clocks, thresholds or   *)
(* tasks: a set of demands is active, and the pump serves the one that the *)
(* rule table of the README ranks highest.                                 *)
(***************************************************************************)
EXTENDS Integers, Sequences

Rank == <<"overheat", "manual_on", "manual_off", "sensor_fail", "auto_hot", "maintenance">>

Demands == {Rank[i] : i \in 1..Len(Rank)}

VARIABLES
  demands,   \* the demands that are active
  serving    \* the demand being served, or "auto_cold" when there is none

vars == <<demands, serving>>

(* The active demand of the highest rank. *)
Top(D) ==
  IF D = {} THEN "auto_cold"
  ELSE Rank[CHOOSE i \in 1..Len(Rank) :
              Rank[i] \in D /\ \A j \in 1..(i - 1) : Rank[j] \notin D]

Pumping(demand) == demand \notin {"auto_cold", "manual_off"}

(* A manual stop never stands next to an overheat or a manual start, and   *)
(* overheated water is always hot enough to keep the pump running.         *)
Consistent(D) ==
  /\ "manual_off" \in D => D \cap {"overheat", "manual_on"} = {}
  /\ "overheat" \in D => "auto_hot" \in D

-----------------------------------------------------------------------------
Init == demands = {} /\ serving = "auto_cold"

(* Demands come and go, but a failed sensor neither raises nor clears a    *)
(* demand that comes from the temperature, and a maintenance run is only   *)
(* begun with the pump still, no override in force and a working sensor.   *)
Change(D) ==
  /\ Consistent(D)
  /\ D \cap {"overheat", "auto_hot"} # demands \cap {"overheat", "auto_hot"}
       => "sensor_fail" \notin D
  /\ "maintenance" \in D \ demands
       => /\ ~Pumping(serving)
          /\ D \cap {"manual_on", "manual_off", "sensor_fail"} = {}
  /\ demands' = D
  /\ serving' = Top(D)

(* A restart forgets every demand. *)
Restart == demands' = {} /\ serving' = "auto_cold"

Next == Restart \/ \E D \in SUBSET Demands : Change(D)

Spec == Init /\ [][Next]_vars

=============================================================================
