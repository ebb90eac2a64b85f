---------------------------- MODULE MCPumpLogic -----------------------------
EXTENDS PumpLogic

(* Two of the triples that settings.c can store.                           *)
MCConfigs == {[start_x10 |-> 300, stop_x10 |-> 250, critical_x10 |-> 440],
              [start_x10 |-> 270, stop_x10 |-> 230, critical_x10 |-> 430]}

(* A failed read, and temperatures the two triples sort differently.       *)
Temp(t) == [valid |-> TRUE, temp_x10 |-> t]
Failed == [valid |-> FALSE, temp_x10 |-> 0]

MCReadings == {Failed, Temp(240), Temp(415), Temp(440)}
=============================================================================
