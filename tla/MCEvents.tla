------------------------------ MODULE MCEvents -------------------------------
EXTENDS Events

MCConfigs == {[start_x10 |-> 300, stop_x10 |-> 250, critical_x10 |-> 440]}

(* A failed read, and one temperature for each way the flags can change.   *)
MCReadings == {[valid |-> FALSE, temp_x10 |-> 0],
               [valid |-> TRUE, temp_x10 |-> 240], [valid |-> TRUE, temp_x10 |-> 310],
               [valid |-> TRUE, temp_x10 |-> 440]}

ThreeReadings == {[valid |-> FALSE, temp_x10 |-> 0],
               [valid |-> TRUE, temp_x10 |-> 240], [valid |-> TRUE, temp_x10 |-> 440]}
TwoReadings == {[valid |-> TRUE, temp_x10 |-> 240], [valid |-> TRUE, temp_x10 |-> 310]}
=============================================================================
