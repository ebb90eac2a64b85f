------------------------------ MODULE MCNotices ------------------------------
EXTENDS Notices

MCConfigs == {[start_x10 |-> 300, stop_x10 |-> 250, critical_x10 |-> 440]}

(* A failed read, cold and warm water.                                     *)
MCReadings == {[valid |-> FALSE, temp_x10 |-> 0],
               [valid |-> TRUE, temp_x10 |-> 240], [valid |-> TRUE, temp_x10 |-> 310]}

=============================================================================
