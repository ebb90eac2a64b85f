----------------------------- MODULE MCControl ------------------------------
EXTENDS Control

(* Two triples between which a reading changes sides.                      *)
MCConfigs == {[start_x10 |-> 300, stop_x10 |-> 250, critical_x10 |-> 440],
              [start_x10 |-> 500, stop_x10 |-> 450, critical_x10 |-> 600]}

OneConfig == {[start_x10 |-> 300, stop_x10 |-> 250, critical_x10 |-> 440]}

TwoReadings == {[valid |-> FALSE, temp_x10 |-> 0], [valid |-> TRUE, temp_x10 |-> 440]}

MCReadings == {[valid |-> FALSE, temp_x10 |-> 0],
               [valid |-> TRUE, temp_x10 |-> 240], [valid |-> TRUE, temp_x10 |-> 440]}
=============================================================================
