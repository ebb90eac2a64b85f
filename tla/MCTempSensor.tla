---------------------------- MODULE MCTempSensor -----------------------------
EXTENDS TempSensor

(* In range up to both ends, a sensor that has not converted, out of range. *)
MCValues == {-551, -550, 240, 850, 1250, 1251}

MCThresholds == [start_x10 |-> 300, stop_x10 |-> 250, critical_x10 |-> 440]
=============================================================================
