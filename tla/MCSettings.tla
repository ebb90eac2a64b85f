----------------------------- MODULE MCSettings -----------------------------
EXTENDS Settings

(* Each field left out, below its range, inside it and above it.           *)
MCPatches == LET Value == {NoValue, -999, 320, 610, 1900}
             IN  [start_x10: Value, stop_x10: Value, critical_x10: Value]

(* Blobs written by a firmware with other bounds.                          *)
MCStoredBlobs == {Thresholds(300, 250, 450), Thresholds(100, 90, 900), Thresholds(700, 695, 700)}
=============================================================================
