----------------------------- MODULE MCCounters -----------------------------
EXTENDS Ingest

(* Two days in a row, and the one before them after a correction.          *)
MCDays == {100, 101}

=============================================================================
