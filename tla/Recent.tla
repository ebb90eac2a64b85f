------------------------------- MODULE Recent --------------------------------
(***************************************************************************)
(* What the event log and the temperature history promise their readers:   *)
(* the latest items, newest first, at most Size of them.                   *)
(***************************************************************************)
EXTENDS Integers, Sequences

CONSTANTS Items, Size

VARIABLES
  log,
  given   \* the item added last

vars == <<log, given>>

Init == log = <<>>

Add(item) ==
  /\ given' = item
  /\ log' = [i \in 1..(IF Len(log) < Size THEN Len(log) + 1 ELSE Size) |->
               IF i = 1 THEN item ELSE log[i - 1]]

(* What is given does not matter then.                                     *)
Restart == log' = <<>>

Next == Restart \/ \E item \in Items : Add(item)

Spec == Init /\ [][Next]_vars

=============================================================================
