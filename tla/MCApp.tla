------------------------------- MODULE MCApp --------------------------------
EXTENDS App

(* Idle or overheated water, and any override the water allows.            *)
MCWorlds ==
  {base \cup override : base \in {{}, {"auto_hot", "overheat"}},
                       override \in {{}, {"manual_on"}, {"manual_off"}}}
    \ {{"auto_hot", "overheat", "manual_off"}}

=============================================================================
