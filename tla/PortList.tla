------------------------------ MODULE PortList ------------------------------
(***************************************************************************)
(* What relay_directory promises, and how module Relay uses it: a set of   *)
(* listed ports.  add() says whether the port was free.                    *)
(***************************************************************************)
CONSTANTS Mac, Kind, Port

VARIABLES
  listed,  \* set of <<mac, kind, port>>
  added    \* what the last add() returned

vars == <<listed, added>>

Init == listed = {} /\ added = FALSE

Add(entry) ==
  /\ listed' = listed \cup {entry}
  /\ added' = (entry \notin listed)

Remove(entry) ==
  /\ listed' = listed \ {entry}
  /\ UNCHANGED added

Next == \E entry \in Mac \X Kind \X Port : Add(entry) \/ Remove(entry)

Spec == Init /\ [][Next]_vars

=============================================================================
