--------------------------- MODULE MCStatusServer ---------------------------
(***************************************************************************)
(* Three users, one status connection.                                     *)
(***************************************************************************)
EXTENDS StatusServer

CONSTANTS home, m1

MCProductCode == {"ULUS10000", "ULES10000"}
MCCrosslinks == [c \in {} |-> ""]
MCIp == [s \in Session |-> home]
OneMac == [s \in Session |-> m1]

\* The users share their addresses.
Symmetry == Permutations(Session)

=============================================================================
