---------------------------- MODULE MCGameServer ----------------------------
(***************************************************************************)
(* A small lobby for TLC: three sessions, two of them at one IP address,   *)
(* two or three slots, two games, one of which is reached only through a   *)
(* crosslink to a code a client could not send, two groups and one name    *)
(* that is not valid.                                                      *)
(***************************************************************************)
EXTENDS GameServer

CONSTANTS s1, s2, s3, home, nat

MCProductCode == {"ULUS10000", "ULES10000", "linked"}
MCValidProductCode == {"ULUS10000", "ULES10000"}
MCCrosslinks == [c \in {"ULES10000"} |-> "linked"]
MCGroupName == {"lobby", "arena", "b@d"}
MCValidGroupName == {"lobby", "arena"}
MCIp == [s \in Session |-> IF s = s3 THEN home ELSE nat]

\* s1 and s2 share their address, so nothing tells them apart.
Symmetry == Permutations({s1, s2})

=============================================================================
