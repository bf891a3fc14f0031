------------------------------ MODULE MCRelay ------------------------------
(***************************************************************************)
(* A small relay for TLC: a host that listens and a guest that connects to *)
(* it, with several session objects, so that either side may retry, come   *)
(* back or disappear at any point.                                         *)
(***************************************************************************)
EXTENDS Relay, TLC

CONSTANTS host, guest

Listen(a) == [mode |-> "PTP_LISTEN", from |-> a, to |-> NULL]
Connect == [mode |-> "PTP_CONNECT", from |-> guest, to |-> host]
AcceptGuest == [mode |-> "PTP_ACCEPT", from |-> host, to |-> guest]
Pdp(a) == [mode |-> "PDP", from |-> a, to |-> NULL]

StreamRequests == {Listen(host), Connect, AcceptGuest}

\* The guest also listens on the port it connects from: one directory entry for two.
PtpRequests == StreamRequests \cup {Listen(guest)}

PdpRequests == {Pdp(host), Pdp(guest)}

AllRequests == PtpRequests \cup PdpRequests

Symmetry == Permutations(RelaySession)

=============================================================================
