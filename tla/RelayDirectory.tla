--------------------------- MODULE RelayDirectory ---------------------------
(***************************************************************************)
(* relay_directory of source/relay_server.cpp: for each MAC address a      *)
(* port_set of two sorted vectors.  An address is a key of the map only    *)
(* while it has a port.  Relay sessions add and remove entries in any      *)
(* order, and remove some that are not there: finish() removes by key, so  *)
(* a session may take away what another one added, and then that one's own *)
(* remove() finds nothing.                                                 *)
(***************************************************************************)
EXTENDS Integers, SequencesExt

CONSTANTS
  Mac,
  Port   \* u16

ASSUME DirectoryAssumption == Port \subseteq Nat

VARIABLES
  by_mac_,  \* a function whose domain is the set of keys
  added     \* history: what the last add() returned

vars == <<by_mac_, added>>

Kind == {"pdp", "ptp"}
NoPorts == [kind \in Kind |-> <<>>]

Init ==
  /\ by_mac_ = [mac \in {} |-> NoPorts]
  /\ added = FALSE

find(mac) == IF mac \in DOMAIN by_mac_ THEN by_mac_[mac] ELSE NoPorts

\* The map with the port_set of mac replaced, or added.
With(mac, set) == [m \in DOMAIN by_mac_ \cup {mac} |-> IF m = mac THEN set ELSE by_mac_[m]]
Without(mac) == [m \in DOMAIN by_mac_ \ {mac} |-> by_mac_[m]]

(***************************************************************************)
(* External: std::lower_bound, the position before which all elements are  *)
(* smaller and from which on none is.                                      *)
(***************************************************************************)
lower_bound(ports, port) ==
  CHOOSE i \in 1..(Len(ports) + 1) :
    /\ \A j \in 1..(i - 1) : ports[j] < port
    /\ \A j \in i..Len(ports) : ports[j] >= port
-----------------------------------------------------------------------------
\* Mutant: push_back.
InsertedLast(ports, port) == Append(ports, port)
Inserted(ports, port) == InsertAt(ports, lower_bound(ports, port), port)

(***************************************************************************)
(* add and remove: what becomes of the map, and what add returns.          *)
(* operator[] makes an empty port_set for a new address.                   *)
(***************************************************************************)
present(mac, kind, port) ==
  LET ports == find(mac)[kind]
      it == lower_bound(ports, port)
  IN it <= Len(ports) /\ ports[it] = port

Added(mac, kind, port) ==
  With(mac, IF present(mac, kind, port) THEN find(mac)
            ELSE [find(mac) EXCEPT ![kind] = Inserted(@, port)])

\* Mutant: the address goes with the last port of the kind.
EmptyOf(set, kind) == set[kind] = <<>>
Empty(set, kind) == \A k \in Kind : set[k] = <<>>

Removed(mac, kind, port) ==
  LET set == [find(mac) EXCEPT ![kind] = RemoveFirst(@, port)]
  IN IF mac \notin DOMAIN by_mac_ THEN by_mac_
     ELSE IF Empty(set, kind) THEN Without(mac)
     ELSE With(mac, set)

add(mac, kind, port) ==
  /\ by_mac_' = Added(mac, kind, port)
  /\ added' = ~present(mac, kind, port)

remove(mac, kind, port) ==
  /\ by_mac_' = Removed(mac, kind, port)
  /\ UNCHANGED added

Next ==
  \E mac \in Mac, kind \in Kind, port \in Port :
    \/ add(mac, kind, port)
    \/ remove(mac, kind, port)

Spec == Init /\ [][Next]_vars
-----------------------------------------------------------------------------
StrictlyAscending(ports) == \A i, j \in 1..Len(ports) : i < j => ports[i] < ports[j]

(***************************************************************************)
(* Each vector stays sorted and free of duplicates, which lower_bound      *)
(* relies on and which makes the one erase of remove() enough; and an      *)
(* address whose last port went is no key any more, whichever kind went    *)
(* first, so the map does not grow with every client that ever came.       *)
(***************************************************************************)
DirectoryIsTidy ==
  \A mac \in DOMAIN by_mac_ :
    /\ \A kind \in Kind : StrictlyAscending(by_mac_[mac][kind])
    /\ \E kind \in Kind : by_mac_[mac][kind] # <<>>

Listed == {e \in Mac \X Kind \X Port : e[3] \in ToSet(find(e[1])[e[2]])}

P == INSTANCE PortList WITH listed <- Listed

(***************************************************************************)
(* The two vectors behind each address implement the set of ports that     *)
(* module Relay works with: add() returns true just when the port was      *)
(* free, and add() and remove() touch no port but their own.               *)
(***************************************************************************)
ImplementsPortList == P!Spec

=============================================================================
