----------------------------- MODULE GameServer -----------------------------
(***************************************************************************)
(* The lobby server: the accept loop of source/game_server.cpp, the packet *)
(* dispatch of session_impl::reader, the registry it calls, and the stop   *)
(* signal of source/main.cpp.                                              *)
(*                                                                         *)
(* Everything runs on one thread, and a coroutine gives up control only    *)
(* where it awaits.  An action is therefore one packet handled by a reader *)
(* from its read to its next one, including the close and the reaping that *)
(* follow a refused packet.  The steps of a session's other coroutines are *)
(* visible here only when they close the session; module Session has them  *)
(* in full and shows that they follow the lives used here.                 *)
(***************************************************************************)
EXTENDS Registry

VARIABLE phase  \* of the process: see Phases

vars == <<registry_vars, life, phase>>

(***************************************************************************)
(* "running":     until a stop signal                                      *)
(* "last_accept": the signal closed the acceptor, but an accept that had   *)
(*                completed by then is still to be delivered               *)
(* "draining":    no more accepts; the drain timer runs                    *)
(* "stopped":     the io_context is stopped                                *)
(***************************************************************************)
Phases == {"running", "last_accept", "draining", "stopped"}

Init == InitRegistry /\ phase = "running"

Serving == phase # "stopped"

\* The reader of s is about to handle what it has read.
Reading(s) == Serving /\ life[s] = "open"
-----------------------------------------------------------------------------
(***************************************************************************)
(* run_game_server, on TCP and on UNIX sockets: an accept is delivered and *)
(* the loop goes on if the acceptor is still open.                         *)
(***************************************************************************)
AcceptDelivered ==
  /\ phase \in {"running", "last_accept"}
  /\ phase' = IF phase = "running" THEN "running" ELSE "draining"

Accept(s) ==
  /\ AcceptDelivered
  /\ life[s] = "idle"
  /\ try_open_connection(s)

\* No slot is left: the socket is closed and no session object is made.
AcceptRefused ==
  /\ AcceptDelivered
  /\ connection_count_ >= SERVER_USER_MAXIMUM
  /\ UNCHANGED <<registry_vars, life>>

(***************************************************************************)
(* reader(): the packets.  Where the handler returns false, and where the  *)
(* opcode has no handler, the reader closes the session, leaves its loops  *)
(* and reaps the session before it gives up control.                       *)
(***************************************************************************)
ReceiveLogin(s, pkt) ==
  /\ Reading(s)
  /\ UNCHANGED phase
  /\ \/ handle_login(s, pkt)
     \/ handle_login_throws(s, pkt)
     \/ ~login_accepted(s, pkt) /\ close_connection(s)

ReceiveConnect(s, name) ==
  /\ Reading(s)
  /\ UNCHANGED phase
  /\ \/ handle_connect(s, name)
     \/ ~connect_accepted(s, name) /\ close_connection(s)

ReceiveDisconnect(s) ==
  /\ Reading(s)
  /\ UNCHANGED phase
  /\ \/ handle_disconnect(s)
     \/ ~disconnect_accepted(s) /\ close_connection(s)

ReceiveScan(s) ==
  /\ Reading(s)
  /\ UNCHANGED phase
  /\ \/ handle_scan(s)
     \/ ~scan_accepted(s) /\ close_connection(s)

ReceiveChat(s) ==
  /\ Reading(s)
  /\ UNCHANGED phase
  /\ \/ handle_chat(s)
     \/ ~chat_accepted(s) /\ close_connection(s)

\* A PING only restarts the idle timer.
ReceivePing(s) ==
  /\ Reading(s)
  /\ game[s] # NULL
  /\ UNCHANGED vars

\* An opcode without a handler, and anything but LOGIN before the login.
ReceiveUnknown(s) ==
  /\ Reading(s)
  /\ close_connection(s)
  /\ UNCHANGED phase

(***************************************************************************)
(* The client hangs up, or the read fails.                                 *)
(***************************************************************************)
ReadFails(s) ==
  /\ Reading(s)
  /\ close_connection(s)
  /\ UNCHANGED phase

(***************************************************************************)
(* The watchdog's timeout, or a failed write: close() sets closed_ and the *)
(* pending read is aborted, but the session stays in its group until its   *)
(* reader has been resumed.  What it was told no longer matters.           *)
(***************************************************************************)
close(s) ==
  /\ Reading(s)
  /\ life' = [life EXCEPT ![s] = "closed"]
  /\ told' = [told EXCEPT ![s] = NoneTold]
  /\ UNCHANGED <<connection_count_, games_, users, groups, players, game, group,
                 bssid, founder, productids, phase>>

ReadAborted(s) ==
  /\ Serving
  /\ life[s] = "closed"
  /\ close_connection(s)
  /\ UNCHANGED phase

(***************************************************************************)
(* on_stop_signal broadcasts a chat message, closes the acceptors and      *)
(* starts the drain timer, whose handler stops the io_context.             *)
(***************************************************************************)
on_stop_signal ==
  /\ phase = "running"
  /\ phase' \in {"last_accept", "draining"}
  /\ UNCHANGED <<registry_vars, life>>

on_drained ==
  /\ phase \in {"last_accept", "draining"}
  /\ phase' = "stopped"
  /\ UNCHANGED <<registry_vars, life>>
-----------------------------------------------------------------------------
Receive(s) ==
  \/ \E pkt \in LoginPacket : ReceiveLogin(s, pkt)
  \/ \E name \in GroupName : ReceiveConnect(s, name)
  \/ ReceiveDisconnect(s)
  \/ ReceiveScan(s)
  \/ ReceiveChat(s)
  \/ ReceivePing(s)
  \/ ReceiveUnknown(s)

Next ==
  \/ \E s \in Session : Accept(s)
  \/ AcceptRefused
  \/ \E s \in Session : Receive(s)
  \/ \E s \in Session : ReadFails(s)
  \/ \E s \in Session : close(s)
  \/ \E s \in Session : ReadAborted(s)
  \/ on_stop_signal
  \/ on_drained

Spec == Init /\ [][Next]_vars
-----------------------------------------------------------------------------
Member(s) == group[s] # NULL
Holders == {s \in Session : life[s] # "idle"}
PeersAt(s, ip) == {p \in ToSet(players[group[s]]) \ {s} : Ip[p] = ip}

TypeOK ==
  /\ connection_count_ \in Nat
  /\ life \in [Session -> Lives]
  /\ games_ \in SUBSET ProductCode
  /\ users \in [ProductCode -> Seq(Session)]
  /\ groups \in SUBSET GroupKey
  /\ players \in [GroupKey -> Seq(Session)]
  /\ game \in [Session -> ProductCode \cup {NULL}]
  /\ group \in [Session -> GroupKey \cup {NULL}]
  /\ told \in [Session -> [IPv4 -> Int]]
  /\ bssid \in [Session -> Session \cup {NULL}]
  /\ founder \in [GroupKey -> Session \cup {NULL}]
  /\ productids \in SUBSET ProductCode
  /\ phase \in Phases

(***************************************************************************)
(* The raw session pointers the registry keeps in game_node::users and     *)
(* group_node::players are those of sessions whose reader coroutine still  *)
(* holds the object: one that was reaped, or whose reader died, is listed  *)
(* nowhere.                                                                *)
(***************************************************************************)
NoDanglingSession ==
  /\ \A c \in games_, s \in Session :
       s \in ToSet(users[c]) => life[s] \in {"open", "closed"}
  /\ \A k \in groups, s \in Session :
       s \in ToSet(players[k]) => life[s] \in {"open", "closed"}

(***************************************************************************)
(* The pointers back are good too: a session's game and group are live     *)
(* nodes that list it, exactly once, and its group belongs to its game.    *)
(* A handler may follow session.game->groups and session.group->players    *)
(* without a check because of this.                                        *)
(***************************************************************************)
NodesListTheirSessions ==
  \A s \in Session :
    /\ game[s] # NULL =>
         /\ game[s] \in games_
         /\ \E i \in 1..Len(users[game[s]]) :
              \A j \in 1..Len(users[game[s]]) : users[game[s]][j] = s <=> j = i
    /\ group[s] # NULL =>
         /\ group[s] \in groups
         /\ group[s][1] = game[s]
         /\ \E i \in 1..Len(players[group[s]]) :
              \A j \in 1..Len(players[group[s]]) : players[group[s]][j] = s <=> j = i

(***************************************************************************)
(* A game_node or group_node is destroyed with its last member, so a scan  *)
(* never lists an empty group and players.front() always exists; and a     *)
(* group never outlives its game.                                          *)
(***************************************************************************)
NoEmptyNodes ==
  /\ \A c \in games_ : users[c] # <<>>
  /\ \A k \in groups : players[k] # <<>> /\ k[1] \in games_

(***************************************************************************)
(* connection_count_ is the number of sessions that took a slot and did    *)
(* not give it back; the ones whose reader died on a database error never  *)
(* will.  The count never passes the maximum.                              *)
(***************************************************************************)
SlotAccounting ==
  /\ connection_count_ = Cardinality(Holders)
  /\ connection_count_ <= SERVER_USER_MAXIMUM

(***************************************************************************)
(* What an open session was told about its group since it joined is the    *)
(* group: for every IP address, the CONNECT packets queued to it exceed    *)
(* the DISCONNECT packets by the number of other members at that address,  *)
(* sessions that are closed but not yet reaped included.                   *)
(***************************************************************************)
PeerViewMatchesGroup ==
  \A s \in Session : Member(s) /\ life[s] = "open" =>
    \A ip \in IPv4 : told[s][ip] = Cardinality(PeersAt(s, ip))

(***************************************************************************)
(* While the session that founded a group stays in it, it is the front of  *)
(* the list and every member was told its MAC as the group's BSSID.        *)
(***************************************************************************)
FounderIsBssid ==
  \A k \in groups : founder[k] # NULL =>
    /\ Head(players[k]) = founder[k]
    /\ \A s \in ToSet(players[k]) : bssid[s] = founder[k]

(***************************************************************************)
(* Every game in the lobby has its row in the product table, which is      *)
(* where the status page looks its name up: the code that was recorded is  *)
(* the one the session plays under, crosslinks included.                   *)
(***************************************************************************)
PlayedGamesAreRecorded == games_ \subseteq productids

(***************************************************************************)
(* A session's place as the nodes record it: the game_node that lists it,  *)
(* and the group_node, of whichever game, that lists it.                   *)
(***************************************************************************)
GamesListing(s) == {c \in games_ : s \in ToSet(users[c])}
GroupsListing(s) == {k \in groups : s \in ToSet(players[k])}

PlaceInGames ==
  [s \in Session |-> IF GamesListing(s) = {} THEN NULL
                     ELSE CHOOSE c \in GamesListing(s) : TRUE]
PlaceInGroups ==
  [s \in Session |-> IF GroupsListing(s) = {} THEN NULL
                     ELSE (CHOOSE k \in GroupsListing(s) : TRUE)[2]]

L == INSTANCE Lobby WITH plays <- PlaceInGames, joined <- PlaceInGroups

(***************************************************************************)
(* The lists of the registry's nodes, read as each session's place, follow *)
(* the Lobby specification: destroying a group or a game moves nobody      *)
(* else, a session that is destroyed is in no list, and slots are bounded. *)
(***************************************************************************)
ImplementsLobby == L!Spec

(***************************************************************************)
(* "Database file '{}' not found; product lookups will be no-ops"          *)
(* (source/database.cpp:92): without a database the lobby works as with    *)
(* one, so every slot in use belongs to a session whose reader runs.       *)
(***************************************************************************)
LookupsAreNoOps ==
  ~DatabaseExists =>
    connection_count_ = Cardinality({s \in Session : life[s] \in {"open", "closed"}})

=============================================================================
