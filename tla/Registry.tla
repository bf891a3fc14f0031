------------------------------ MODULE Registry ------------------------------
(***************************************************************************)
(* The lobby registry of source/registry.cpp: which sessions hold a        *)
(* connection slot, which game each one plays and which group it is in.    *)
(*                                                                         *)
(* The C++ objects point at each other with raw pointers.  A game_node is  *)
(* named by its product code and a group_node by the pair of its game's    *)
(* code and its own name, which are the keys of the maps that own them; a  *)
(* pointer is such a key, and it dangles when the key's node is gone.      *)
(*                                                                         *)
(* A session's MAC address and nickname are copied from its own fields     *)
(* into every packet about it, so the session itself stands for them.  The *)
(* IP address is different: a DISCONNECT packet carries nothing else, and  *)
(* several sessions may share one (NAT; every IPv6 and UNIX peer has 0).   *)
(***************************************************************************)
EXTENDS Integers, FiniteSets, SequencesExt, ProductDb

CONSTANTS
  Session,              \* identities of user_session objects
  GroupName,            \* group names a client may send
  ValidGroupName,       \* the ones valid_group_name lets through
  ValidProductCode,     \* the product codes valid_product_code lets through
  IPv4,                 \* values of user_session::ip_be
  Ip,                   \* the ip_be the accept code gives each session
  SERVER_USER_MAXIMUM,  \* connection slots
  NULL                  \* the null pointer

VARIABLES
  connection_count_,  \* slots in use, as the registry counts them
  life,               \* of each session object: see Lives
  games_,             \* codes of the live game_nodes
  users,              \* game_node::users of each code
  groups,             \* keys of the live group_nodes
  players,            \* group_node::players of each key
  game,               \* user_session::game
  group,              \* user_session::group
  told,               \* history: CONNECTs minus DISCONNECTs, per IP address,
                      \* queued to a session since it joined its group
  bssid,              \* history: whose MAC a session's last CONNECT_BSSID carried
  founder             \* history: who created a group_node, until that session leaves

registry_vars == <<connection_count_, games_, users, groups, players, game, group,
                   told, bssid, founder, productids>>

GroupKey == ProductCode \X ValidGroupName

ASSUME RegistryAssumption ==
  /\ ValidGroupName \subseteq GroupName
  /\ ValidProductCode \subseteq ProductCode
  /\ Ip \in [Session -> IPv4]
  /\ IsFiniteSet(Session)
  /\ SERVER_USER_MAXIMUM \in Nat
  /\ NULL \notin ProductCode
  /\ NULL \notin GroupKey
  /\ NULL \notin Session
  /\ NULL \notin ValidGroupName

(***************************************************************************)
(* "idle":     no such object (not accepted yet, or reaped and destroyed)  *)
(* "open":     the three coroutines run                                    *)
(* "closed":   closed_ is set and the reader has not finished yet          *)
(* "orphaned": an exception ended the reader before it could reap          *)
(***************************************************************************)
Lives == {"idle", "open", "closed", "orphaned"}

NoneTold == [ip \in IPv4 |-> 0]

InitRegistry ==
  /\ connection_count_ = 0
  /\ life = [s \in Session |-> "idle"]
  /\ games_ = {}
  /\ users = [c \in ProductCode |-> <<>>]
  /\ groups = {}
  /\ players = [k \in GroupKey |-> <<>>]
  /\ game = [s \in Session |-> NULL]
  /\ group = [s \in Session |-> NULL]
  /\ told = [s \in Session |-> NoneTold]
  /\ bssid = [s \in Session |-> NULL]
  /\ founder = [k \in GroupKey |-> NULL]
  /\ InitDb
-----------------------------------------------------------------------------
\* std::find and erase: the first occurrence goes, the order of the rest stays.
vector_remove(v, value) == RemoveFirst(v, value)

\* send_bytes drops what it is given once closed_ is set.
Receives(p, v) == p \in ToSet(v) /\ life[p] = "open"

(***************************************************************************)
(* leave_group: take the session off its group, send DISCONNECT to the     *)
(* members that remain and erase the group when none does.                 *)
(***************************************************************************)
PlayersLeft(s) == vector_remove(players[group[s]], s)

leave_group_players(s) ==
  IF group[s] = NULL THEN players ELSE [players EXCEPT ![group[s]] = PlayersLeft(s)]

leave_group_never_erases(s) == groups                \* mutant: the empty group stays
leave_group_always_erases(s) == groups \ {group[s]}  \* mutant: so do the others' places
leave_group_groups(s) ==
  IF group[s] # NULL /\ PlayersLeft(s) = <<>> /\ game[s] # NULL
  THEN groups \ {group[s]}
  ELSE groups

\* Mutant: nobody is sent a DISCONNECT.
leave_group_silently(s) == [told EXCEPT ![s] = NoneTold]
leave_group_told(s) ==
  [p \in Session |->
     IF p = s THEN NoneTold
     ELSE IF group[s] # NULL /\ Receives(p, PlayersLeft(s))
          THEN [told[p] EXCEPT ![Ip[s]] = @ - 1]
          ELSE told[p]]

leave_group(s) ==
  /\ group' = [group EXCEPT ![s] = NULL]
  /\ bssid' = [bssid EXCEPT ![s] = NULL]
  /\ players' = leave_group_players(s)
  /\ told' = leave_group_told(s)
  /\ founder' = [k \in GroupKey |-> IF founder[k] = s THEN NULL ELSE founder[k]]
-----------------------------------------------------------------------------
\* Mutant: one slot too many.
try_open_connection_late(s) ==
  /\ connection_count_ <= SERVER_USER_MAXIMUM
  /\ connection_count_' = connection_count_ + 1
  /\ life' = [life EXCEPT ![s] = "open"]
  /\ UNCHANGED <<games_, users, groups, players, game, group, told, bssid, founder,
                 productids>>

try_open_connection(s) ==
  /\ connection_count_ < SERVER_USER_MAXIMUM
  /\ connection_count_' = connection_count_ + 1
  /\ life' = [life EXCEPT ![s] = "open"]
  /\ UNCHANGED <<games_, users, groups, players, game, group, told, bssid, founder,
                 productids>>

UsersKept(s) == users[game[s]]  \* mutant: the game keeps the pointer
UsersLeft(s) == vector_remove(users[game[s]], s)

\* destroy_game_if_empty: erasing a game_node takes the groups it owns with it.
GameAlwaysDestroyed(s) == game[s] # NULL  \* mutant: the emptiness is not tested
GameDestroyed(s) == game[s] # NULL /\ UsersLeft(s) = <<>>

close_connection(s) ==
  /\ life' = [life EXCEPT ![s] = "idle"]
  /\ leave_group(s)
  /\ game' = [game EXCEPT ![s] = NULL]
  /\ users' = IF game[s] = NULL THEN users ELSE [users EXCEPT ![game[s]] = UsersLeft(s)]
  /\ games_' = IF GameDestroyed(s) THEN games_ \ {game[s]} ELSE games_
  /\ groups' = IF GameDestroyed(s)
               THEN {k \in leave_group_groups(s) : k[1] # game[s]}
               ELSE leave_group_groups(s)
  /\ connection_count_' = IF connection_count_ # 0 THEN connection_count_ - 1 ELSE 0
  /\ UNCHANGED productids

(***************************************************************************)
(* A login packet: the product code, and whether the MAC address and the   *)
(* nickname pass their checks (neither zero nor broadcast; not empty).     *)
(***************************************************************************)
LoginPacket == [game : ProductCode, sane : BOOLEAN]

valid_login_packet(pkt) == pkt.game \in ValidProductCode /\ pkt.sane

login_accepted(s, pkt) == game[s] = NULL /\ valid_login_packet(pkt)

\* Mutant: the code the client sent is recorded, not the crosslinked one.
handle_login_records_sent(s, pkt) ==
  LET code == apply_crosslink(pkt.game)
      old == IF code \in games_ THEN users[code] ELSE <<>>
  IN /\ login_accepted(s, pkt)
     /\ LookupMaySucceed
     /\ record_unknown_product(pkt.game)
     /\ games_' = games_ \cup {code}
     /\ users' = [users EXCEPT ![code] = Append(old, s)]
     /\ game' = [game EXCEPT ![s] = code]
     /\ UNCHANGED <<connection_count_, life, groups, players, group, told, bssid,
                    founder>>

\* The rest of handle_login, when both database lookups return.
handle_login(s, pkt) ==
  LET code == apply_crosslink(pkt.game)
      old == IF code \in games_ THEN users[code] ELSE <<>>
  IN /\ login_accepted(s, pkt)
     /\ LookupMaySucceed
     /\ record_unknown_product(code)
     /\ games_' = games_ \cup {code}
     /\ users' = [users EXCEPT ![code] = Append(old, s)]
     /\ game' = [game EXCEPT ![s] = code]
     /\ UNCHANGED <<connection_count_, life, groups, players, group, told, bssid,
                    founder>>

(***************************************************************************)
(* A lookup throws before the registry is touched.  The exception ends the *)
(* reader coroutine, which runs detached: nobody closes the session and    *)
(* nobody calls close_connection.                                          *)
(***************************************************************************)
handle_login_throws(s, pkt) ==
  /\ login_accepted(s, pkt)
  /\ LookupMayThrow
  /\ life' = [life EXCEPT ![s] = "orphaned"]
  /\ UNCHANGED registry_vars

\* Mutant: the name is not validated.
connect_accepts_any_name(s, name) == game[s] # NULL /\ group[s] = NULL
connect_accepted(s, name) ==
  game[s] # NULL /\ name \in ValidGroupName /\ group[s] = NULL

\* The CONNECT_BSSID packet carries the MAC of players.front().
BssidLast(list) == Last(list)  \* mutant: players.back()
Bssid(list) == Head(list)

(***************************************************************************)
(* handle_connect: every member is told of the newcomer and the newcomer   *)
(* of every member, then the newcomer is told the MAC of the first in the  *)
(* list.                                                                   *)
(***************************************************************************)
handle_connect(s, name) ==
  LET key == <<game[s], name>>
      old == IF key \in groups THEN players[key] ELSE <<>>
      now == Append(old, s)
  IN /\ connect_accepted(s, name)
     /\ groups' = groups \cup {key}
     /\ players' = [players EXCEPT ![key] = now]
     /\ group' = [group EXCEPT ![s] = key]
     /\ told' = [p \in Session |->
                   IF p = s
                   THEN [ip \in IPv4 |-> Cardinality({q \in ToSet(old) : Ip[q] = ip})]
                   ELSE IF Receives(p, old)
                        THEN [told[p] EXCEPT ![Ip[s]] = @ + 1]
                        ELSE told[p]]
     /\ bssid' = [bssid EXCEPT ![s] = Bssid(now)]
     /\ founder' = [founder EXCEPT ![key] = IF key \in groups THEN @ ELSE s]
     /\ UNCHANGED <<connection_count_, life, games_, users, game, productids>>

disconnect_accepted(s) == game[s] # NULL /\ group[s] # NULL

handle_disconnect(s) ==
  /\ disconnect_accepted(s)
  /\ leave_group(s)
  /\ groups' = leave_group_groups(s)
  /\ UNCHANGED <<connection_count_, life, games_, users, game, productids>>

(***************************************************************************)
(* handle_scan and handle_chat only fill write queues: the answer to a     *)
(* scan, and the chat message for the other members of the group.          *)
(***************************************************************************)
scan_accepted(s) == game[s] # NULL /\ group[s] = NULL

handle_scan(s) == scan_accepted(s) /\ UNCHANGED <<registry_vars, life>>

chat_accepted(s) == game[s] # NULL /\ group[s] # NULL

handle_chat(s) == chat_accepted(s) /\ UNCHANGED <<registry_vars, life>>

=============================================================================
