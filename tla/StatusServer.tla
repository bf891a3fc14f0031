---------------------------- MODULE StatusServer ----------------------------
(***************************************************************************)
(* The status server of source/status_server.cpp beside the lobby and the  *)
(* relay's directory, which it reads: HTTP connections that ask for        *)
(* /data.json and get a page of every game, its groups and their users,    *)
(* with the relay ports of each user.                                      *)
(*                                                                         *)
(* A page is built in one step, without a co_await, from the users lists   *)
(* of the games and each session's own group pointer; the group_nodes and  *)
(* their players lists are not looked at.  A session that is closed and    *)
(* not yet reaped is still shown.  Text and its escaping are left out.     *)
(***************************************************************************)
EXTENDS GameServer

CONSTANTS
  Connection,  \* status connections
  Mac,
  Port,
  MacOf        \* user_session::mac, as the client gave it

Groupless == "Groupless"

\* No group is called Groupless: a name has ADHOCCTL_GROUPNAME_LEN bytes, one less.
ASSUME StatusAssumption ==
  /\ MacOf \in [Session -> Mac]
  /\ Port \subseteq Nat
  /\ Groupless \notin ValidGroupName

VARIABLES
  status_acceptor,  \* "open", "last_accept" (see Phases) or "closed"
  connection,       \* of each status connection: see ConnectionState
  by_mac_,          \* the relay's directory: see RelayDirectory
  page              \* history: the page the last step built, or NULL

\* What the last add() of the directory returned is of no interest here.
D == INSTANCE RelayDirectory WITH added <- FALSE

status_vars == <<vars, status_acceptor, connection, by_mac_, page>>

(***************************************************************************)
(* "none": no such connection; "reading": awaits a request; otherwise the  *)
(* response is being written, after which the connection is kept or not.   *)
(***************************************************************************)
ConnectionState == {"none", "reading", "writing_keep_alive", "writing_last"}

StatusInit ==
  /\ Init
  /\ D!Init
  /\ status_acceptor = "open"
  /\ connection = [c \in Connection |-> "none"]
  /\ page = NULL
-----------------------------------------------------------------------------
(***************************************************************************)
(* registry::snapshot_for_status, with the games in the order in which the *)
(* unordered map happens to have them.                                     *)
(***************************************************************************)
status_user(s, code) ==
  [session |-> s, product_code |-> code,
   group |-> IF group[s] = NULL THEN NULL ELSE group[s][2]]

snapshot_for_status(order) ==
  FlattenSeq([i \in 1..Len(order) |->
                [j \in 1..Len(users[order[i]]) |-> status_user(users[order[i]][j], order[i])]])

(***************************************************************************)
(* build_status_games: the two indexes map a code to its place in games,   *)
(* and a name to its place in a game's groups; try_emplace appends what is *)
(* not there yet.                                                          *)
(***************************************************************************)
WithGame(list, code) ==
  IF \E g \in ToSet(list) : g.code = code THEN list
  ELSE Append(list, [code |-> code, name |-> display_name_for(code),
                     user_count |-> 0, groups |-> <<>>])

WithGroup(list, name) ==
  IF \E g \in ToSet(list) : g.name = name THEN list
  ELSE Append(list, [name |-> name, users |-> <<>>])

\* Mutant: the group that was appended last gets the user.
AddToLastGroup(list, user) ==
  LET name == IF user.group = NULL THEN Groupless ELSE user.group
      all == WithGroup(list, name)
  IN [all EXCEPT ![Len(all)].users = Append(@, user.session)]

AddToGroup(list, user) ==
  LET name == IF user.group = NULL THEN Groupless ELSE user.group
      all == WithGroup(list, name)
  IN [i \in 1..Len(all) |->
        IF all[i].name = name THEN [all[i] EXCEPT !.users = Append(@, user.session)]
        ELSE all[i]]

AddUser(list, user) ==
  LET all == WithGame(list, user.product_code)
  IN [i \in 1..Len(all) |->
        IF all[i].code = user.product_code
        THEN [all[i] EXCEPT !.user_count = @ + 1, !.groups = AddToGroup(@, user)]
        ELSE all[i]]

build_status_games(order) == FoldLeft(AddUser, <<>>, snapshot_for_status(order))

\* Mutant: one kind of port is shown twice.
status_ports_pdp_twice(s) ==
  LET ports == D!find(MacOf[s]) IN [pdp |-> ports["pdp"], ptp |-> ports["pdp"]]
\* What build_status_json adds to a user: the arrays, empty for an unknown address.
status_ports(s) ==
  LET ports == D!find(MacOf[s]) IN [pdp |-> ports["pdp"], ptp |-> ports["ptp"]]

build_status_json(order) ==
  [games |-> build_status_games(order),
   ports |-> [s \in {u \in Session : game[u] # NULL} |-> status_ports(s)]]
-----------------------------------------------------------------------------
(***************************************************************************)
(* run_status_server_generic and handle_status_connection                  *)
(***************************************************************************)
StatusAccept(c) ==
  /\ Serving
  /\ status_acceptor # "closed"
  /\ connection[c] = "none"
  /\ connection' = [connection EXCEPT ![c] = "reading"]
  /\ status_acceptor' = IF status_acceptor = "open" THEN "open" ELSE "closed"
  /\ page' = NULL
  /\ UNCHANGED <<vars, by_mac_>>

Answered(keep_alive) == IF keep_alive THEN "writing_keep_alive" ELSE "writing_last"

\* Not GET /data.json: 404.
RequestOther(c, keep_alive) ==
  /\ Serving
  /\ connection[c] = "reading"
  /\ connection' = [connection EXCEPT ![c] = Answered(keep_alive)]
  /\ page' = NULL
  /\ UNCHANGED <<vars, status_acceptor, by_mac_>>

\* display_name_for is called once for each game, and each call has to succeed.
RequestData(c, keep_alive) ==
  /\ Serving
  /\ connection[c] = "reading"
  /\ games_ # {} => LookupMaySucceed
  /\ connection' = [connection EXCEPT ![c] = Answered(keep_alive)]
  /\ \E order \in SetToSeqs(games_) : page' = build_status_json(order)
  /\ UNCHANGED <<vars, status_acceptor, by_mac_>>

\* A lookup throws: the detached coroutine ends, and its socket with it.
RequestDataThrows(c) ==
  /\ Serving
  /\ connection[c] = "reading"
  /\ games_ # {}
  /\ LookupMayThrow
  /\ connection' = [connection EXCEPT ![c] = "none"]
  /\ page' = NULL
  /\ UNCHANGED <<vars, status_acceptor, by_mac_>>

ResponseWritten(c) ==
  /\ Serving
  /\ connection[c] \in {"writing_keep_alive", "writing_last"}
  /\ connection' = [connection EXCEPT ![c] =
                      IF @ = "writing_keep_alive" THEN "reading" ELSE "none"]
  /\ page' = NULL
  /\ UNCHANGED <<vars, status_acceptor, by_mac_>>

\* A read or a write fails: the loop ends and the stream is closed.
StatusFails(c) ==
  /\ Serving
  /\ connection[c] # "none"
  /\ connection' = [connection EXCEPT ![c] = "none"]
  /\ page' = NULL
  /\ UNCHANGED <<vars, status_acceptor, by_mac_>>
-----------------------------------------------------------------------------
\* A step of the lobby.  The stop signal closes this acceptor too.
LobbyStep ==
  /\ Next
  /\ status_acceptor' \in IF phase = "running" /\ phase' # "running"
                          THEN {"last_accept", "closed"} ELSE {status_acceptor}
  /\ page' = NULL
  /\ UNCHANGED <<connection, by_mac_>>

\* A step of a relay session that changes the directory: see Relay.
RelayStep ==
  /\ Serving
  /\ \E mac \in Mac, kind \in D!Kind, port \in Port :
       by_mac_' \in {D!Added(mac, kind, port), D!Removed(mac, kind, port)}
  /\ page' = NULL
  /\ UNCHANGED <<vars, status_acceptor, connection>>

StatusNext ==
  \/ LobbyStep
  \/ RelayStep
  \/ \E c \in Connection :
       \/ StatusAccept(c)
       \/ \E keep_alive \in BOOLEAN : RequestOther(c, keep_alive) \/ RequestData(c, keep_alive)
       \/ RequestDataThrows(c)
       \/ ResponseWritten(c)
       \/ StatusFails(c)

StatusSpec == StatusInit /\ [][StatusNext]_status_vars
-----------------------------------------------------------------------------
(***************************************************************************)
(* The lobby as the group_nodes have it: the groups of a game with their   *)
(* members, and the users that are in none.                                *)
(***************************************************************************)
Loners(code) == {s \in Session : game[s] = code /\ \A k \in groups : s \notin ToSet(players[k])}

LobbyGroups(code) ==
  {[name |-> k[2], users |-> ToSet(players[k])] : k \in {k \in groups : k[1] = code}}
    \cup {[name |-> Groupless, users |-> S] : S \in {Loners(code)} \ {{}}}

(***************************************************************************)
(* A page shows the lobby as it is: each live game once, under the name in *)
(* its row of the product table, with its number of users, and each group  *)
(* with just the members of its group_node, none of them twice, although   *)
(* the page is put together from the sessions' own pointers, in an order   *)
(* the map chooses, while sessions that are closed wait to be reaped.      *)
(***************************************************************************)
PageShowsLobby ==
  page # NULL =>
    /\ Len(page.games) = Cardinality(games_)
    /\ {g.code : g \in ToSet(page.games)} = games_
    /\ \A g \in ToSet(page.games) :
         /\ g.name = [code |-> g.code, from_row |-> TRUE]
         /\ g.user_count = Len(users[g.code])
         /\ Len(g.groups) = Cardinality(LobbyGroups(g.code))
         /\ {[name |-> e.name, users |-> ToSet(e.users)] : e \in ToSet(g.groups)}
              = LobbyGroups(g.code)
         /\ \A e \in ToSet(g.groups) : Len(e.users) = Cardinality(ToSet(e.users))

(***************************************************************************)
(* The ports shown for a user are those the directory lists for its MAC    *)
(* address, each once and under its own kind, whatever relay sessions have *)
(* added and removed since the last page.                                  *)
(***************************************************************************)
PageShowsPorts ==
  page # NULL => \A s \in DOMAIN page.ports :
    \A kind \in D!Kind :
      /\ ToSet(page.ports[s][kind]) = {p \in Port : <<MacOf[s], kind, p>> \in D!Listed}
      /\ IsInjective(page.ports[s][kind])

=============================================================================
