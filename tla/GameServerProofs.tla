-------------------------- MODULE GameServerProofs --------------------------
(***************************************************************************)
(* Proofs about module GameServer: the raw pointers between sessions and   *)
(* nodes are good, for any number of sessions, games, groups and slots.    *)
(***************************************************************************)
EXTENDS GameServer, ListLemmas, FiniteSetTheorems

(***************************************************************************)
(* The inductive invariant: a game_node lists exactly the sessions whose   *)
(* game it is, each once; a group_node likewise; and only sessions that    *)
(* still have their reader are in a game.                                  *)
(***************************************************************************)
GamesInv ==
  /\ \A c \in games_ : users[c] # <<>> /\ Distinct(users[c])
  /\ \A c \in games_, s \in Session : s \in ToSet(users[c]) <=> game[s] = c
  /\ \A s \in Session : game[s] # NULL => game[s] \in games_

GroupsInv ==
  /\ \A k \in groups : players[k] # <<>> /\ Distinct(players[k])
  /\ \A k \in groups, s \in Session : s \in ToSet(players[k]) <=> group[s] = k
  /\ \A s \in Session : group[s] # NULL => group[s] \in groups /\ group[s][1] = game[s]

LivesInv == \A s \in Session : game[s] # NULL => life[s] \in {"open", "closed"}

LobbyInv == TypeOK /\ GamesInv /\ GroupsInv /\ LivesInv

-----------------------------------------------------------------------------
\* The part of the type that the proofs below use again and again.
LEMMA KeyParts ==
  ASSUME NEW k \in GroupKey
  PROVE  k[1] \in ProductCode /\ k[2] \in ValidGroupName /\ k = <<k[1], k[2]>>
  BY DEF GroupKey

(***************************************************************************)
(* leave_group, when its caller has checked nothing: afterwards the lists  *)
(* are the same without s, and no group that is left is empty.             *)
(***************************************************************************)
LEMMA LeaveGroupLists ==
  ASSUME LobbyInv, NEW s \in Session
  PROVE  /\ leave_group_players(s) \in [GroupKey -> Seq(Session)]
         /\ leave_group_groups(s) \subseteq groups
         /\ \A k \in leave_group_groups(s) :
              /\ leave_group_players(s)[k] # <<>>
              /\ Distinct(leave_group_players(s)[k])
              /\ \A p \in Session :
                   p \in ToSet(leave_group_players(s)[k]) <=> p # s /\ group[p] = k
         /\ \A p \in Session \ {s} : group[p] # NULL => group[p] \in leave_group_groups(s)
<1> DEFINE P == leave_group_players(s)
           G == leave_group_groups(s)
<1>t. /\ players \in [GroupKey -> Seq(Session)]
      /\ groups \subseteq GroupKey
      /\ group \in [Session -> GroupKey \cup {NULL}]
      /\ game \in [Session -> ProductCode \cup {NULL}]
  BY DEF LobbyInv, TypeOK
<1>n. NULL \notin GroupKey /\ NULL \notin ProductCode
  BY RegistryAssumption
<1>1. CASE group[s] = NULL
  <2>1. P = players /\ G = groups
    BY <1>1 DEF leave_group_players, leave_group_groups
  <2> HIDE DEF P, G
  <2> QED
    BY <1>1, <1>t, <1>n, <2>1 DEF LobbyInv, GroupsInv, P, G
<1>2. CASE group[s] # NULL
  <2> DEFINE g == group[s]
             v == PlayersLeft(s)
  <2>1. g \in groups /\ g \in GroupKey /\ g[1] = game[s] /\ game[s] # NULL
    BY <1>2, <1>t, <1>n, KeyParts DEF LobbyInv, GroupsInv
  <2>2. players[g] \in Seq(Session) /\ Distinct(players[g])
    BY <2>1, <1>t DEF LobbyInv, GroupsInv
  <2>3. v \in Seq(Session) /\ ToSet(v) = ToSet(players[g]) \ {s} /\ Distinct(v)
    BY <2>2, RemoveFromList DEF PlayersLeft, vector_remove
  <2>4. P = [players EXCEPT ![g] = v]
    BY <1>2 DEF leave_group_players
  <2>5. G = IF v = <<>> THEN groups \ {g} ELSE groups
    BY <1>2, <2>1 DEF leave_group_groups
  <2> HIDE DEF P, G, v
  <2>6. P \in [GroupKey -> Seq(Session)] /\ G \subseteq groups
    BY <2>1, <2>3, <2>4, <2>5, <1>t
  <2>7. ASSUME NEW k \in G
        PROVE  /\ P[k] # <<>>
               /\ Distinct(P[k])
               /\ \A p \in Session : p \in ToSet(P[k]) <=> p # s /\ group[p] = k
    <3>1. CASE k = g
      <4>1. P[k] = v /\ v # <<>>
        BY <2>1, <2>4, <2>5, <3>1, <1>t
      <4>2. \A p \in Session : p \in ToSet(players[g]) <=> group[p] = g
        BY <2>1 DEF LobbyInv, GroupsInv
      <4> QED
        BY <2>3, <3>1, <4>1, <4>2
    <3>2. CASE k # g
      <4>1. P[k] = players[k] /\ k \in groups
        BY <2>4, <2>5, <2>6, <3>2, <1>t
      <4>2. group[s] # k
        BY <3>2
      <4> QED
        BY <4>1, <4>2 DEF LobbyInv, GroupsInv
    <3> QED
      BY <3>1, <3>2
  <2>8. ASSUME NEW p \in Session \ {s}, group[p] # NULL PROVE group[p] \in G
    <3>1. group[p] \in groups
      BY <2>8 DEF LobbyInv, GroupsInv
    <3>2. CASE group[p] = g
      <4>1. p \in ToSet(v)
        BY <2>1, <2>3, <3>2 DEF LobbyInv, GroupsInv
      <4>2. v # <<>>
        BY <2>3, <4>1, EmptyList
      <4> QED
        BY <2>5, <3>1, <4>2
    <3>3. CASE group[p] # g
      BY <2>5, <3>1, <3>3
    <3> QED
      BY <3>2, <3>3
  <2> QED
    BY <2>6, <2>7, <2>8 DEF P, G
<1> QED
  BY <1>1, <1>2

(***************************************************************************)
(* What leave_group does to the variables that only it and its callers     *)
(* agree on, in the type.                                                  *)
(***************************************************************************)
LEMMA LeaveGroupTypes ==
  ASSUME LobbyInv, NEW s \in Session, leave_group(s)
  PROVE  /\ group' \in [Session -> GroupKey \cup {NULL}]
         /\ players' \in [GroupKey -> Seq(Session)]
         /\ told' \in [Session -> [IPv4 -> Int]]
         /\ bssid' \in [Session -> Session \cup {NULL}]
         /\ founder' \in [GroupKey -> Session \cup {NULL}]
<1>t. /\ group \in [Session -> GroupKey \cup {NULL}]
      /\ told \in [Session -> [IPv4 -> Int]]
      /\ bssid \in [Session -> Session \cup {NULL}]
      /\ founder \in [GroupKey -> Session \cup {NULL}]
  BY DEF LobbyInv, TypeOK
<1>i. Ip \in [Session -> IPv4]
  BY RegistryAssumption
<1>1. players' \in [GroupKey -> Seq(Session)]
  BY LeaveGroupLists DEF leave_group
<1>2. ASSUME NEW p \in Session
      PROVE  (IF p = s THEN NoneTold
              ELSE IF group[s] # NULL /\ Receives(p, PlayersLeft(s))
                   THEN [told[p] EXCEPT ![Ip[s]] = @ - 1]
                   ELSE told[p]) \in [IPv4 -> Int]
  <2>1. NoneTold \in [IPv4 -> Int]
    BY DEF NoneTold
  <2>2. [told[p] EXCEPT ![Ip[s]] = @ - 1] \in [IPv4 -> Int]
    BY <1>t, <1>i
  <2> QED
    BY <1>t, <2>1, <2>2
<1>3. told' \in [Session -> [IPv4 -> Int]]
  BY <1>2 DEF leave_group, leave_group_told
<1> QED
  BY <1>t, <1>1, <1>3 DEF leave_group

\* handle_disconnect keeps the invariant.
LEMMA DisconnectStep ==
  ASSUME LobbyInv, NEW s \in Session, handle_disconnect(s), UNCHANGED phase
  PROVE  LobbyInv'
<1>1. TypeOK'
  <2>1. groups' \subseteq groups
    BY LeaveGroupLists DEF handle_disconnect
  <2> QED
    BY <2>1, LeaveGroupTypes DEF handle_disconnect, LobbyInv, TypeOK
<1>2. GamesInv' /\ LivesInv'
  BY DEF handle_disconnect, LobbyInv, GamesInv, LivesInv
<1>3. GroupsInv'
  <2>1. /\ players' = leave_group_players(s)
        /\ groups' = leave_group_groups(s)
        /\ group' = [group EXCEPT ![s] = NULL]
        /\ game' = game
    BY DEF handle_disconnect, leave_group
  <2>2. group \in [Session -> GroupKey \cup {NULL}] /\ NULL \notin GroupKey
        /\ groups' \subseteq GroupKey
    BY <1>1, RegistryAssumption DEF LobbyInv, TypeOK
  <2>3. \A p \in Session, k \in GroupKey : group'[p] = k <=> p # s /\ group[p] = k
    BY <2>1, <2>2
  <2>4. \A k \in groups' : players'[k] # <<>> /\ Distinct(players'[k])
    BY <2>1, LeaveGroupLists
  <2>5. \A k \in groups', p \in Session : p \in ToSet(players'[k]) <=> group'[p] = k
    BY <2>1, <2>2, <2>3, LeaveGroupLists
  <2>6. \A p \in Session : group'[p] # NULL => group'[p] \in groups' /\ group'[p][1] = game'[p]
    BY <2>1, <2>2, LeaveGroupLists DEF LobbyInv, GroupsInv
  <2> QED
    BY <2>4, <2>5, <2>6 DEF GroupsInv
<1> QED
  BY <1>1, <1>2, <1>3 DEF LobbyInv

\* close_connection keeps the invariant: the session leaves its group, then its game.
LEMMA ReapStep ==
  ASSUME LobbyInv, NEW s \in Session, close_connection(s), UNCHANGED phase
  PROVE  LobbyInv'
<1>t. /\ games_ \subseteq ProductCode
      /\ users \in [ProductCode -> Seq(Session)]
      /\ groups \subseteq GroupKey
      /\ game \in [Session -> ProductCode \cup {NULL}]
      /\ group \in [Session -> GroupKey \cup {NULL}]
      /\ life \in [Session -> Lives]
      /\ connection_count_ \in Nat
  BY DEF LobbyInv, TypeOK
<1>n. NULL \notin GroupKey /\ NULL \notin ProductCode
  BY RegistryAssumption
<1>s. /\ life' = [life EXCEPT ![s] = "idle"]
      /\ game' = [game EXCEPT ![s] = NULL]
      /\ group' = [group EXCEPT ![s] = NULL]
      /\ players' = leave_group_players(s)
      /\ leave_group(s)
      /\ productids' = productids
  BY DEF close_connection, leave_group
<1>1. /\ users' \in [ProductCode -> Seq(Session)]
      /\ games_' \subseteq games_
      /\ \A c \in games_' : /\ users'[c] # <<>>
                             /\ Distinct(users'[c])
                             /\ \A p \in Session : p \in ToSet(users'[c]) <=> p # s /\ game[p] = c
      /\ \A p \in Session \ {s} : game[p] # NULL => game[p] \in games_'
      /\ GameDestroyed(s) => \A p \in Session \ {s} : game[p] # game[s]
  <2>1. CASE game[s] = NULL
    <3>1. users' = users /\ games_' = games_ /\ ~GameDestroyed(s)
      BY <2>1 DEF close_connection, GameDestroyed
    <3> QED
      BY <2>1, <3>1, <1>t, <1>n DEF LobbyInv, GamesInv
  <2>2. CASE game[s] # NULL
    <3> DEFINE c0 == game[s]
               v == UsersLeft(s)
    <3>1. c0 \in games_ /\ c0 \in ProductCode
      BY <2>2, <1>t DEF LobbyInv, GamesInv
    <3>2. users[c0] \in Seq(Session) /\ Distinct(users[c0])
          /\ \A p \in Session : p \in ToSet(users[c0]) <=> game[p] = c0
      BY <3>1, <1>t DEF LobbyInv, GamesInv
    <3>3. v \in Seq(Session) /\ ToSet(v) = ToSet(users[c0]) \ {s} /\ Distinct(v)
      BY <3>2, RemoveFromList DEF UsersLeft, vector_remove
    <3>4. /\ users' = [users EXCEPT ![c0] = v]
          /\ games_' = IF v = <<>> THEN games_ \ {c0} ELSE games_
          /\ GameDestroyed(s) <=> v = <<>>
      BY <2>2 DEF close_connection, GameDestroyed
    <3>5. v = <<>> <=> \A p \in Session \ {s} : game[p] # c0
      <4>1. v = <<>> <=> ToSet(v) = {}
        BY <3>3, EmptyList
      <4>2. ToSet(users[c0]) \subseteq Session
        BY <3>2, LenProperties, ElementOfSeq DEF ToSet
      <4> QED
        BY <3>2, <3>3, <4>1, <4>2
    <3> HIDE DEF v
    <3>6. users' \in [ProductCode -> Seq(Session)] /\ games_' \subseteq games_
      BY <3>1, <3>3, <3>4, <1>t
    <3>7. ASSUME NEW c \in games_'
          PROVE  /\ users'[c] # <<>>
                 /\ Distinct(users'[c])
                 /\ \A p \in Session : p \in ToSet(users'[c]) <=> p # s /\ game[p] = c
      <4>1. CASE c = c0
        <5>1. users'[c] = v /\ v # <<>>
          BY <3>1, <3>4, <4>1, <1>t
        <5> QED
          BY <3>2, <3>3, <4>1, <5>1
      <4>2. CASE c # c0
        <5>1. users'[c] = users[c] /\ c \in games_
          BY <3>1, <3>4, <3>6, <4>2, <1>t
        <5> QED
          BY <4>2, <5>1 DEF LobbyInv, GamesInv
      <4> QED
        BY <4>1, <4>2
    <3>8. \A p \in Session \ {s} : game[p] # NULL => game[p] \in games_'
      BY <3>4, <3>5 DEF LobbyInv, GamesInv
    <3> QED
      BY <3>4, <3>5, <3>6, <3>7, <3>8
  <2> QED
    BY <2>1, <2>2
<1>2. groups' = leave_group_groups(s)
  <2>1. CASE ~GameDestroyed(s)
    BY <2>1 DEF close_connection
  <2>2. CASE GameDestroyed(s)
    <3>1. ASSUME NEW k \in leave_group_groups(s) PROVE k[1] # game[s]
      <4>1. k \in groups /\ leave_group_players(s)[k] # <<>>
            /\ leave_group_players(s)[k] \in Seq(Session)
            /\ \A p \in Session :
                 p \in ToSet(leave_group_players(s)[k]) <=> p # s /\ group[p] = k
        BY <3>1, <1>t, LeaveGroupLists
      <4>2. PICK p \in ToSet(leave_group_players(s)[k]) : TRUE
        BY <4>1, EmptyList
      <4>3. p \in Session
        BY <4>1, <4>2, LenProperties, ElementOfSeq DEF ToSet
      <4>4. p # s /\ group[p] = k
        BY <4>1, <4>2, <4>3
      <4>5. game[p] = k[1]
        BY <4>1, <4>3, <4>4, <1>t, <1>n DEF LobbyInv, GroupsInv
      <4> QED
        BY <1>1, <2>2, <4>3, <4>4, <4>5
    <3> QED
      BY <2>2, <3>1 DEF close_connection
  <2> QED
    BY <2>1, <2>2
<1>3. TypeOK'
  <2>1. groups' \subseteq groups
    BY <1>2, LeaveGroupLists
  <2>2. connection_count_' \in Nat
    BY <1>t DEF close_connection
  <2>3. life' \in [Session -> Lives] /\ game' \in [Session -> ProductCode \cup {NULL}]
    BY <1>s, <1>t DEF Lives
  <2>4. games_' \in SUBSET ProductCode /\ groups' \in SUBSET GroupKey
    BY <1>1, <1>t, <2>1
  <2>5. productids' \in SUBSET ProductCode /\ phase' \in Phases
    BY <1>s DEF LobbyInv, TypeOK
  <2> QED
    BY <1>1, <1>s, <2>2, <2>3, <2>4, <2>5, LeaveGroupTypes DEF TypeOK
<1>4. GamesInv'
  <2>1. \A p \in Session, c \in ProductCode : game'[p] = c <=> p # s /\ game[p] = c
    BY <1>s, <1>t, <1>n
  <2> QED
    BY <1>1, <1>s, <1>t, <2>1 DEF GamesInv
<1>5. GroupsInv'
  <2>1. \A p \in Session, k \in GroupKey : group'[p] = k <=> p # s /\ group[p] = k
    BY <1>s, <1>t, <1>n
  <2>2. groups' \subseteq GroupKey
    BY <1>3 DEF TypeOK
  <2>3. \A k \in groups' : players'[k] # <<>> /\ Distinct(players'[k])
    BY <1>2, <1>s, LeaveGroupLists
  <2>4. \A k \in groups', p \in Session : p \in ToSet(players'[k]) <=> group'[p] = k
    BY <1>2, <1>s, <2>1, <2>2, LeaveGroupLists
  <2>5. \A p \in Session : group'[p] # NULL => group'[p] \in groups' /\ group'[p][1] = game'[p]
    BY <1>2, <1>s, <1>t, LeaveGroupLists DEF LobbyInv, GroupsInv
  <2> QED
    BY <2>3, <2>4, <2>5 DEF GroupsInv
<1>6. LivesInv'
  BY <1>s, <1>t DEF LobbyInv, LivesInv
<1> QED
  BY <1>3, <1>4, <1>5, <1>6 DEF LobbyInv

\* handle_login keeps the invariant: the session joins the list of its game.
LEMMA LoginStep ==
  ASSUME LobbyInv, NEW s \in Session, NEW pkt \in LoginPacket, life[s] = "open",
         handle_login(s, pkt), UNCHANGED phase
  PROVE  LobbyInv'
<1> DEFINE code == apply_crosslink(pkt.game)
           old == IF code \in games_ THEN users[code] ELSE <<>>
<1>t. /\ games_ \subseteq ProductCode
      /\ users \in [ProductCode -> Seq(Session)]
      /\ game \in [Session -> ProductCode \cup {NULL}]
      /\ productids \subseteq ProductCode
  BY DEF LobbyInv, TypeOK
<1>n. NULL \notin ProductCode
  BY RegistryAssumption
<1>s. /\ game[s] = NULL
      /\ productids' = productids \cup {code}
      /\ games_' = games_ \cup {code}
      /\ users' = [users EXCEPT ![code] = Append(old, s)]
      /\ game' = [game EXCEPT ![s] = code]
      /\ UNCHANGED <<connection_count_, life, groups, players, group, told, bssid, founder>>
  BY DEF handle_login, login_accepted, record_unknown_product
<1>1. code \in ProductCode
  BY DatabaseAssumption DEF LoginPacket, apply_crosslink
<1>2. /\ old \in Seq(Session)
      /\ Distinct(old)
      /\ \A p \in Session : p \in ToSet(old) <=> game[p] = code
  <2>1. CASE code \in games_
    BY <1>1, <1>t, <2>1 DEF LobbyInv, GamesInv
  <2>2. CASE code \notin games_
    <3>1. old = <<>>
      BY <2>2
    <3>2. Distinct(<<>>) /\ ToSet(<<>>) = {}
      BY DEF Distinct, ToSet
    <3>3. \A p \in Session : game[p] # code
      BY <2>2, <1>1, <1>n DEF LobbyInv, GamesInv
    <3> QED
      BY <3>1, <3>2, <3>3, EmptySeq
  <2> QED
    BY <2>1, <2>2
<1> HIDE DEF code, old
<1>3. /\ Append(old, s) \in Seq(Session)
      /\ Append(old, s) # <<>>
      /\ ToSet(Append(old, s)) = ToSet(old) \cup {s}
      /\ Distinct(Append(old, s))
  <2>1. s \notin ToSet(old)
    BY <1>1, <1>2, <1>s, <1>n
  <2> QED
    BY <1>2, <2>1, AppendToList, AppendProperties
<1>4. TypeOK'
  <2>1. /\ users' \in [ProductCode -> Seq(Session)]
        /\ games_' \in SUBSET ProductCode
        /\ productids' \in SUBSET ProductCode
        /\ game' \in [Session -> ProductCode \cup {NULL}]
    BY <1>1, <1>3, <1>s, <1>t
  <2> QED
    BY <1>s, <2>1 DEF LobbyInv, TypeOK
<1>5. GamesInv'
  <2>1. ASSUME NEW c \in games_'
        PROVE  /\ users'[c] # <<>>
               /\ Distinct(users'[c])
               /\ \A p \in Session : p \in ToSet(users'[c]) <=> game'[p] = c
    <3>1. CASE c = code
      <4>1. users'[c] = Append(old, s)
        BY <1>1, <1>s, <1>t, <3>1
      <4> QED
        BY <1>1, <1>2, <1>3, <1>s, <1>t, <3>1, <4>1
    <3>2. CASE c # code
      <4>1. users'[c] = users[c] /\ c \in games_ /\ c \in ProductCode
        BY <1>s, <1>t, <3>2
      <4>2. \A p \in Session : game'[p] = c <=> game[p] = c
        BY <1>s, <1>t, <1>n, <3>2, <4>1
      <4> QED
        BY <4>1, <4>2 DEF LobbyInv, GamesInv
    <3> QED
      BY <3>1, <3>2
  <2>2. \A p \in Session : game'[p] # NULL => game'[p] \in games_'
    BY <1>s, <1>t DEF LobbyInv, GamesInv
  <2> QED
    BY <2>1, <2>2 DEF GamesInv
<1>6. GroupsInv'
  <2>1. group[s] = NULL
    <3>1. group \in [Session -> GroupKey \cup {NULL}]
      BY DEF LobbyInv, TypeOK
    <3>2. group[s] # NULL => group[s] \in GroupKey /\ group[s][1] = NULL
      BY <1>s, <3>1 DEF LobbyInv, GroupsInv
    <3> QED
      BY <1>n, <3>2, KeyParts
  <2>2. \A p \in Session : group[p] # NULL => game'[p] = game[p]
    BY <1>s, <1>t, <2>1
  <2> QED
    BY <1>s, <2>2 DEF LobbyInv, GroupsInv
<1>7. LivesInv'
  BY <1>s, <1>t DEF LobbyInv, LivesInv
<1> QED
  BY <1>4, <1>5, <1>6, <1>7 DEF LobbyInv

\* handle_connect keeps the invariant: the session joins the list of its group.
LEMMA ConnectStep ==
  ASSUME LobbyInv, NEW s \in Session, NEW name \in GroupName,
         handle_connect(s, name), UNCHANGED phase
  PROVE  LobbyInv'
<1> DEFINE key == <<game[s], name>>
           old == IF key \in groups THEN players[key] ELSE <<>>
<1>t. /\ groups \subseteq GroupKey
      /\ players \in [GroupKey -> Seq(Session)]
      /\ game \in [Session -> ProductCode \cup {NULL}]
      /\ group \in [Session -> GroupKey \cup {NULL}]
      /\ told \in [Session -> [IPv4 -> Int]]
      /\ bssid \in [Session -> Session \cup {NULL}]
      /\ founder \in [GroupKey -> Session \cup {NULL}]
  BY DEF LobbyInv, TypeOK
<1>n. NULL \notin GroupKey /\ NULL \notin ProductCode /\ IsFiniteSet(Session)
      /\ Ip \in [Session -> IPv4]
  BY RegistryAssumption
<1>g. game[s] # NULL /\ name \in ValidGroupName /\ group[s] = NULL
  BY DEF handle_connect, connect_accepted
<1>s. /\ groups' = groups \cup {key}
      /\ players' = [players EXCEPT ![key] = Append(old, s)]
      /\ group' = [group EXCEPT ![s] = key]
      /\ bssid' = [bssid EXCEPT ![s] = Head(Append(old, s))]
      /\ founder' = [founder EXCEPT ![key] = IF key \in groups THEN @ ELSE s]
      /\ UNCHANGED <<connection_count_, life, games_, users, game, productids>>
  BY DEF handle_connect, Bssid
<1>d. told' = [p \in Session |->
                 IF p = s
                 THEN [ip \in IPv4 |-> Cardinality({q \in ToSet(old) : Ip[q] = ip})]
                 ELSE IF Receives(p, old)
                      THEN [told[p] EXCEPT ![Ip[s]] = @ + 1]
                      ELSE told[p]]
  BY DEF handle_connect
<1>1. key \in GroupKey /\ key[1] = game[s]
  BY <1>g, <1>t DEF GroupKey
<1>2. /\ old \in Seq(Session)
      /\ Distinct(old)
      /\ \A p \in Session : p \in ToSet(old) <=> group[p] = key
  <2>1. CASE key \in groups
    BY <1>1, <1>t, <2>1 DEF LobbyInv, GroupsInv
  <2>2. CASE key \notin groups
    <3>1. old = <<>>
      BY <2>2
    <3>2. Distinct(<<>>) /\ ToSet(<<>>) = {}
      BY DEF Distinct, ToSet
    <3>3. \A p \in Session : group[p] # key
      BY <2>2, <1>1, <1>n DEF LobbyInv, GroupsInv
    <3> QED
      BY <3>1, <3>2, <3>3, EmptySeq
  <2> QED
    BY <2>1, <2>2
<1> HIDE DEF key, old
<1>3. /\ Append(old, s) \in Seq(Session)
      /\ Append(old, s) # <<>>
      /\ ToSet(Append(old, s)) = ToSet(old) \cup {s}
      /\ Distinct(Append(old, s))
      /\ Head(Append(old, s)) \in Session
  <2>1. s \notin ToSet(old)
    BY <1>1, <1>2, <1>g, <1>n
  <2> QED
    BY <1>2, <2>1, AppendToList, AppendProperties, HeadTailProperties
<1>4. told' \in [Session -> [IPv4 -> Int]]
  <2>1. ToSet(old) \subseteq Session
    BY <1>2, LenProperties, ElementOfSeq DEF ToSet
  <2>2. ASSUME NEW ip \in IPv4 PROVE Cardinality({q \in ToSet(old) : Ip[q] = ip}) \in Int
    <3>1. {q \in ToSet(old) : Ip[q] = ip} \subseteq Session
      BY <2>1
    <3>2. IsFiniteSet({q \in ToSet(old) : Ip[q] = ip})
      BY <1>n, <3>1, FS_Subset
    <3>3. Cardinality({q \in ToSet(old) : Ip[q] = ip}) \in Nat
      BY <3>2, FS_CardinalityType
    <3> QED
      BY <3>3
  <2>3. [ip \in IPv4 |-> Cardinality({q \in ToSet(old) : Ip[q] = ip})] \in [IPv4 -> Int]
    BY <2>2
  <2>4. \A p \in Session : [told[p] EXCEPT ![Ip[s]] = @ + 1] \in [IPv4 -> Int]
    BY <1>t, <1>n
  <2> QED
    BY <1>d, <1>t, <2>3, <2>4
<1>5. TypeOK'
  <2>1. /\ players' \in [GroupKey -> Seq(Session)]
        /\ groups' \in SUBSET GroupKey
        /\ group' \in [Session -> GroupKey \cup {NULL}]
        /\ bssid' \in [Session -> Session \cup {NULL}]
        /\ founder' \in [GroupKey -> Session \cup {NULL}]
    BY <1>1, <1>3, <1>s, <1>t
  <2> QED
    BY <1>s, <1>4, <2>1 DEF LobbyInv, TypeOK
<1>6. GroupsInv'
  <2>1. ASSUME NEW k \in groups'
        PROVE  /\ players'[k] # <<>>
               /\ Distinct(players'[k])
               /\ \A p \in Session : p \in ToSet(players'[k]) <=> group'[p] = k
    <3>1. CASE k = key
      <4>1. players'[k] = Append(old, s)
        BY <1>1, <1>s, <1>t, <3>1
      <4> QED
        BY <1>1, <1>2, <1>3, <1>s, <1>t, <3>1, <4>1
    <3>2. CASE k # key
      <4>1. players'[k] = players[k] /\ k \in groups /\ k \in GroupKey
        BY <1>s, <1>t, <3>2
      <4>2. \A p \in Session : group'[p] = k <=> group[p] = k
        BY <1>s, <1>g, <1>t, <1>n, <3>2, <4>1
      <4> QED
        BY <4>1, <4>2 DEF LobbyInv, GroupsInv
    <3> QED
      BY <3>1, <3>2
  <2>2. \A p \in Session : group'[p] # NULL => group'[p] \in groups' /\ group'[p][1] = game'[p]
    BY <1>1, <1>s, <1>t DEF LobbyInv, GroupsInv
  <2> QED
    BY <2>1, <2>2 DEF GroupsInv
<1>7. GamesInv' /\ LivesInv'
  BY <1>s DEF LobbyInv, GamesInv, LivesInv
<1> QED
  BY <1>5, <1>6, <1>7 DEF LobbyInv

(***************************************************************************)
(* A step that leaves the nodes and the places alone: it may only change   *)
(* lives, as long as whoever is in a game keeps its reader, and the books. *)
(***************************************************************************)
LEMMA LifeStep ==
  ASSUME LobbyInv, TypeOK', UNCHANGED <<games_, users, groups, players, game, group>>,
         \A s \in Session : game[s] # NULL /\ life'[s] # life[s] => life'[s] \in {"open", "closed"}
  PROVE  LobbyInv'
  BY DEF LobbyInv, GamesInv, GroupsInv, LivesInv

\* The lobby starts empty.
LEMMA InitLobbyInv == Init => LobbyInv
<1> SUFFICES ASSUME Init PROVE LobbyInv
  OBVIOUS
<1> USE DEF Init, InitRegistry, InitDb
<1>1. TypeOK
  BY EmptySeq, DatabaseAssumption DEF TypeOK, Lives, NoneTold, Phases
<1>2. GamesInv /\ GroupsInv /\ LivesInv
  BY DEF GamesInv, GroupsInv, LivesInv
<1> QED
  BY <1>1, <1>2 DEF LobbyInv

\* What a step does, for the proofs by cases.
LEMMA StepCases ==
  ASSUME [Next]_vars
  PROVE  \/ UNCHANGED <<registry_vars, life>> /\ phase' \in {phase} \cup Phases
         \/ \E s \in Session : Accept(s)
         \/ \E s \in Session, pkt \in LoginPacket :
              Reading(s) /\ handle_login(s, pkt) /\ UNCHANGED phase
         \/ \E s \in Session, pkt \in LoginPacket :
              Reading(s) /\ handle_login_throws(s, pkt) /\ UNCHANGED phase
         \/ \E s \in Session, name \in GroupName :
              Reading(s) /\ handle_connect(s, name) /\ UNCHANGED phase
         \/ \E s \in Session : Reading(s) /\ handle_disconnect(s) /\ UNCHANGED phase
         \/ \E s \in Session : life[s] \in {"open", "closed"} /\ close_connection(s) /\ UNCHANGED phase
         \/ \E s \in Session : close(s)
<1>1. CASE UNCHANGED vars \/ AcceptRefused
  BY <1>1 DEF vars, AcceptRefused, AcceptDelivered, Phases
<1>2. CASE on_stop_signal \/ on_drained
  BY <1>2 DEF on_stop_signal, on_drained, Phases
<1>3. ASSUME NEW s \in Session, ReadFails(s) \/ ReadAborted(s)
      PROVE  life[s] \in {"open", "closed"} /\ close_connection(s) /\ UNCHANGED phase
  BY <1>3 DEF ReadFails, ReadAborted, Reading
<1>4. ASSUME NEW s \in Session, NEW pkt \in LoginPacket, ReceiveLogin(s, pkt)
      PROVE  \/ Reading(s) /\ handle_login(s, pkt) /\ UNCHANGED phase
             \/ Reading(s) /\ handle_login_throws(s, pkt) /\ UNCHANGED phase
             \/ life[s] \in {"open", "closed"} /\ close_connection(s) /\ UNCHANGED phase
  BY <1>4 DEF ReceiveLogin, Reading
<1>5. ASSUME NEW s \in Session, NEW name \in GroupName, ReceiveConnect(s, name)
      PROVE  \/ Reading(s) /\ handle_connect(s, name) /\ UNCHANGED phase
             \/ life[s] \in {"open", "closed"} /\ close_connection(s) /\ UNCHANGED phase
  BY <1>5 DEF ReceiveConnect, Reading
<1>6. ASSUME NEW s \in Session,
             ReceiveDisconnect(s) \/ ReceiveScan(s) \/ ReceiveChat(s) \/ ReceivePing(s)
               \/ ReceiveUnknown(s)
      PROVE  \/ UNCHANGED <<registry_vars, life>> /\ phase' = phase
             \/ Reading(s) /\ handle_disconnect(s) /\ UNCHANGED phase
             \/ life[s] \in {"open", "closed"} /\ close_connection(s) /\ UNCHANGED phase
  BY <1>6 DEF ReceiveDisconnect, ReceiveScan, handle_scan, ReceiveChat, handle_chat,
              ReceivePing, ReceiveUnknown, Reading, vars
<1> QED
  BY <1>1, <1>2, <1>3, <1>4, <1>5, <1>6 DEF Next, Receive

\* Every step of the server keeps the invariant.
LEMMA LobbyInvStep == LobbyInv /\ [Next]_vars => LobbyInv'
<1> SUFFICES ASSUME LobbyInv, [Next]_vars PROVE LobbyInv'
  OBVIOUS
<1>1. CASE UNCHANGED <<registry_vars, life>> /\ phase' \in {phase} \cup Phases
  <2>1. TypeOK'
    BY <1>1 DEF LobbyInv, TypeOK, registry_vars
  <2> QED
    BY <1>1, <2>1, LifeStep DEF registry_vars
<1>2. ASSUME NEW s \in Session, Accept(s) PROVE LobbyInv'
  <2>1. TypeOK'
    BY <1>2 DEF Accept, AcceptDelivered, try_open_connection, LobbyInv, TypeOK, Lives, Phases
  <2>2. life' = [life EXCEPT ![s] = "open"] /\ life \in [Session -> Lives]
    BY <1>2 DEF Accept, try_open_connection, LobbyInv, TypeOK
  <2> QED
    BY <1>2, <2>1, <2>2, LifeStep DEF Accept, try_open_connection
<1>3. ASSUME NEW s \in Session, NEW pkt \in LoginPacket, Reading(s), handle_login(s, pkt),
             UNCHANGED phase
      PROVE  LobbyInv'
  BY <1>3, LoginStep DEF Reading
<1>4. ASSUME NEW s \in Session, NEW pkt \in LoginPacket, handle_login_throws(s, pkt),
             UNCHANGED phase
      PROVE  LobbyInv'
  <2>1. TypeOK'
    BY <1>4 DEF handle_login_throws, LobbyInv, TypeOK, Lives, registry_vars
  <2>2. life' = [life EXCEPT ![s] = "orphaned"] /\ life \in [Session -> Lives] /\ game[s] = NULL
    BY <1>4 DEF handle_login_throws, login_accepted, LobbyInv, TypeOK
  <2> QED
    BY <1>4, <2>1, <2>2, LifeStep DEF handle_login_throws, registry_vars
<1>5. ASSUME NEW s \in Session, NEW name \in GroupName, handle_connect(s, name),
             UNCHANGED phase
      PROVE  LobbyInv'
  BY <1>5, ConnectStep
<1>6. ASSUME NEW s \in Session, handle_disconnect(s), UNCHANGED phase PROVE LobbyInv'
  BY <1>6, DisconnectStep
<1>7. ASSUME NEW s \in Session, close_connection(s), UNCHANGED phase PROVE LobbyInv'
  BY <1>7, ReapStep
<1>8. ASSUME NEW s \in Session, close(s) PROVE LobbyInv'
  <2>1. told' \in [Session -> [IPv4 -> Int]]
    BY <1>8 DEF close, LobbyInv, TypeOK, NoneTold
  <2>2. TypeOK'
    BY <1>8, <2>1 DEF close, LobbyInv, TypeOK, Lives
  <2>3. life' = [life EXCEPT ![s] = "closed"] /\ life \in [Session -> Lives]
    BY <1>8 DEF close, LobbyInv, TypeOK
  <2> QED
    BY <1>8, <2>2, <2>3, LifeStep DEF close
<1> QED
  BY <1>1, <1>2, <1>3, <1>4, <1>5, <1>6, <1>7, <1>8, StepCases

\* The inductive invariant holds in every state of the server.
THEOREM LobbyInvariant == Spec => []LobbyInv
  BY InitLobbyInv, LobbyInvStep, PTL DEF Spec

\* The server's state keeps its types.
THEOREM LobbyTypes == Spec => []TypeOK
<1>1. LobbyInv => TypeOK
  BY DEF LobbyInv
<1> QED
  BY <1>1, LobbyInvariant, PTL

(***************************************************************************)
(* Every session a game_node or group_node lists still has its reader:     *)
(* whoever is reaped, or whose reader died, is in no list.                 *)
(***************************************************************************)
THEOREM ListedSessionsLive == Spec => []NoDanglingSession
<1>1. ASSUME LobbyInv PROVE NoDanglingSession
  <2>1. NULL \notin ProductCode /\ NULL \notin GroupKey
    BY RegistryAssumption
  <2>2. ASSUME NEW c \in games_, NEW s \in Session, s \in ToSet(users[c])
        PROVE  life[s] \in {"open", "closed"}
    BY <1>1, <2>1, <2>2 DEF LobbyInv, TypeOK, GamesInv, LivesInv
  <2>3. ASSUME NEW k \in groups, NEW s \in Session, s \in ToSet(players[k])
        PROVE  life[s] \in {"open", "closed"}
    <3>1. group[s] = k /\ k \in GroupKey /\ k[1] = game[s]
      BY <1>1, <2>1, <2>3 DEF LobbyInv, TypeOK, GroupsInv
    <3> QED
      BY <1>1, <2>1, <3>1, KeyParts DEF LobbyInv, LivesInv
  <2> QED
    BY <2>2, <2>3 DEF NoDanglingSession
<1> QED
  BY <1>1, LobbyInvariant, PTL

\* An element of a list without repetitions has one index.
LEMMA ListedOnce ==
  ASSUME NEW v \in Seq(Session), NEW s \in Session, Distinct(v), s \in ToSet(v)
  PROVE  \E i \in 1..Len(v) : \A j \in 1..Len(v) : v[j] = s <=> j = i
<1>1. PICK i \in 1..Len(v) : v[i] = s
  BY LenProperties DEF ToSet
<1> QED
  BY <1>1 DEF Distinct

(***************************************************************************)
(* Every game and group pointer of a session leads to a live node, of the  *)
(* right game, that lists the session exactly once.                        *)
(***************************************************************************)
THEOREM PointersAreGood == Spec => []NodesListTheirSessions
<1>1. ASSUME LobbyInv PROVE NodesListTheirSessions
  <2>1. ASSUME NEW s \in Session, game[s] # NULL
        PROVE  /\ game[s] \in games_
               /\ users[game[s]] \in Seq(Session)
               /\ Distinct(users[game[s]])
               /\ s \in ToSet(users[game[s]])
    BY <1>1, <2>1 DEF LobbyInv, TypeOK, GamesInv
  <2>2. ASSUME NEW s \in Session, group[s] # NULL
        PROVE  /\ group[s] \in groups
               /\ group[s][1] = game[s]
               /\ players[group[s]] \in Seq(Session)
               /\ Distinct(players[group[s]])
               /\ s \in ToSet(players[group[s]])
    BY <1>1, <2>2 DEF LobbyInv, TypeOK, GroupsInv
  <2>3. ASSUME NEW s \in Session, game[s] # NULL
        PROVE  \E i \in 1..Len(users[game[s]]) :
                 \A j \in 1..Len(users[game[s]]) : users[game[s]][j] = s <=> j = i
    BY <2>1, <2>3, ListedOnce
  <2>4. ASSUME NEW s \in Session, group[s] # NULL
        PROVE  \E i \in 1..Len(players[group[s]]) :
                 \A j \in 1..Len(players[group[s]]) : players[group[s]][j] = s <=> j = i
    BY <2>2, <2>4, ListedOnce
  <2> QED
    BY <2>1, <2>2, <2>3, <2>4, Zenon DEF NodesListTheirSessions
<1> QED
  BY <1>1, LobbyInvariant, PTL

(***************************************************************************)
(* No live node is empty, so players.front() exists, and no group outlives *)
(* its game.                                                               *)
(***************************************************************************)
THEOREM NodesHaveMembers == Spec => []NoEmptyNodes
<1>1. ASSUME LobbyInv PROVE NoEmptyNodes
  <2>1. ASSUME NEW k \in groups PROVE k[1] \in games_
    <3>1. players[k] \in Seq(Session) /\ players[k] # <<>> /\ k \in GroupKey
      BY <1>1, <2>1 DEF LobbyInv, TypeOK, GroupsInv
    <3>2. PICK p \in ToSet(players[k]) : TRUE
      BY <3>1, EmptyList
    <3>3. p \in Session
      BY <3>1, <3>2, LenProperties, ElementOfSeq DEF ToSet
    <3>4. group[p] = k
      BY <1>1, <2>1, <3>2, <3>3 DEF LobbyInv, GroupsInv
    <3>5. game[p] = k[1] /\ k[1] # NULL
      BY <1>1, <3>1, <3>3, <3>4, KeyParts, RegistryAssumption DEF LobbyInv, GroupsInv
    <3> QED
      BY <1>1, <3>3, <3>5 DEF LobbyInv, GamesInv
  <2> QED
    BY <1>1, <2>1 DEF LobbyInv, GamesInv, GroupsInv, NoEmptyNodes
<1> QED
  BY <1>1, LobbyInvariant, PTL
-----------------------------------------------------------------------------
\* The slot counter follows the sessions that hold a slot.
LEMMA SlotStep == TypeOK /\ SlotAccounting /\ [Next]_vars => SlotAccounting'
<1> SUFFICES ASSUME TypeOK, SlotAccounting, [Next]_vars PROVE SlotAccounting'
  OBVIOUS
<1>t. /\ life \in [Session -> Lives]
      /\ connection_count_ \in Nat
      /\ SERVER_USER_MAXIMUM \in Nat
      /\ connection_count_ = Cardinality(Holders)
      /\ connection_count_ <= SERVER_USER_MAXIMUM
  BY RegistryAssumption DEF TypeOK, SlotAccounting
<1>f. IsFiniteSet(Holders)
  <2>1. Holders \subseteq Session
    BY DEF Holders
  <2> QED
    BY <2>1, RegistryAssumption, FS_Subset
<1>1. ASSUME NEW s \in Session, NEW to \in Lives \ {"idle"}, life[s] # "idle",
             life' = [life EXCEPT ![s] = to], UNCHANGED connection_count_
      PROVE  SlotAccounting'
  <2>1. Holders' = Holders
    BY <1>1, <1>t DEF Holders
  <2> QED
    BY <1>1, <1>t, <2>1 DEF SlotAccounting
<1>2. ASSUME UNCHANGED <<connection_count_, life>> PROVE SlotAccounting'
  BY <1>2 DEF SlotAccounting, Holders
<1>3. ASSUME NEW s \in Session, Accept(s) PROVE SlotAccounting'
  <2>1. /\ Holders' = Holders \cup {s}
        /\ s \notin Holders
        /\ connection_count_' = connection_count_ + 1
        /\ connection_count_ < SERVER_USER_MAXIMUM
    BY <1>3, <1>t DEF Accept, try_open_connection, Holders
  <2>2. Cardinality(Holders') = connection_count_ + 1
    BY <1>f, <1>t, <2>1, FS_AddElement
  <2> QED
    BY <1>t, <2>1, <2>2 DEF SlotAccounting
<1>4. ASSUME NEW s \in Session, life[s] \in {"open", "closed"}, close_connection(s)
      PROVE  SlotAccounting'
  <2>1. /\ Holders' = Holders \ {s}
        /\ s \in Holders
        /\ connection_count_' = IF connection_count_ # 0 THEN connection_count_ - 1 ELSE 0
    BY <1>4, <1>t DEF close_connection, Holders
  <2>2. Cardinality(Holders') = connection_count_ - 1
    BY <1>f, <1>t, <2>1, FS_RemoveElement
  <2>3. connection_count_ # 0
    BY <1>f, <1>t, <2>1, FS_EmptySet
  <2> QED
    BY <1>t, <2>1, <2>2, <2>3 DEF SlotAccounting
<1>5. ASSUME NEW s \in Session, close(s) PROVE SlotAccounting'
  BY <1>1, <1>5 DEF close, Reading, Lives
<1>6. ASSUME NEW s \in Session, NEW pkt \in LoginPacket, Reading(s), handle_login_throws(s, pkt)
      PROVE  SlotAccounting'
  BY <1>1, <1>6 DEF handle_login_throws, Reading, Lives, registry_vars
<1>7. ASSUME NEW s \in Session, NEW pkt \in LoginPacket, handle_login(s, pkt)
      PROVE  SlotAccounting'
  BY <1>2, <1>7 DEF handle_login
<1>8. ASSUME NEW s \in Session, NEW name \in GroupName, handle_connect(s, name)
      PROVE  SlotAccounting'
  BY <1>2, <1>8 DEF handle_connect
<1>9. ASSUME NEW s \in Session, handle_disconnect(s) PROVE SlotAccounting'
  BY <1>2, <1>9 DEF handle_disconnect
<1>10. CASE UNCHANGED <<registry_vars, life>>
  BY <1>2, <1>10 DEF registry_vars
<1> QED
  BY <1>3, <1>4, <1>5, <1>6, <1>7, <1>8, <1>9, <1>10, StepCases

(***************************************************************************)
(* connection_count_ is exact and bounded, for any number of sessions and  *)
(* slots, although close_connection decrements it for sessions closed by   *)
(* three different coroutines.                                             *)
(***************************************************************************)
THEOREM SlotsAreAccounted == Spec => []SlotAccounting
<1>1. Init => SlotAccounting
  <2> SUFFICES ASSUME Init PROVE SlotAccounting
    OBVIOUS
  <2>1. Holders = {} /\ connection_count_ = 0
    BY DEF Init, InitRegistry, Holders
  <2> QED
    BY <2>1, FS_EmptySet, RegistryAssumption DEF SlotAccounting
<1> QED
  BY <1>1, LobbyTypes, SlotStep, PTL DEF Spec

-----------------------------------------------------------------------------
(***************************************************************************)
(* Every game in the lobby has its row in the product table: handle_login  *)
(* records the code it is about to use, and nothing deletes a row.         *)
(***************************************************************************)
THEOREM GamesAreRecorded == Spec => []PlayedGamesAreRecorded
<1>1. Init => PlayedGamesAreRecorded
  BY DEF Init, InitRegistry, PlayedGamesAreRecorded
<1>2. PlayedGamesAreRecorded /\ [Next]_vars => PlayedGamesAreRecorded'
  <2> SUFFICES ASSUME PlayedGamesAreRecorded, [Next]_vars PROVE PlayedGamesAreRecorded'
    OBVIOUS
  <2>1. ASSUME UNCHANGED <<games_, productids>> PROVE PlayedGamesAreRecorded'
    BY <2>1 DEF PlayedGamesAreRecorded
  <2>2. ASSUME NEW s \in Session, NEW pkt \in LoginPacket, handle_login(s, pkt)
        PROVE  PlayedGamesAreRecorded'
    BY <2>2 DEF handle_login, record_unknown_product, PlayedGamesAreRecorded
  <2>3. ASSUME NEW s \in Session, close_connection(s) PROVE PlayedGamesAreRecorded'
    BY <2>3 DEF close_connection, PlayedGamesAreRecorded
  <2> QED
    BY <2>1, <2>2, <2>3, StepCases
    DEF Accept, try_open_connection, handle_login_throws, handle_connect,
        handle_disconnect, close, registry_vars
<1> QED
  BY <1>1, <1>2, PTL DEF Spec
-----------------------------------------------------------------------------
(***************************************************************************)
(* What the members of a group are told                                    *)
(***************************************************************************)

\* A session that is in no game is in no group.
LEMMA NoGameNoGroup ==
  ASSUME LobbyInv, NEW s \in Session, game[s] = NULL
  PROVE  group[s] = NULL
<1>1. ASSUME group[s] # NULL PROVE FALSE
  <2>1. group[s] \in GroupKey /\ group[s][1] = game[s]
    BY <1>1 DEF LobbyInv, TypeOK, GroupsInv
  <2> QED
    BY <2>1, KeyParts, RegistryAssumption
<1> QED
  BY <1>1

(***************************************************************************)
(* leave_group keeps the front of every list whose founder is still there, *)
(* and takes s off one list only.                                          *)
(***************************************************************************)
LEMMA LeaveKeepsFounder ==
  ASSUME LobbyInv, FounderIsBssid, NEW s \in Session, leave_group(s),
         groups' \subseteq leave_group_groups(s)
  PROVE  FounderIsBssid'
<1> SUFFICES ASSUME NEW k \in groups', founder'[k] # NULL
             PROVE  /\ Head(players'[k]) = founder'[k]
                    /\ \A p \in ToSet(players'[k]) : bssid'[p] = founder'[k]
  BY DEF FounderIsBssid
<1>t. /\ players \in [GroupKey -> Seq(Session)]
      /\ groups \subseteq GroupKey
      /\ bssid \in [Session -> Session \cup {NULL}]
      /\ players' = leave_group_players(s)
  BY DEF LobbyInv, TypeOK, leave_group
<1>1. k \in leave_group_groups(s) /\ k \in groups /\ k \in GroupKey
  BY <1>t, LeaveGroupLists
<1>2. founder'[k] = founder[k] /\ founder[k] # s /\ founder[k] # NULL
  BY <1>1 DEF leave_group
<1>3. /\ Head(players[k]) = founder[k]
      /\ \A p \in ToSet(players[k]) : bssid[p] = founder[k]
  BY <1>1, <1>2 DEF FounderIsBssid
<1>4. players[k] \in Seq(Session) /\ Distinct(players[k]) /\ players[k] # <<>>
  BY <1>1, <1>t DEF LobbyInv, GroupsInv
<1>5. Head(players'[k]) = founder[k] /\ ToSet(players'[k]) \subseteq ToSet(players[k]) \ {s}
  <2>1. CASE group[s] = k
    <3>1. players'[k] = RemoveFirst(players[k], s)
      BY <1>1, <1>t, <2>1, RegistryAssumption
      DEF leave_group_players, PlayersLeft, vector_remove
    <3> QED
      BY <1>2, <1>3, <1>4, <3>1, RemoveKeepsHead, RemoveFromList
  <2>2. CASE group[s] # k
    <3>1. players'[k] = players[k]
      BY <1>1, <1>t, <2>2 DEF leave_group_players
    <3>2. s \notin ToSet(players[k])
      BY <1>1, <2>2 DEF LobbyInv, GroupsInv
    <3> QED
      BY <1>3, <3>1, <3>2
  <2> QED
    BY <2>1, <2>2
<1>6. ToSet(players[k]) \subseteq Session
  BY <1>4, LenProperties, ElementOfSeq DEF ToSet
<1>7. \A p \in Session \ {s} : bssid'[p] = bssid[p]
  BY <1>t DEF leave_group
<1> QED
  BY <1>2, <1>3, <1>5, <1>6, <1>7

\* A newcomer is told the front of the list, and is the front of a new one.
LEMMA ConnectKeepsFounder ==
  ASSUME LobbyInv, FounderIsBssid, NEW s \in Session, NEW name \in GroupName,
         handle_connect(s, name)
  PROVE  FounderIsBssid'
<1> DEFINE key == <<game[s], name>>
           old == IF key \in groups THEN players[key] ELSE <<>>
           now == Append(old, s)
<1>t. /\ players \in [GroupKey -> Seq(Session)]
      /\ groups \subseteq GroupKey
      /\ bssid \in [Session -> Session \cup {NULL}]
      /\ founder \in [GroupKey -> Session \cup {NULL}]
      /\ game \in [Session -> ProductCode \cup {NULL}]
  BY DEF LobbyInv, TypeOK
<1>1. /\ group[s] = NULL
      /\ groups' = groups \cup {key}
      /\ players' = [players EXCEPT ![key] = now]
      /\ bssid' = [bssid EXCEPT ![s] = Head(now)]
      /\ founder' = [founder EXCEPT ![key] = IF key \in groups THEN @ ELSE s]
  BY DEF handle_connect, connect_accepted, Bssid
<1>2. key \in GroupKey
  BY <1>t DEF handle_connect, connect_accepted, GroupKey
<1>3. old \in Seq(Session) /\ (key \notin groups => old = <<>>)
  BY <1>2, <1>t
<1>4. key \in groups => old = players[key] /\ old # <<>>
  BY DEF LobbyInv, GroupsInv
<1> HIDE DEF key, old
<1>5. /\ now \in Seq(Session)
      /\ ToSet(now) = ToSet(old) \cup {s}
      /\ old # <<>> => Head(now) = Head(old)
  BY <1>3, AppendToList
<1>6. old = <<>> => Head(now) = s /\ ToSet(old) = {}
  <2>1. Head(Append(<<>>, s)) = s
    OBVIOUS
  <2> QED
    BY <1>3, <2>1, EmptyList
<1> HIDE DEF now
<1>7. \A p \in Session : bssid'[p] = IF p = s THEN Head(now) ELSE bssid[p]
  BY <1>1, <1>t
<1> SUFFICES ASSUME NEW k \in groups', founder'[k] # NULL
             PROVE  /\ Head(players'[k]) = founder'[k]
                    /\ \A p \in ToSet(players'[k]) : bssid'[p] = founder'[k]
  BY DEF FounderIsBssid
<1>8. CASE k # key
  <2>1. /\ k \in groups /\ k \in GroupKey /\ k # NULL
        /\ players'[k] = players[k] /\ founder'[k] = founder[k]
    BY <1>1, <1>t, <1>8, RegistryAssumption
  <2>2. s \notin ToSet(players[k])
    BY <1>1, <2>1 DEF LobbyInv, GroupsInv
  <2>3. ToSet(players[k]) \subseteq Session
    BY <2>1, <1>t, LenProperties, ElementOfSeq DEF ToSet
  <2> QED
    BY <1>7, <2>1, <2>2, <2>3 DEF FounderIsBssid
<1>9. CASE k = key /\ key \in groups
  <2>1. players'[k] = now /\ founder'[k] = founder[k]
    BY <1>1, <1>2, <1>9, <1>t
  <2>2. /\ Head(old) = founder[k]
        /\ \A p \in ToSet(old) : bssid[p] = founder[k]
    BY <1>4, <1>9, <2>1 DEF FounderIsBssid
  <2>3. ToSet(old) \subseteq Session
    BY <1>3, LenProperties, ElementOfSeq DEF ToSet
  <2>4. Head(now) = founder[k]
    BY <1>4, <1>5, <1>9, <2>2
  <2> QED
    BY <1>5, <1>7, <2>1, <2>2, <2>3, <2>4
<1>10. CASE k = key /\ key \notin groups
  <2>1. players'[k] = now /\ founder'[k] = s
    BY <1>1, <1>2, <1>10, <1>t
  <2> QED
    BY <1>3, <1>5, <1>6, <1>7, <1>10, <2>1
<1> QED
  BY <1>8, <1>9, <1>10

(***************************************************************************)
(* While the founder of a group stays, it is the front of the list and the *)
(* BSSID every member was told, whoever joins and leaves in between.       *)
(***************************************************************************)
THEOREM FounderStaysInFront == Spec => []FounderIsBssid
<1>1. Init => FounderIsBssid
  BY DEF Init, InitRegistry, FounderIsBssid
<1>2. LobbyInv /\ FounderIsBssid /\ [Next]_vars => FounderIsBssid'
  <2> SUFFICES ASSUME LobbyInv, FounderIsBssid, [Next]_vars PROVE FounderIsBssid'
    OBVIOUS
  <2>1. ASSUME UNCHANGED <<groups, players, bssid, founder>> PROVE FounderIsBssid'
    BY <2>1 DEF FounderIsBssid
  <2>2. ASSUME NEW s \in Session, handle_disconnect(s) PROVE FounderIsBssid'
    BY <2>2, LeaveKeepsFounder DEF handle_disconnect
  <2>3. ASSUME NEW s \in Session, close_connection(s) PROVE FounderIsBssid'
    BY <2>3, LeaveKeepsFounder DEF close_connection
  <2> QED
    BY <2>1, <2>2, <2>3, StepCases, ConnectKeepsFounder
    DEF Accept, try_open_connection, handle_login, handle_login_throws, close, registry_vars
<1> QED
  BY <1>1, <1>2, LobbyInvariant, PTL DEF Spec

\* The members of list v other than p at an address.
OthersAt(v, p, ip) == {q \in ToSet(v) \ {p} : Ip[q] = ip}

\* A list of sessions has finitely many members at an address.
LEMMA OthersAreFinite ==
  ASSUME NEW v \in Seq(Session), NEW p, NEW ip
  PROVE  IsFiniteSet(OthersAt(v, p, ip)) /\ Cardinality(OthersAt(v, p, ip)) \in Nat
<1>1. OthersAt(v, p, ip) \subseteq Session
  BY LenProperties, ElementOfSeq DEF OthersAt, ToSet
<1> QED
  BY <1>1, FS_Subset, FS_CardinalityType, RegistryAssumption

\* A newcomer adds one at its address, in the view of every other member.
LEMMA NewcomerIsCounted ==
  ASSUME NEW v \in Seq(Session), NEW s \in Session, s \notin ToSet(v),
         NEW p, p # s, NEW ip
  PROVE  Cardinality(OthersAt(Append(v, s), p, ip))
           = Cardinality(OthersAt(v, p, ip)) + (IF Ip[s] = ip THEN 1 ELSE 0)
<1>1. ToSet(Append(v, s)) = ToSet(v) \cup {s}
  BY AppendToList
<1>2. CASE Ip[s] = ip
  <2>1. OthersAt(Append(v, s), p, ip) = OthersAt(v, p, ip) \cup {s}
    BY <1>1, <1>2 DEF OthersAt
  <2>2. s \notin OthersAt(v, p, ip)
    BY DEF OthersAt
  <2> QED
    BY <1>2, <2>1, <2>2, OthersAreFinite, FS_AddElement
<1>3. CASE Ip[s] # ip
  <2>1. OthersAt(Append(v, s), p, ip) = OthersAt(v, p, ip)
    BY <1>1, <1>3 DEF OthersAt
  <2> QED
    BY <1>3, <2>1, OthersAreFinite
<1> QED
  BY <1>2, <1>3

\* One who leaves takes one off.
LEMMA LeaverIsDiscounted ==
  ASSUME NEW v \in Seq(Session), NEW s \in Session, s \in ToSet(v), Distinct(v),
         NEW p, p # s, NEW ip
  PROVE  Cardinality(OthersAt(RemoveFirst(v, s), p, ip))
           = Cardinality(OthersAt(v, p, ip)) - (IF Ip[s] = ip THEN 1 ELSE 0)
<1>1. ToSet(RemoveFirst(v, s)) = ToSet(v) \ {s}
  BY RemoveFromList
<1>2. CASE Ip[s] = ip
  <2>1. OthersAt(RemoveFirst(v, s), p, ip) = OthersAt(v, p, ip) \ {s}
    BY <1>1, <1>2 DEF OthersAt
  <2>2. s \in OthersAt(v, p, ip)
    BY <1>2 DEF OthersAt
  <2> QED
    BY <1>2, <2>1, <2>2, OthersAreFinite, FS_RemoveElement
<1>3. CASE Ip[s] # ip
  <2>1. OthersAt(RemoveFirst(v, s), p, ip) = OthersAt(v, p, ip)
    BY <1>1, <1>3 DEF OthersAt
  <2> QED
    BY <1>3, <2>1, OthersAreFinite
<1> QED
  BY <1>2, <1>3

\* handle_connect tells every open member of the newcomer, and the newcomer of all.
LEMMA ConnectKeepsView ==
  ASSUME LobbyInv, PeerViewMatchesGroup, NEW s \in Session, NEW name \in GroupName,
         handle_connect(s, name)
  PROVE  PeerViewMatchesGroup'
<1> DEFINE key == <<game[s], name>>
           old == IF key \in groups THEN players[key] ELSE <<>>
           now == Append(old, s)
<1>t. /\ players \in [GroupKey -> Seq(Session)]
      /\ groups \subseteq GroupKey
      /\ told \in [Session -> [IPv4 -> Int]]
      /\ group \in [Session -> GroupKey \cup {NULL}]
      /\ game \in [Session -> ProductCode \cup {NULL}]
      /\ Ip \in [Session -> IPv4]
  BY RegistryAssumption DEF LobbyInv, TypeOK
<1>1. /\ group[s] = NULL
      /\ life' = life
      /\ group' = [group EXCEPT ![s] = key]
      /\ players' = [players EXCEPT ![key] = now]
      /\ told' = [p \in Session |->
                    IF p = s
                    THEN [ip \in IPv4 |-> Cardinality({q \in ToSet(old) : Ip[q] = ip})]
                    ELSE IF Receives(p, old)
                         THEN [told[p] EXCEPT ![Ip[s]] = @ + 1]
                         ELSE told[p]]
  BY DEF handle_connect, connect_accepted
<1>2. key \in GroupKey /\ key # NULL
  BY <1>t, RegistryAssumption DEF handle_connect, connect_accepted, GroupKey
<1>3. old \in Seq(Session)
  BY <1>2, <1>t
<1>4. \A p \in Session : p \in ToSet(old) <=> key \in groups /\ group[p] = key
  <2>1. key \notin groups => ToSet(old) = {}
    BY <1>3, EmptyList
  <2> QED
    BY <2>1 DEF LobbyInv, GroupsInv
<1>5. \A p \in Session : group[p] = key => key \in groups /\ old = players[key]
  BY <1>2 DEF LobbyInv, GroupsInv
<1> HIDE DEF key, old
<1>6. s \notin ToSet(old)
  BY <1>1, <1>2, <1>4
<1> SUFFICES ASSUME NEW p \in Session, group'[p] # NULL, life'[p] = "open", NEW ip \in IPv4
             PROVE  told'[p][ip] = Cardinality(OthersAt(players'[group'[p]], p, ip))
  BY DEF PeerViewMatchesGroup, Member, PeersAt, OthersAt
<1>7. CASE p = s
  <2>1. players'[group'[p]] = now
    BY <1>1, <1>2, <1>7, <1>t
  <2>2. OthersAt(now, s, ip) = {q \in ToSet(old) : Ip[q] = ip}
    BY <1>3, <1>6, AppendToList DEF OthersAt
  <2> QED
    BY <1>1, <1>7, <2>1, <2>2
<1>8. CASE p # s
  <2>1. group'[p] = group[p] /\ life[p] = "open" /\ group[p] \in GroupKey
    BY <1>1, <1>8, <1>t
  <2>2. told[p][ip] = Cardinality(OthersAt(players[group[p]], p, ip))
    BY <2>1 DEF PeerViewMatchesGroup, Member, PeersAt, OthersAt
  <2>3. told'[p] = IF p \in ToSet(old) THEN [told[p] EXCEPT ![Ip[s]] = @ + 1] ELSE told[p]
    BY <1>1, <1>8, <2>1 DEF Receives
  <2>4. CASE group[p] = key
    <3>1. players'[group'[p]] = now /\ players[group[p]] = old /\ p \in ToSet(old)
      BY <1>1, <1>2, <1>4, <1>5, <2>1, <2>4, <1>t
    <3>2. told'[p][ip] = told[p][ip] + (IF Ip[s] = ip THEN 1 ELSE 0)
      BY <2>3, <3>1, <1>t
    <3>3. Cardinality(OthersAt(now, p, ip))
            = Cardinality(OthersAt(old, p, ip)) + (IF Ip[s] = ip THEN 1 ELSE 0)
      BY <1>3, <1>6, <1>8, NewcomerIsCounted
    <3> QED
      BY <2>2, <3>1, <3>2, <3>3
  <2>5. CASE group[p] # key
    <3>1. players'[group'[p]] = players[group[p]] /\ p \notin ToSet(old)
      BY <1>1, <1>4, <2>1, <2>5, <1>t
    <3> QED
      BY <2>2, <2>3, <3>1
  <2> QED
    BY <2>4, <2>5
<1> QED
  BY <1>7, <1>8

\* leave_group tells every open member that remains.
LEMMA LeaveKeepsView ==
  ASSUME LobbyInv, PeerViewMatchesGroup, NEW s \in Session, leave_group(s),
         \A p \in Session : p # s => life'[p] = life[p]
  PROVE  PeerViewMatchesGroup'
<1>t. /\ players \in [GroupKey -> Seq(Session)]
      /\ groups \subseteq GroupKey
      /\ told \in [Session -> [IPv4 -> Int]]
      /\ group \in [Session -> GroupKey \cup {NULL}]
      /\ Ip \in [Session -> IPv4]
      /\ NULL \notin GroupKey
  BY RegistryAssumption DEF LobbyInv, TypeOK
<1> SUFFICES ASSUME NEW p \in Session, group'[p] # NULL, life'[p] = "open", NEW ip \in IPv4
             PROVE  told'[p][ip] = Cardinality(OthersAt(players'[group'[p]], p, ip))
  BY DEF PeerViewMatchesGroup, Member, PeersAt, OthersAt
<1>1. p # s /\ group'[p] = group[p] /\ life[p] = "open" /\ group[p] \in GroupKey
  BY <1>t DEF leave_group
<1>2. told[p][ip] = Cardinality(OthersAt(players[group[p]], p, ip))
  BY <1>1 DEF PeerViewMatchesGroup, Member, PeersAt, OthersAt
<1>3. told'[p] = IF group[s] # NULL /\ p \in ToSet(PlayersLeft(s))
                 THEN [told[p] EXCEPT ![Ip[s]] = @ - 1]
                 ELSE told[p]
  BY <1>1 DEF leave_group, leave_group_told, Receives
<1>4. group[p] \in groups /\ players[group[p]] \in Seq(Session) /\ Distinct(players[group[p]])
  BY <1>1, <1>t DEF LobbyInv, GroupsInv
<1>5. CASE group[s] = group[p]
  <2>1. /\ PlayersLeft(s) = RemoveFirst(players[group[p]], s)
        /\ players'[group'[p]] = RemoveFirst(players[group[p]], s)
    BY <1>1, <1>5, <1>t
    DEF leave_group, leave_group_players, PlayersLeft, vector_remove
  <2>2. s \in ToSet(players[group[p]]) /\ p \in ToSet(players[group[p]])
    BY <1>1, <1>4, <1>5 DEF LobbyInv, GroupsInv
  <2>3. p \in ToSet(RemoveFirst(players[group[p]], s))
    BY <1>1, <1>4, <2>2, RemoveFromList
  <2>4. told'[p][ip] = told[p][ip] - (IF Ip[s] = ip THEN 1 ELSE 0)
    BY <1>1, <1>3, <1>5, <2>1, <2>3, <1>t
  <2>5. Cardinality(OthersAt(RemoveFirst(players[group[p]], s), p, ip))
          = Cardinality(OthersAt(players[group[p]], p, ip)) - (IF Ip[s] = ip THEN 1 ELSE 0)
    BY <1>1, <1>4, <2>2, LeaverIsDiscounted
  <2> QED
    BY <1>2, <2>1, <2>4, <2>5
<1>6. CASE group[s] # group[p]
  <2>1. players'[group'[p]] = players[group[p]]
    BY <1>1, <1>6, <1>t DEF leave_group, leave_group_players
  <2>2. group[s] # NULL => p \notin ToSet(PlayersLeft(s))
    <3> SUFFICES ASSUME group[s] # NULL PROVE p \notin ToSet(PlayersLeft(s))
      OBVIOUS
    <3>1. /\ group[s] \in groups
          /\ players[group[s]] \in Seq(Session)
          /\ Distinct(players[group[s]])
      BY <1>t DEF LobbyInv, GroupsInv
    <3>2. p \notin ToSet(players[group[s]])
      BY <1>6, <3>1 DEF LobbyInv, GroupsInv
    <3> QED
      BY <3>1, <3>2, RemoveFromList DEF PlayersLeft, vector_remove
  <2> QED
    BY <1>2, <1>3, <2>1, <2>2
<1> QED
  BY <1>5, <1>6

\* Steps that touch no group and no count keep the views.
LEMMA ViewKept ==
  ASSUME PeerViewMatchesGroup, UNCHANGED <<group, players>>,
         \A p \in Session : group[p] # NULL /\ life'[p] = "open" =>
           life[p] = "open" /\ told'[p] = told[p]
  PROVE  PeerViewMatchesGroup'
  BY DEF PeerViewMatchesGroup, Member, PeersAt

(***************************************************************************)
(* The CONNECT and DISCONNECT packets queued to an open member add up to   *)
(* its group, address by address, through every order of joins, leaves,    *)
(* closes and reaps, and although members may share an address.            *)
(***************************************************************************)
THEOREM ViewsMatchGroups == Spec => []PeerViewMatchesGroup
<1>1. Init => PeerViewMatchesGroup
  BY DEF Init, InitRegistry, PeerViewMatchesGroup, Member
<1>2. LobbyInv /\ PeerViewMatchesGroup /\ [Next]_vars => PeerViewMatchesGroup'
  <2> SUFFICES ASSUME LobbyInv, PeerViewMatchesGroup, [Next]_vars
               PROVE  PeerViewMatchesGroup'
    OBVIOUS
  <2>t. life \in [Session -> Lives] /\ told \in [Session -> [IPv4 -> Int]]
    BY DEF LobbyInv, TypeOK
  <2>1. CASE UNCHANGED <<registry_vars, life>>
    BY <2>1, ViewKept DEF registry_vars
  <2>2. ASSUME NEW s \in Session, Accept(s) PROVE PeerViewMatchesGroup'
    <3>1. group[s] = NULL
      BY <2>2, NoGameNoGroup DEF Accept, LobbyInv, LivesInv
    <3> QED
      BY <2>2, <2>t, <3>1, ViewKept DEF Accept, try_open_connection
  <2>3. ASSUME NEW s \in Session, NEW pkt \in LoginPacket, handle_login(s, pkt)
        PROVE  PeerViewMatchesGroup'
    BY <2>3, ViewKept DEF handle_login
  <2>4. ASSUME NEW s \in Session, NEW pkt \in LoginPacket, handle_login_throws(s, pkt)
        PROVE  PeerViewMatchesGroup'
    BY <2>4, <2>t, ViewKept DEF handle_login_throws, registry_vars
  <2>5. ASSUME NEW s \in Session, handle_disconnect(s) PROVE PeerViewMatchesGroup'
    BY <2>5, LeaveKeepsView DEF handle_disconnect
  <2>6. ASSUME NEW s \in Session, close_connection(s) PROVE PeerViewMatchesGroup'
    BY <2>6, <2>t, LeaveKeepsView DEF close_connection
  <2>7. ASSUME NEW s \in Session, close(s) PROVE PeerViewMatchesGroup'
    BY <2>7, <2>t, ViewKept DEF close
  <2> QED
    BY <2>1, <2>2, <2>3, <2>4, <2>5, <2>6, <2>7, StepCases, ConnectKeepsView
<1> QED
  BY <1>1, <1>2, LobbyInvariant, PTL DEF Spec

-----------------------------------------------------------------------------
(***************************************************************************)
(* The registry implements the Lobby, with each session's place read off   *)
(* the lists of the nodes and not off the session's own pointers.          *)
(***************************************************************************)
\* The name of the group a session points at.
GroupOf(s) == IF group[s] = NULL THEN NULL ELSE group[s][2]

(***************************************************************************)
(* Under the invariant the lists and the pointers say the same.            *)
(***************************************************************************)
PlacesMatch ==
  /\ PlaceInGames = [s \in Session |-> game[s]]
  /\ PlaceInGroups = [s \in Session |-> GroupOf(s)]

LEMMA PlacesArePointers == LobbyInv => PlacesMatch
<1> SUFFICES ASSUME LobbyInv PROVE PlacesMatch
  OBVIOUS
<1>n. NULL \notin ProductCode /\ NULL \notin GroupKey
  BY RegistryAssumption
<1>t. games_ \subseteq ProductCode /\ groups \subseteq GroupKey
  BY DEF LobbyInv, TypeOK
<1>1. ASSUME NEW s \in Session
      PROVE  game[s] = IF GamesListing(s) = {} THEN NULL
                       ELSE CHOOSE c \in GamesListing(s) : TRUE
  <2>1. GamesListing(s) = IF game[s] = NULL THEN {} ELSE {game[s]}
    BY <1>n, <1>t DEF GamesListing, LobbyInv, GamesInv
  <2> QED
    BY <2>1
<1>2. ASSUME NEW s \in Session
      PROVE  GroupOf(s) = IF GroupsListing(s) = {} THEN NULL
                          ELSE (CHOOSE k \in GroupsListing(s) : TRUE)[2]
  <2>1. GroupsListing(s) = IF group[s] = NULL THEN {} ELSE {group[s]}
    BY <1>n, <1>t DEF GroupsListing, LobbyInv, GroupsInv
  <2> QED
    BY <2>1 DEF GroupOf
<1> QED
  BY <1>1, <1>2 DEF PlacesMatch, PlaceInGames, PlaceInGroups

(***************************************************************************)
(* The places after a step in which s alone may have moved, to game c and  *)
(* the group named g.                                                      *)
(***************************************************************************)
LEMMA PlacesAfter ==
  ASSUME LobbyInv, PlacesMatch, PlacesMatch', NEW s \in Session, NEW c, NEW g,
         game' = [game EXCEPT ![s] = c],
         group' = [group EXCEPT ![s] = g]
  PROVE  /\ PlaceInGames' = [PlaceInGames EXCEPT ![s] = c]
         /\ PlaceInGroups' = [PlaceInGroups EXCEPT ![s] = IF g = NULL THEN NULL ELSE g[2]]
<1>1. game \in [Session -> ProductCode \cup {NULL}] /\ group \in [Session -> GroupKey \cup {NULL}]
  BY DEF LobbyInv, TypeOK
<1>2. /\ PlaceInGames = [p \in Session |-> game[p]]
      /\ PlaceInGames' = [p \in Session |-> game'[p]]
  BY DEF PlacesMatch
<1>3. /\ PlaceInGroups = [p \in Session |-> IF group[p] = NULL THEN NULL ELSE group[p][2]]
      /\ PlaceInGroups' = [p \in Session |-> IF group'[p] = NULL THEN NULL ELSE group'[p][2]]
  BY DEF PlacesMatch, GroupOf
<1>4. PlaceInGames' = [PlaceInGames EXCEPT ![s] = c]
  BY <1>1, <1>2
<1>5. PlaceInGroups' = [PlaceInGroups EXCEPT ![s] = IF g = NULL THEN NULL ELSE g[2]]
  BY <1>1, <1>3
<1> QED
  BY <1>4, <1>5

\* Every step of the server is a step of the Lobby, or none.
LEMMA LobbySimulation ==
  ASSUME LobbyInv, LobbyInv', PlacesMatch, PlacesMatch', SlotAccounting, [Next]_vars
  PROVE  [L!Next]_(L!vars)
<1>t. /\ game \in [Session -> ProductCode \cup {NULL}]
      /\ group \in [Session -> GroupKey \cup {NULL}]
      /\ \A s \in Session : /\ PlaceInGames[s] = game[s]
                            /\ PlaceInGroups[s] = IF group[s] = NULL THEN NULL ELSE group[s][2]
  BY DEF LobbyInv, TypeOK, PlacesMatch, GroupOf
<1>n. NULL \notin ProductCode /\ NULL \notin GroupKey /\ NULL \notin ValidGroupName
  BY RegistryAssumption
<1>s. ASSUME UNCHANGED <<game, group>>
      PROVE  UNCHANGED <<PlaceInGames, PlaceInGroups>>
  BY <1>s DEF PlacesMatch, GroupOf
<1>1. CASE UNCHANGED <<registry_vars, life>>
  <2>1. UNCHANGED <<life, PlaceInGames, PlaceInGroups>>
    BY <1>1, <1>s DEF registry_vars
  <2> QED
    BY <2>1 DEF L!vars
<1>2. ASSUME NEW s \in Session, Accept(s) PROVE L!Open(s)
  <2>1. UNCHANGED <<PlaceInGames, PlaceInGroups>>
    BY <1>2, <1>s DEF Accept, try_open_connection
  <2>2. L!Cardinality(L!Holders) < SERVER_USER_MAXIMUM
    BY <1>2 DEF Accept, try_open_connection, SlotAccounting, Holders, L!Holders,
                L!Cardinality, Cardinality
  <2> QED
    BY <1>2, <2>1, <2>2 DEF Accept, try_open_connection, L!Open
<1>3. ASSUME NEW s \in Session, NEW pkt \in LoginPacket, Reading(s), handle_login(s, pkt)
      PROVE  \E code \in ProductCode : L!Login(s, code)
  <2> DEFINE code == apply_crosslink(pkt.game)
  <2>1. code \in ProductCode
    BY DatabaseAssumption DEF LoginPacket, apply_crosslink
  <2>2. /\ game[s] = NULL
        /\ game' = [game EXCEPT ![s] = code]
        /\ group' = group
        /\ life' = life
        /\ life[s] = "open"
    BY <1>3 DEF handle_login, login_accepted, Reading
  <2> HIDE DEF code
  <2>3. group' = [group EXCEPT ![s] = group[s]]
    BY <2>2, <1>t
  <2>4. /\ PlaceInGames' = [PlaceInGames EXCEPT ![s] = code]
        /\ PlaceInGroups' = [PlaceInGroups EXCEPT ![s] = IF group[s] = NULL THEN NULL ELSE group[s][2]]
    BY <2>2, <2>3, PlacesAfter
  <2>5. PlaceInGroups' = PlaceInGroups
    BY <2>4, <1>t DEF PlacesMatch
  <2> QED
    BY <2>1, <2>2, <2>4, <2>5, <1>t DEF L!Login
<1>4. ASSUME NEW s \in Session, NEW pkt \in LoginPacket, Reading(s), handle_login_throws(s, pkt)
      PROVE  L!Orphan(s)
  <2>1. UNCHANGED <<PlaceInGames, PlaceInGroups>>
    BY <1>4, <1>s DEF handle_login_throws, registry_vars
  <2> QED
    BY <1>4, <1>t, <2>1 DEF handle_login_throws, login_accepted, Reading, L!Orphan
<1>5. ASSUME NEW s \in Session, NEW name \in GroupName, Reading(s), handle_connect(s, name)
      PROVE  \E g \in ValidGroupName : L!Join(s, g)
  <2> DEFINE key == <<game[s], name>>
  <2>1. /\ game[s] # NULL
        /\ name \in ValidGroupName
        /\ group[s] = NULL
        /\ group' = [group EXCEPT ![s] = key]
        /\ game' = game
        /\ life' = life
        /\ life[s] = "open"
    BY <1>5 DEF handle_connect, connect_accepted, Reading
  <2>2. game' = [game EXCEPT ![s] = game[s]]
    BY <2>1, <1>t
  <2>3. key # NULL /\ key[2] = name
    BY <2>1, <1>n, <1>t DEF GroupKey
  <2> HIDE DEF key
  <2>4. /\ PlaceInGames' = [PlaceInGames EXCEPT ![s] = PlaceInGames[s]]
        /\ PlaceInGroups' = [PlaceInGroups EXCEPT ![s] = name]
    <3>1. /\ PlaceInGames' = [PlaceInGames EXCEPT ![s] = game[s]]
          /\ PlaceInGroups' = [PlaceInGroups EXCEPT ![s] = IF key = NULL THEN NULL ELSE key[2]]
      BY <2>1, <2>2, PlacesAfter
    <3> QED
      BY <2>3, <1>t, <3>1
  <2>5. PlaceInGames' = PlaceInGames
    BY <2>4 DEF PlacesMatch
  <2> QED
    BY <2>1, <2>4, <2>5, <1>t DEF L!Join
<1>6. ASSUME NEW s \in Session, Reading(s), handle_disconnect(s) PROVE L!Leave(s)
  <2>1. /\ group[s] # NULL
        /\ group' = [group EXCEPT ![s] = NULL]
        /\ game' = [game EXCEPT ![s] = game[s]]
        /\ life' = life
        /\ life[s] = "open"
    BY <1>6, <1>t DEF handle_disconnect, disconnect_accepted, leave_group, Reading
  <2>2. PlaceInGroups[s] # NULL
    BY <2>1, <1>n, <1>t, KeyParts
  <2>3. /\ PlaceInGames' = [PlaceInGames EXCEPT ![s] = PlaceInGames[s]]
        /\ PlaceInGroups' = [PlaceInGroups EXCEPT ![s] = NULL]
    BY <2>1, <1>t, PlacesAfter
  <2>4. PlaceInGames' = PlaceInGames
    BY <2>3 DEF PlacesMatch
  <2> QED
    BY <2>1, <2>2, <2>3, <2>4 DEF L!Leave
<1>7. ASSUME NEW s \in Session, life[s] \in {"open", "closed"}, close_connection(s)
      PROVE  L!Reap(s)
  <2>1. /\ group' = [group EXCEPT ![s] = NULL]
        /\ game' = [game EXCEPT ![s] = NULL]
        /\ life' = [life EXCEPT ![s] = "idle"]
    BY <1>7 DEF close_connection, leave_group
  <2>2. /\ PlaceInGames' = [PlaceInGames EXCEPT ![s] = NULL]
        /\ PlaceInGroups' = [PlaceInGroups EXCEPT ![s] = NULL]
    BY <2>1, PlacesAfter
  <2> QED
    BY <1>7, <2>1, <2>2 DEF L!Reap
<1>8. ASSUME NEW s \in Session, close(s) PROVE L!Close(s)
  <2>1. UNCHANGED <<PlaceInGames, PlaceInGroups>>
    BY <1>8, <1>s DEF close
  <2> QED
    BY <1>8, <2>1 DEF close, Reading, L!Close
<1> QED
  BY <1>1, <1>2, <1>3, <1>4, <1>5, <1>6, <1>7, <1>8, StepCases DEF L!Next

(***************************************************************************)
(* The lobby server implements the Lobby: for any number of sessions,      *)
(* games, groups and slots, no step moves a session but its own.           *)
(***************************************************************************)
THEOREM ServerImplementsLobby == Spec => ImplementsLobby
<1>1. Init /\ PlacesMatch => L!Init
  <2> SUFFICES ASSUME Init, PlacesMatch PROVE L!Init
    OBVIOUS
  <2> QED
    BY DEF Init, InitRegistry, PlacesMatch, GroupOf, L!Init
<1>2. LobbyInv /\ LobbyInv' /\ PlacesMatch /\ PlacesMatch' /\ SlotAccounting /\ [Next]_vars
        => [L!Next]_(L!vars)
  BY LobbySimulation
<1> QED
  BY <1>1, <1>2, LobbyInvariant, PlacesArePointers, SlotsAreAccounted, PTL DEF Spec, ImplementsLobby, L!Spec

-----------------------------------------------------------------------------
(***************************************************************************)
(* The sessions of the server                                              *)
(***************************************************************************)
Life(s) == INSTANCE SessionLife WITH life <- life[s]

(***************************************************************************)
(* Each session object of the server lives as SessionLife says, which is   *)
(* what module Session implements: whatever the handlers do, a session is  *)
(* opened only when idle and reaped only when it had been opened and did   *)
(* not end as an orphan.  What is proved here of the lobby therefore       *)
(* relies on nothing that the coroutines of a session do not provide.      *)
(***************************************************************************)
THEOREM SessionsLiveAsPromised ==
  ASSUME NEW s \in Session
  PROVE  Spec => Life(s)!Spec
<1>1. Init => Life(s)!Init
  BY DEF Init, InitRegistry, Life!Init
<1>2. ASSUME LobbyInv, [Next]_vars PROVE [Life(s)!Next]_(life[s])
  <2>1. life \in [Session -> Lives]
    BY <1>2 DEF LobbyInv, TypeOK
  <2>2. CASE UNCHANGED life
    BY <2>2
  <2>3. ASSUME NEW t \in Session, NEW l \in Lives, life' = [life EXCEPT ![t] = l],
               \/ life[t] = "idle" /\ l = "open"
               \/ life[t] = "open" /\ l \in {"closed", "orphaned"}
               \/ life[t] \in {"open", "closed"} /\ l = "idle"
        PROVE  [Life(s)!Next]_(life[s])
    <3>1. life'[s] = IF s = t THEN l ELSE life[s]
      BY <2>1, <2>3
    <3> QED
      BY <2>3, <3>1 DEF Life!Next, Life!Open, Life!Close, Life!Reap, Life!Orphan
  <2>4. CASE \E t \in Session : Accept(t)
    BY <2>3, <2>4 DEF Accept, try_open_connection, Lives
  <2>5. CASE \E t \in Session, pkt \in LoginPacket :
               Reading(t) /\ handle_login_throws(t, pkt) /\ UNCHANGED phase
    BY <2>3, <2>5 DEF Reading, handle_login_throws, Lives
  <2>6. CASE \E t \in Session : close(t)
    BY <2>3, <2>6 DEF close, Reading, Lives
  <2>7. CASE \E t \in Session :
               life[t] \in {"open", "closed"} /\ close_connection(t) /\ UNCHANGED phase
    BY <2>3, <2>7 DEF close_connection, Lives
  <2>8. CASE \E t \in Session, pkt \in LoginPacket :
               Reading(t) /\ handle_login(t, pkt) /\ UNCHANGED phase
    BY <2>2, <2>8 DEF handle_login
  <2>9. CASE \E t \in Session, name \in GroupName :
               Reading(t) /\ handle_connect(t, name) /\ UNCHANGED phase
    BY <2>2, <2>9 DEF handle_connect
  <2>10. CASE \E t \in Session : Reading(t) /\ handle_disconnect(t) /\ UNCHANGED phase
    BY <2>2, <2>10 DEF handle_disconnect
  <2>11. CASE UNCHANGED <<registry_vars, life>> /\ phase' \in {phase} \cup Phases
    BY <2>2, <2>11
  <2> QED
    BY <1>2, <2>4, <2>5, <2>6, <2>7, <2>8, <2>9, <2>10, <2>11, StepCases, Zenon
<1> QED
  BY <1>1, <1>2, LobbyInvariant, PTL DEF Spec, Life!Spec

=============================================================================
