------------------------- MODULE StatusServerProofs -------------------------
(***************************************************************************)
(* A status page shows the lobby and the ports of the relay's directory.   *)
(*                                                                         *)
(* That it shows the lobby is shown in four parts: snapshot_for_status     *)
(* lists every session in a game once; the loop of build_status_games      *)
(* adds them one by one; each turn of it keeps what the list of games says *)
(* about the sessions it has seen; and what it says about all of them is   *)
(* what the nodes say, by the invariant of GameServerProofs.               *)
(***************************************************************************)
EXTENDS StatusServer, GameServerProofs

DP == INSTANCE RelayDirectoryProofs WITH added <- FALSE

\* What a step does to the lobby, to the directory and to the page.
LEMMA StatusSteps ==
  ASSUME [StatusNext]_status_vars
  PROVE  /\ [Next]_vars
         /\ \/ UNCHANGED <<vars, by_mac_, page>>
            \/ page' = NULL /\ UNCHANGED by_mac_
            \/ page' = NULL /\ \E mac \in Mac, kind \in D!Kind, port \in Port :
                 by_mac_' \in {D!Added(mac, kind, port), D!Removed(mac, kind, port)}
            \/ /\ UNCHANGED <<vars, by_mac_>>
               /\ \E order \in SetToSeqs(games_) : page' = build_status_json(order)
<1>1. CASE UNCHANGED status_vars
  BY <1>1 DEF status_vars
<1>2. CASE LobbyStep
  BY <1>2 DEF LobbyStep
<1>3. CASE RelayStep
  BY <1>3 DEF RelayStep
<1>4. ASSUME NEW c \in Connection, NEW keep_alive \in BOOLEAN, RequestData(c, keep_alive)
      PROVE  /\ UNCHANGED <<vars, by_mac_>>
             /\ \E order \in SetToSeqs(games_) : page' = build_status_json(order)
  BY <1>4 DEF RequestData
<1>5. ASSUME NEW c \in Connection,
             \/ StatusAccept(c)
             \/ \E keep_alive \in BOOLEAN : RequestOther(c, keep_alive)
             \/ RequestDataThrows(c)
             \/ ResponseWritten(c)
             \/ StatusFails(c)
      PROVE  page' = NULL /\ UNCHANGED <<vars, by_mac_>>
  BY <1>5 DEF StatusAccept, RequestOther, RequestDataThrows, ResponseWritten, StatusFails
<1> QED
  BY <1>1, <1>2, <1>3, <1>4, <1>5 DEF StatusNext

\* The directory of StatusServer and the one of the lemmas are the same.
LEMMA SameDirectory ==
  /\ D!Kind = DP!Kind
  /\ \A mac : D!find(mac) = DP!find(mac)
  /\ \A mac, kind, port : D!Added(mac, kind, port) = DP!Added(mac, kind, port)
  /\ \A mac, kind, port : D!Removed(mac, kind, port) = DP!Removed(mac, kind, port)
<1>1. D!Kind = DP!Kind
  BY DEF D!Kind, DP!Kind
<1>2. D!NoPorts = DP!NoPorts
  BY <1>1 DEF D!NoPorts, DP!NoPorts
<1>3. \A mac : D!find(mac) = DP!find(mac)
  BY <1>2 DEF D!find, DP!find
<1>4. \A mac, set : D!With(mac, set) = DP!With(mac, set)
  BY DEF D!With, DP!With
<1>5. \A mac : D!Without(mac) = DP!Without(mac)
  BY DEF D!Without, DP!Without
<1>6. \A v, port : D!lower_bound(v, port) = DP!lower_bound(v, port)
  BY Zenon DEF D!lower_bound, DP!lower_bound
<1>7. \A v, port : D!Inserted(v, port) = DP!Inserted(v, port)
  BY <1>6 DEF D!Inserted, DP!Inserted, D!InsertAt, DP!InsertAt
<1>8. \A mac, kind, port : D!present(mac, kind, port) <=> DP!present(mac, kind, port)
  BY <1>3, <1>6 DEF D!present, DP!present
<1>9. \A mac, kind, port : D!Added(mac, kind, port) = DP!Added(mac, kind, port)
  BY <1>3, <1>4, <1>7, <1>8 DEF D!Added, DP!Added
<1>10. \A set, kind : D!Empty(set, kind) <=> DP!Empty(set, kind)
  BY <1>1 DEF D!Empty, DP!Empty
<1>11. \A v, e : D!RemoveFirst(v, e) = DP!RemoveFirst(v, e)
  BY DEF D!RemoveFirst, DP!RemoveFirst, D!SelectInSeq, DP!SelectInSeq, D!RemoveAt, DP!RemoveAt,
         D!Min, DP!Min
<1>12. \A mac, kind, port : D!Removed(mac, kind, port) = DP!Removed(mac, kind, port)
  BY <1>3, <1>4, <1>5, <1>10, <1>11 DEF D!Removed, DP!Removed
<1> QED
  BY <1>1, <1>3, <1>9, <1>12

\* Relay sessions keep the directory sorted, seen from the status server.
LEMMA DirectoryKept ==
  ASSUME DP!DirectoryInv, NEW mac \in Mac, NEW kind \in D!Kind, NEW port \in Port,
         by_mac_' \in {D!Added(mac, kind, port), D!Removed(mac, kind, port)}
  PROVE  DP!DirectoryInv'
<1>1. kind \in DP!Kind
  BY SameDirectory
<1>2. by_mac_' = DP!Added(mac, kind, port) \/ by_mac_' = DP!Removed(mac, kind, port)
  BY SameDirectory
<1>3. Port \subseteq Nat
  BY StatusAssumption
<1> QED
  BY <1>1, <1>2, <1>3, DP!DirectoryStep

\* A page that is built now shows the ports that are listed now.
LEMMA PortsAreListed ==
  ASSUME DP!DirectoryInv, NEW s \in Session, NEW kind \in D!Kind
  PROVE  /\ status_ports(s)[kind] = D!find(MacOf[s])[kind]
         /\ ToSet(D!find(MacOf[s])[kind]) = {p \in Port : <<MacOf[s], kind, p>> \in D!Listed}
         /\ IsInjective(D!find(MacOf[s])[kind])
<1>1. PICK mac \in Mac : mac = MacOf[s]
  BY StatusAssumption
<1>2. kind \in {"pdp", "ptp"} /\ kind \in DP!Kind
  BY SameDirectory DEF D!Kind
<1>3. status_ports(s)[kind] = D!find(mac)[kind]
  BY <1>1, <1>2 DEF status_ports
<1>4. PICK v : v = D!find(mac)[kind]
  OBVIOUS
<1>5. v \in Seq(Port) /\ DP!StrictlyAscending(v)
  <2>1. Port \subseteq Nat
    BY StatusAssumption
  <2>2. /\ DP!find(mac) \in [DP!Kind -> Seq(Port)]
        /\ \A k \in DP!Kind : DP!StrictlyAscending(DP!find(mac)[k])
    BY <2>1, DP!FindIs
  <2> QED
    BY <1>2, <1>4, <2>2, SameDirectory
<1>6. /\ Len(v) \in Nat
      /\ DOMAIN v = 1..Len(v)
      /\ \A i \in 1..Len(v) : v[i] \in Port /\ v[i] \in Nat
  BY <1>5, LenProperties, ElementOfSeq, StatusAssumption
<1>7. ToSet(v) = {p \in Port : <<mac, kind, p>> \in D!Listed}
  <2>1. \A p \in Port : <<mac, kind, p>> \in D!Listed <=> p \in ToSet(v)
    BY <1>4 DEF D!Listed, D!ToSet, ToSet
  <2>2. ToSet(v) \subseteq Port
    BY <1>6 DEF ToSet
  <2> QED
    BY <2>1, <2>2
<1>8. IsInjective(v)
  <2> SUFFICES ASSUME NEW i \in 1..Len(v), NEW j \in 1..Len(v), v[i] = v[j], i < j
               PROVE  FALSE
    BY <1>6 DEF IsInjective
  <2>1. v[i] < v[j]
    BY <1>5 DEF DP!StrictlyAscending
  <2> QED
    BY <1>6, <2>1
<1> QED
  BY <1>1, <1>3, <1>4, <1>7, <1>8

(***************************************************************************)
(* The page of the last step shows the ports of the directory, which the   *)
(* relay keeps sorted.                                                     *)
(***************************************************************************)
StatusInv == DP!DirectoryInv /\ PageShowsPorts

LEMMA StatusInvStep ==
  ASSUME StatusInv, [StatusNext]_status_vars
  PROVE  StatusInv'
<1>1. DP!DirectoryInv /\ PageShowsPorts
  BY DEF StatusInv
<1>2. by_mac_' = by_mac_ => DP!DirectoryInv'
  BY <1>1 DEF DP!DirectoryInv, DP!PortSets, DP!DirectoryIsTidy
<1>3. page' = NULL => PageShowsPorts'
  BY DEF PageShowsPorts
<1>4. CASE UNCHANGED <<vars, by_mac_, page>>
  <2>1. PageShowsPorts'
    BY <1>1, <1>4 DEF PageShowsPorts, D!Listed, D!find
  <2> QED
    BY <1>2, <1>4, <2>1 DEF StatusInv
<1>5. CASE page' = NULL /\ UNCHANGED by_mac_
  BY <1>2, <1>3, <1>5 DEF StatusInv
<1>6. CASE page' = NULL /\ \E mac \in Mac, kind \in D!Kind, port \in Port :
             by_mac_' \in {D!Added(mac, kind, port), D!Removed(mac, kind, port)}
  BY <1>1, <1>3, <1>6, DirectoryKept DEF StatusInv
<1>7. CASE UNCHANGED by_mac_ /\ \E order \in SetToSeqs(games_) : page' = build_status_json(order)
  <2>1. PICK order : page' = build_status_json(order)
    BY <1>7
  <2>2. page'.ports = [s \in {u \in Session : game[u] # NULL} |-> status_ports(s)]
    BY <2>1 DEF build_status_json
  <2>3. ASSUME NEW s \in DOMAIN page'.ports, NEW kind \in D!Kind
        PROVE  /\ ToSet(page'.ports[s][kind]) = {p \in Port : <<MacOf[s], kind, p>> \in D!Listed}
               /\ IsInjective(page'.ports[s][kind])
    <3>1. s \in Session /\ page'.ports[s] = status_ports(s)
      BY <2>2
    <3> QED
      BY <1>1, <3>1, PortsAreListed
  <2>4. D!Listed' = D!Listed
    BY <1>7 DEF D!Listed, D!find
  <2>5. PageShowsPorts'
    BY <2>3, <2>4 DEF PageShowsPorts
  <2> QED
    BY <1>2, <1>7, <2>5 DEF StatusInv
<1> QED
  BY <1>4, <1>5, <1>6, <1>7, StatusSteps

(***************************************************************************)
(* build_status_json shows for each user the ports that relay_directory    *)
(* lists for its MAC address, each once and under its kind, for any number *)
(* of users, addresses, ports and status connections.                      *)
(***************************************************************************)
THEOREM PagesShowPorts == StatusSpec => []PageShowsPorts
<1>1. StatusInit => StatusInv
  <2> SUFFICES ASSUME StatusInit PROVE StatusInv
    OBVIOUS
  <2>1. by_mac_ = [mac \in {} |-> D!NoPorts] /\ page = NULL
    BY DEF StatusInit, D!Init
  <2>2. DP!DirectoryInv
    BY <2>1 DEF DP!DirectoryInv, DP!PortSets, DP!DirectoryIsTidy
  <2> QED
    BY <2>1, <2>2 DEF StatusInv, PageShowsPorts
<1>2. StatusInv /\ [StatusNext]_status_vars => StatusInv'
  BY StatusInvStep
<1>3. StatusInv => PageShowsPorts
  BY DEF StatusInv
<1> QED
  BY <1>1, <1>2, <1>3, PTL DEF StatusSpec

-----------------------------------------------------------------------------
\* The sessions in a game, and how the page has each of them.
Players == {s \in Session : game[s] # NULL}
StatusUser == {status_user(s, game[s]) : s \in Session}

\* A list of the users in U, each once, as snapshot_for_status gives it.
ListsUsers(v, U) ==
  /\ v \in Seq(StatusUser)
  /\ Distinct(v)
  /\ ToSet(v) = {status_user(s, game[s]) : s \in U}

\* A user of the page is known by its session.
LEMMA StatusUserIs ==
  ASSUME NEW s, NEW t, NEW c, NEW d
  PROVE  /\ status_user(s, c).session = s
         /\ status_user(s, c) = status_user(t, d) => s = t
  BY Zenon DEF status_user

\* Every game has a user, so there are finitely many games.
LEMMA GamesAreFinite ==
  ASSUME LobbyInv
  PROVE  IsFiniteSet(games_)
<1> DEFINE f == [s \in Players |-> game[s]]
<1>1. f \in [Players -> games_]
  BY DEF LobbyInv, GamesInv, Players
<1>2. ASSUME NEW c \in games_ PROVE \E s \in Players : f[s] = c
  <2>1. users[c] \in Seq(Session) /\ users[c] # <<>> /\ c \in ProductCode
    BY DEF LobbyInv, TypeOK, GamesInv
  <2>2. PICK s \in ToSet(users[c]) : TRUE
    BY <2>1, EmptyList
  <2>3. s \in Session
    BY <2>1, <2>2, LenProperties, ElementOfSeq DEF ToSet
  <2>4. game[s] = c /\ c # NULL
    BY <2>1, <2>2, <2>3, RegistryAssumption DEF LobbyInv, GamesInv
  <2> QED
    BY <2>3, <2>4 DEF Players
<1>3. f \in Surjection(Players, games_)
  BY <1>1, <1>2, Fun_IsSurj
<1>4. IsFiniteSet(Players)
  <2>1. Players \in SUBSET Session
    BY DEF Players
  <2> QED
    BY <2>1, RegistryAssumption, FS_Subset
<1> HIDE DEF f
<1> QED
  BY <1>3, <1>4, FS_Surjection

\* The order of the map has each game once.
LEMMA OrderIsComplete ==
  ASSUME LobbyInv, NEW order \in SetToSeqs(games_)
  PROVE  /\ Len(order) \in Nat
         /\ order \in [1..Len(order) -> games_]
         /\ \A i, j \in 1..Len(order) : order[i] = order[j] => i = j
         /\ \A c \in games_ : \E i \in 1..Len(order) : order[i] = c
<1>1. PICK n : n = Cardinality(games_)
  OBVIOUS
<1>2. n \in Nat /\ IsFiniteSet(games_)
  BY <1>1, GamesAreFinite, FS_CardinalityType
<1>3. /\ order \in [1..n -> games_]
      /\ \A i, j \in 1..n : order[i] = order[j] => i = j
  BY <1>1 DEF SetToSeqs
<1>4. order \in Injection(1..n, games_)
  BY <1>3, Fun_IsInj
<1>5. Cardinality(1..n) = n
  BY <1>2, FS_Interval
<1>6. order \in Surjection(1..n, games_)
  BY <1>1, <1>2, <1>4, <1>5, FS_Injection
<1>7. \A c \in games_ : \E i \in 1..n : order[i] = c
  BY <1>6 DEF Surjection
<1>8. order \in Seq(games_) /\ Len(order) = n
  BY <1>2, <1>3
<1> QED
  BY <1>2, <1>3, <1>7, <1>8

\* The users of one game, as its game_node lists them.
LEMMA UsersOfGame ==
  ASSUME LobbyInv, NEW c \in games_
  PROVE  ListsUsers([j \in 1..Len(users[c]) |-> status_user(users[c][j], c)],
                    {s \in Session : game[s] = c})
<1>1. PICK v : v = users[c]
  OBVIOUS
<1>2. v \in Seq(Session) /\ Distinct(v) /\ \A s \in Session : s \in ToSet(v) <=> game[s] = c
  BY <1>1 DEF LobbyInv, TypeOK, GamesInv
<1>3. Len(v) \in Nat /\ DOMAIN v = 1..Len(v) /\ \A j \in 1..Len(v) : v[j] \in Session
  BY <1>2, LenProperties, ElementOfSeq
<1>4. \A j \in 1..Len(v) : game[v[j]] = c
  BY <1>2, <1>3 DEF ToSet
<1> DEFINE w == [j \in 1..Len(v) |-> status_user(v[j], c)]
<1>5. \A j \in 1..Len(v) : w[j] = status_user(v[j], game[v[j]]) /\ w[j] \in StatusUser
  BY <1>3, <1>4 DEF StatusUser
<1>6. w \in Seq(StatusUser) /\ Len(w) = Len(v) /\ DOMAIN w = 1..Len(v)
  BY <1>3, <1>5
<1> HIDE DEF w
<1>7. Distinct(w)
  <2> SUFFICES ASSUME NEW i \in 1..Len(v), NEW j \in 1..Len(v), w[i] = w[j] PROVE i = j
    BY <1>6 DEF Distinct
  <2>1. v[i] = v[j]
    BY <1>5, StatusUserIs
  <2> QED
    BY <1>2, <2>1 DEF Distinct
<1>8. ToSet(w) = {status_user(s, game[s]) : s \in {s \in Session : game[s] = c}}
  <2>1. ASSUME NEW s \in Session, game[s] = c PROVE status_user(s, game[s]) \in ToSet(w)
    <3>1. PICK j \in 1..Len(v) : v[j] = s
      BY <1>2, <1>3, <2>1 DEF ToSet
    <3>2. j \in DOMAIN w /\ w[j] = status_user(s, game[s])
      BY <1>5, <1>6, <3>1
    <3> QED
      BY <3>2 DEF ToSet
  <2>2. ASSUME NEW x \in ToSet(w)
        PROVE  \E s \in {s \in Session : game[s] = c} : x = status_user(s, game[s])
    <3>1. PICK j \in 1..Len(v) : x = w[j]
      BY <1>6 DEF ToSet
    <3> QED
      BY <1>3, <1>4, <1>5, <3>1
  <2> QED
    BY <2>1, <2>2
<1> QED
  BY <1>1, <1>6, <1>7, <1>8 DEF ListsUsers, w

\* Users of different games are different users.
LEMMA MoreUsers ==
  ASSUME NEW v, NEW w, NEW U \in SUBSET Session, NEW V \in SUBSET Session,
         U \cap V = {}, ListsUsers(v, U), ListsUsers(w, V)
  PROVE  ListsUsers(v \o w, U \cup V)
<1>1. /\ v \in Seq(StatusUser) /\ Distinct(v) /\ ToSet(v) = {status_user(s, game[s]) : s \in U}
      /\ w \in Seq(StatusUser) /\ Distinct(w) /\ ToSet(w) = {status_user(s, game[s]) : s \in V}
  BY DEF ListsUsers
<1>2. ToSet(v) \cap ToSet(w) = {}
  BY <1>1, StatusUserIs
<1>3. /\ v \o w \in Seq(StatusUser)
      /\ ToSet(v \o w) = ToSet(v) \cup ToSet(w)
      /\ Distinct(v \o w)
  BY <1>1, <1>2, ConcatLists
<1>4. ToSet(v \o w) = {status_user(s, game[s]) : s \in U \cup V}
  BY <1>1, <1>3
<1> QED
  BY <1>3, <1>4 DEF ListsUsers

(***************************************************************************)
(* snapshot_for_status lists every session in a game once, in whatever     *)
(* order the map has the games.                                            *)
(***************************************************************************)
LEMMA SnapshotListsPlayers ==
  ASSUME LobbyInv, NEW order \in SetToSeqs(games_)
  PROVE  ListsUsers(snapshot_for_status(order), Players)
<1> DEFINE seqs == [i \in 1..Len(order) |->
                      [j \in 1..Len(users[order[i]]) |-> status_user(users[order[i]][j], order[i])]]
           Of(k) == {s \in Session : \E i \in 1..k : game[s] = order[i]}
<1>1. /\ Len(order) \in Nat
      /\ order \in [1..Len(order) -> games_]
      /\ \A i, j \in 1..Len(order) : order[i] = order[j] => i = j
      /\ \A c \in games_ : \E i \in 1..Len(order) : order[i] = c
  BY OrderIsComplete
<1>2. snapshot_for_status(order) = FlattenSeq(seqs)
  BY DEF snapshot_for_status
<1>3. ASSUME NEW i \in 1..Len(order)
      PROVE  ListsUsers(seqs[i], {s \in Session : game[s] = order[i]})
  <2>1. order[i] \in games_
    BY <1>1
  <2> QED
    BY <2>1, UsersOfGame
<1>4. Len(seqs) = Len(order)
  BY <1>1
<1>5. Of(Len(order)) = Players
  <2>1. \A c \in games_ : c # NULL
    BY RegistryAssumption DEF LobbyInv, TypeOK
  <2> QED
    BY <1>1, <2>1 DEF LobbyInv, GamesInv, Players
<1>6. CASE Len(order) = 0
  <2>1. FlattenSeq(seqs) = <<>>
    <3>1. FlattenSeq(seqs) = seqs
      BY <1>4, <1>6 DEF FlattenSeq
    <3> QED
      BY <1>6, <3>1
  <2>2. Players = {}
    BY <1>5, <1>6
  <2>3. ListsUsers(<<>>, {})
    BY EmptySeq DEF ListsUsers, Distinct, ToSet
  <2> QED
    BY <1>2, <2>1, <2>2, <2>3
<1>7. CASE Len(order) # 0
  <2> HIDE DEF seqs
  <2>1. PICK after : /\ after[1] = seqs[1]
                     /\ \A i \in 1..(Len(seqs) - 1) : after[i + 1] = after[i] \o seqs[i + 1]
                     /\ FlattenSeq(seqs) = after[Len(seqs)]
    BY <1>1, <1>4, <1>7, FlattenSteps
  <2> DEFINE N == {m \in Nat : m + 1 \in 1..Len(order) => ListsUsers(after[m + 1], Of(m + 1))}
  <2>2. 0 \in N
    <3>1. 1 \in 1..Len(order) /\ Of(1) = {s \in Session : game[s] = order[1]}
      BY <1>1, <1>7
    <3>2. ListsUsers(after[1], Of(1))
      BY <1>3, <2>1, <3>1
    <3>3. 0 + 1 = 1
      OBVIOUS
    <3> HIDE DEF Of
    <3> QED
      BY <3>2, <3>3
  <2>3. ASSUME NEW m \in N PROVE m + 1 \in N
    <3>1. SUFFICES ASSUME m + 2 \in 1..Len(order) PROVE ListsUsers(after[m + 2], Of(m + 2))
      BY <1>1
    <3>2. m \in Nat /\ m + 1 \in 1..Len(order) /\ m + 1 \in 1..(Len(seqs) - 1)
      BY <1>1, <1>4, <3>1
    <3>3. ListsUsers(after[m + 1], Of(m + 1))
      BY <3>2
    <3>4. after[m + 2] = after[m + 1] \o seqs[m + 2]
      <4>1. (m + 1) + 1 = m + 2
        BY <3>2
      <4> QED
        BY <2>1, <3>2, <4>1
    <3> DEFINE New == {s \in Session : game[s] = order[m + 2]}
    <3>5. ListsUsers(seqs[m + 2], New)
      BY <1>3, <3>1
    <3>6. Of(m + 2) = Of(m + 1) \cup New
      BY <3>2
    <3>7. Of(m + 1) \cap New = {}
      <4>1. \A i \in 1..(m + 1) : i \in 1..Len(order) /\ i # m + 2
        BY <1>1, <3>1, <3>2
      <4> QED
        BY <1>1, <3>1, <4>1
    <3>8. Of(m + 1) \in SUBSET Session /\ New \in SUBSET Session
      OBVIOUS
    <3> HIDE DEF Of, New
    <3>9. ListsUsers(after[m + 1] \o seqs[m + 2], Of(m + 1) \cup New)
      BY <3>3, <3>5, <3>7, <3>8, MoreUsers
    <3> QED
      BY <3>4, <3>6, <3>9
  <2>4. N = Nat
    <3> HIDE DEF N
    <3>1. N \in SUBSET Nat
      BY DEF N
    <3> QED
      BY <2>2, <2>3, <3>1, NumberInduction
  <2>5. ListsUsers(after[Len(order)], Of(Len(order)))
    <3>1. Len(order) - 1 \in N /\ (Len(order) - 1) + 1 = Len(order) /\ Len(order) \in 1..Len(order)
      <4>1. Len(order) - 1 \in Nat
        BY <1>1, <1>7
      <4> HIDE DEF N
      <4> QED
        BY <1>1, <1>7, <2>4, <4>1
    <3> HIDE DEF Of
    <3> QED
      BY <3>1
  <2> QED
    BY <1>2, <1>4, <1>5, <2>1, <2>5
<1> QED
  BY <1>6, <1>7

-----------------------------------------------------------------------------
\* One step of the recursion that FoldLeft is defined by, when it folds AddUser.
FoldStep(v, it, S) == IF S = {} THEN <<>> ELSE AddUser(it[S \ {Max(S)}], v[Max(S)])

IsFold(v, n, it) == it = [S \in SUBSET (1..n) |-> FoldStep(v, it, S)]

\* The recursion over the first n + 1 users, from the one over the first n.
LEMMA FoldExtends ==
  ASSUME NEW v, NEW n \in Nat, NEW it, IsFold(v, n, it)
  PROVE  \E next : IsFold(v, n + 1, next)
<1> DEFINE next == [S \in SUBSET (1..(n + 1)) |->
                      IF n + 1 \in S THEN AddUser(it[S \ {n + 1}], v[n + 1]) ELSE it[S]]
<1>1. ASSUME NEW S \in SUBSET (1..(n + 1)) PROVE next[S] = FoldStep(v, next, S)
  <2>1. CASE n + 1 \in S
    <3>1. Max(S) = n + 1
      <4>1. n + 1 \in Nat /\ S # {}
        BY <2>1
      <4>2. Max(S) \in S /\ Max(S) >= n + 1
        BY <2>1, <4>1, GreatestNumber
      <4>3. PICK m \in 1..(n + 1) : m = Max(S)
        BY <4>2
      <4> QED
        BY <4>2, <4>3
    <3>2. S \ {n + 1} \in SUBSET (1..n) /\ S \ {n + 1} \in SUBSET (1..(n + 1))
      OBVIOUS
    <3>3. next[S \ {n + 1}] = it[S \ {n + 1}]
      BY <3>2
    <3>4. next[S] = AddUser(it[S \ {n + 1}], v[n + 1])
      BY <2>1
    <3>5. S # {}
      BY <2>1
    <3> HIDE DEF next
    <3>6. FoldStep(v, next, S) = AddUser(next[S \ {n + 1}], v[n + 1])
      BY <3>1, <3>5, Zenon DEF FoldStep
    <3> QED
      BY <3>3, <3>4, <3>6, Zenon
  <2>2. CASE n + 1 \notin S
    <3>1. S \in SUBSET (1..n)
      BY <2>2
    <3>2. next[S] = it[S]
      BY <2>2
    <3>3. it[S] = FoldStep(v, it, S)
      BY <3>1, Zenon DEF IsFold
    <3>4. S # {} => next[S \ {Max(S)}] = it[S \ {Max(S)}]
      <4>1. S \ {Max(S)} \in SUBSET (1..(n + 1)) /\ n + 1 \notin S \ {Max(S)}
        BY <2>2
      <4> QED
        BY <4>1
    <3> HIDE DEF next
    <3>5. FoldStep(v, next, S) = FoldStep(v, it, S)
      BY <3>4, Zenon DEF FoldStep
    <3> QED
      BY <3>2, <3>3, <3>5, Zenon
  <2> QED
    BY <2>1, <2>2
<1>2. next = [S \in SUBSET (1..(n + 1)) |-> next[S]]
  OBVIOUS
<1> HIDE DEF next
<1>3. IsFold(v, n + 1, next)
  BY <1>1, <1>2, Zenon DEF IsFold
<1> QED
  BY <1>3

\* The recursion has a solution, whatever the users are.
LEMMA FoldExists ==
  ASSUME NEW v, NEW n \in Nat
  PROVE  \E it : IsFold(v, n, it)
<1> DEFINE N == {m \in Nat : \E it : IsFold(v, m, it)}
<1>1. 0 \in N
  <2> DEFINE none == [S \in SUBSET (1..0) |-> <<>>]
  <2>1. \A S \in SUBSET (1..0) : S = {}
    OBVIOUS
  <2>2. \A S \in SUBSET (1..0) : FoldStep(v, none, S) = <<>>
    BY <2>1, Zenon DEF FoldStep
  <2> HIDE DEF none
  <2>3. none = [S \in SUBSET (1..0) |-> FoldStep(v, none, S)]
    BY <2>2, Zenon DEF none
  <2>4. IsFold(v, 0, none)
    BY <2>3 DEF IsFold
  <2> QED
    BY <2>4
<1>2. \A m \in N : m + 1 \in N
  BY FoldExtends
<1>3. N = Nat
  <2> HIDE DEF N
  <2>1. N \in SUBSET Nat
    BY DEF N
  <2> QED
    BY <1>1, <1>2, <2>1, NumberInduction
<1> QED
  BY <1>3

(***************************************************************************)
(* The loop of build_status_games: what it has after each user.            *)
(***************************************************************************)
LEMMA FoldSteps ==
  ASSUME NEW v, NEW n \in Nat, DOMAIN v = 1..n
  PROVE  \E after : /\ after[0] = <<>>
                    /\ \A k \in 0..(n - 1) : after[k + 1] = AddUser(after[k], v[k + 1])
                    /\ FoldLeft(AddUser, <<>>, v) = after[n]
<1> DEFINE fold == CHOOSE it : IsFold(v, n, it)
<1>1. IsFold(v, n, fold)
  BY FoldExists, Zenon
<1>2. FoldLeft(AddUser, <<>>, v) = fold[1..n]
  <2>1. FoldLeft(AddUser, <<>>, v)
          = (CHOOSE it : it = [S \in SUBSET DOMAIN v |-> FoldStep(v, it, S)])[DOMAIN v]
    BY Zenon DEF FoldLeft, MapThenFoldSet, FoldStep
  <2> QED
    BY <2>1, Zenon DEF IsFold
<1> HIDE DEF fold
<1> DEFINE after == [k \in 0..n |-> fold[1..k]]
<1>3. \A S \in SUBSET (1..n) : fold[S] = FoldStep(v, fold, S)
  BY <1>1, Zenon DEF IsFold
<1>4. after[0] = <<>>
  <2>1. 1..0 = {} /\ {} \in SUBSET (1..n) /\ 0 \in 0..n
    OBVIOUS
  <2>2. after[0] = fold[{}]
    BY <2>1
  <2> QED
    BY <1>3, <2>1, <2>2, Zenon DEF FoldStep
<1>5. ASSUME NEW k \in 0..(n - 1) PROVE after[k + 1] = AddUser(after[k], v[k + 1])
  <2>1. /\ 1..(k + 1) \in SUBSET (1..n)
        /\ 1..(k + 1) # {}
        /\ (1..(k + 1)) \ {k + 1} = 1..k
        /\ k \in 0..n /\ k + 1 \in 0..n
    <3>1. k + 1 \in 1..(k + 1)
      OBVIOUS
    <3> QED
      BY <3>1
  <2>2. Max(1..(k + 1)) = k + 1
    <3>1. 1..(k + 1) \in SUBSET (1..(k + 1)) /\ k + 1 \in Nat /\ k + 1 \in 1..(k + 1)
      OBVIOUS
    <3>2. Max(1..(k + 1)) \in 1..(k + 1) /\ Max(1..(k + 1)) >= k + 1
      BY <2>1, <3>1, GreatestNumber
    <3> QED
      BY <3>2
  <2>3. fold[1..(k + 1)] = FoldStep(v, fold, 1..(k + 1))
    BY <1>3, <2>1
  <2>4. FoldStep(v, fold, 1..(k + 1)) = AddUser(fold[1..k], v[k + 1])
    BY <2>1, <2>2, Zenon DEF FoldStep
  <2>5. after[k + 1] = fold[1..(k + 1)] /\ after[k] = fold[1..k]
    BY <2>1
  <2> HIDE DEF after
  <2> QED
    BY <2>3, <2>4, <2>5, Zenon
<1>6. after[n] = fold[1..n]
  OBVIOUS
<1> HIDE DEF after
<1> QED
  BY <1>2, <1>4, <1>5, <1>6, Zenon

-----------------------------------------------------------------------------
\* The name of the group that the page puts a user in.
ShownIn(s) == IF group[s] = NULL THEN Groupless ELSE group[s][2]

ShownNames == ValidGroupName \cup {Groupless}

GroupEntry == [name : ShownNames, users : Seq(Session)]

(***************************************************************************)
(* The groups of a game when the users in M have been put into them: one   *)
(* for each name, with just the users that have that name, each once.      *)
(***************************************************************************)
GroupsShow(list, M) ==
  /\ list \in Seq(GroupEntry)
  /\ \A i, j \in 1..Len(list) : list[i].name = list[j].name => i = j
  /\ \A s \in M : \E i \in 1..Len(list) : list[i].name = ShownIn(s)
  /\ \A i \in 1..Len(list) :
       /\ list[i].users # <<>>
       /\ Distinct(list[i].users)
       /\ ToSet(list[i].users) = {s \in M : ShownIn(s) = list[i].name}

\* AddToGroup, for the user s.
AddToGroupOf(list, s) ==
  LET all == WithGroup(list, ShownIn(s))
  IN [i \in 1..Len(all) |->
        IF all[i].name = ShownIn(s) THEN [all[i] EXCEPT !.users = Append(@, s)] ELSE all[i]]

\* A user's group is a name that may be shown, and the one AddToGroup looks for.
LEMMA ShownInIs ==
  ASSUME LobbyInv, NEW s \in Session, NEW c, NEW list
  PROVE  /\ ShownIn(s) \in ShownNames
         /\ AddToGroup(list, status_user(s, c)) = AddToGroupOf(list, s)
<1>1. group[s] # NULL => group[s][2] \in ValidGroupName
  BY KeyParts DEF LobbyInv, TypeOK
<1>2. ShownIn(s) \in ShownNames
  BY <1>1 DEF ShownIn, ShownNames
<1>3. PICK user : user = status_user(s, c)
  OBVIOUS
<1>4. user.session = s /\ user.group = IF group[s] = NULL THEN NULL ELSE group[s][2]
  BY <1>3 DEF status_user
<1>5. (IF user.group = NULL THEN Groupless ELSE user.group) = ShownIn(s)
  BY <1>1, <1>4, RegistryAssumption DEF ShownIn
<1>6. AddToGroup(list, user) = AddToGroupOf(list, s)
  BY <1>4, <1>5, Zenon DEF AddToGroup, AddToGroupOf
<1> QED
  BY <1>2, <1>3, <1>6

(***************************************************************************)
(* try_emplace on the index of the groups: what was there stays, and the   *)
(* name has its one entry, a new one without users if there was none.      *)
(***************************************************************************)
GroupEmplaced(list, name, all) ==
  /\ all \in Seq(GroupEntry)
  /\ \A i, j \in 1..Len(all) : all[i].name = all[j].name => i = j
  /\ Len(list) <= Len(all)
  /\ \A i \in 1..Len(list) : all[i] = list[i]
  /\ \E i \in 1..Len(all) : all[i].name = name
  /\ \A i \in 1..Len(all) : i \notin 1..Len(list) =>
       /\ all[i] = [name |-> name, users |-> <<>>]
       /\ \A j \in 1..Len(list) : list[j].name # name

\* WithGroup is that try_emplace.
LEMMA WithGroupIs ==
  ASSUME NEW list \in Seq(GroupEntry), NEW name \in ShownNames,
         \A i, j \in 1..Len(list) : list[i].name = list[j].name => i = j
  PROVE  GroupEmplaced(list, name, WithGroup(list, name))
<1>1. Len(list) \in Nat /\ DOMAIN list = 1..Len(list)
  BY LenProperties
<1>2. CASE \E g \in ToSet(list) : g.name = name
  <2>1. WithGroup(list, name) = list
    BY <1>2 DEF WithGroup
  <2>2. \E i \in 1..Len(list) : list[i].name = name
    BY <1>1, <1>2 DEF ToSet
  <2> QED
    BY <1>1, <2>1, <2>2 DEF GroupEmplaced
<1>3. CASE ~ \E g \in ToSet(list) : g.name = name
  <2> DEFINE new == [name |-> name, users |-> <<>>]
             all == Append(list, new)
  <2>1. WithGroup(list, name) = all
    BY <1>3, Zenon DEF WithGroup
  <2>2. new \in GroupEntry /\ new.name = name
    BY EmptySeq DEF GroupEntry
  <2>3. \A j \in 1..Len(list) : list[j].name # name
    BY <1>1, <1>3 DEF ToSet
  <2> HIDE DEF new
  <2>4. /\ all \in Seq(GroupEntry)
        /\ Len(all) = Len(list) + 1
        /\ \A i \in 1..Len(list) : all[i] = list[i]
        /\ all[Len(list) + 1] = new
    BY <2>2, AppendProperties
  <2> HIDE DEF all
  <2>5. \A i \in 1..Len(all) : i \notin 1..Len(list) => i = Len(list) + 1
    BY <1>1, <2>4
  <2>6. \A i, j \in 1..Len(all) : all[i].name = all[j].name => i = j
    BY <2>2, <2>3, <2>4, <2>5
  <2>7. \E i \in 1..Len(all) : all[i].name = name
    <3>1. Len(list) + 1 \in 1..Len(all)
      BY <1>1, <2>4
    <3> QED
      BY <2>2, <2>4, <3>1
  <2>8. \A i \in 1..Len(all) : i \notin 1..Len(list) => all[i] = new
    BY <2>4, <2>5
  <2> QED
    BY <1>1, <2>1, <2>3, <2>4, <2>6, <2>7, <2>8 DEF new, GroupEmplaced
<1> QED
  BY <1>2, <1>3

\* One more user in its group.
LEMMA GroupGetsUser ==
  ASSUME LobbyInv, NEW M \in SUBSET Session, NEW s \in Session \ M, NEW list, GroupsShow(list, M)
  PROVE  GroupsShow(AddToGroupOf(list, s), M \cup {s})
<1>1. PICK name \in ShownNames : name = ShownIn(s)
  BY ShownInIs
<1>2. /\ list \in Seq(GroupEntry)
      /\ \A i, j \in 1..Len(list) : list[i].name = list[j].name => i = j
  BY DEF GroupsShow
<1>3. PICK all : all = WithGroup(list, name)
  OBVIOUS
<1>e. GroupEmplaced(list, name, all)
  BY <1>2, <1>3, WithGroupIs
<1>4. /\ all \in Seq(GroupEntry)
      /\ \A i, j \in 1..Len(all) : all[i].name = all[j].name => i = j
      /\ Len(list) <= Len(all)
      /\ \A i \in 1..Len(list) : all[i] = list[i]
      /\ \E i \in 1..Len(all) : all[i].name = name
      /\ \A i \in 1..Len(all) : i \notin 1..Len(list) =>
           /\ all[i] = [name |-> name, users |-> <<>>]
           /\ \A j \in 1..Len(list) : list[j].name # name
  BY <1>e DEF GroupEmplaced
<1>5. /\ Len(list) \in Nat /\ Len(all) \in Nat
      /\ \A i \in 1..Len(all) : all[i] \in GroupEntry
  BY <1>2, <1>4, LenProperties, ElementOfSeq
\* Before the user is added, every entry has the users of its name.
<1>6. ASSUME NEW i \in 1..Len(all)
      PROVE  /\ all[i].users \in Seq(Session)
             /\ all[i].name \in ShownNames
             /\ all[i].name # name => all[i].users # <<>>
             /\ Distinct(all[i].users)
             /\ ToSet(all[i].users) = {t \in M : ShownIn(t) = all[i].name}
  <2>1. all[i].users \in Seq(Session) /\ all[i].name \in ShownNames
    BY <1>5 DEF GroupEntry
  <2>2. CASE i \in 1..Len(list)
    BY <1>4, <2>1, <2>2 DEF GroupsShow
  <2>3. CASE i \notin 1..Len(list)
    <3>1. all[i].name = name /\ all[i].users = <<>> /\ \A j \in 1..Len(list) : list[j].name # name
      BY <1>4, <2>3
    <3>2. \A t \in M : ShownIn(t) # name
      BY <3>1 DEF GroupsShow
    <3>3. Distinct(<<>>) /\ ToSet(<<>>) = {}
      BY DEF Distinct, ToSet
    <3> QED
      BY <2>1, <3>1, <3>2, <3>3
  <2> QED
    BY <2>2, <2>3
<1> DEFINE now == [i \in 1..Len(all) |->
                     IF all[i].name = name THEN [all[i] EXCEPT !.users = Append(@, s)] ELSE all[i]]
<1>7. AddToGroupOf(list, s) = now
  BY <1>1, <1>3, Zenon DEF AddToGroupOf
<1>8. ASSUME NEW i \in 1..Len(all)
      PROVE  /\ now[i] \in GroupEntry
             /\ now[i].name = all[i].name
             /\ now[i].users = IF all[i].name = name THEN Append(all[i].users, s) ELSE all[i].users
  <2>1. Append(all[i].users, s) \in Seq(Session)
    BY <1>6, AppendToList
  <2> QED
    BY <1>5, <2>1 DEF GroupEntry
<1>9. now \in Seq(GroupEntry) /\ Len(now) = Len(all)
  BY <1>5, <1>8
<1> HIDE DEF now
<1>10. ASSUME NEW i \in 1..Len(all)
       PROVE  /\ now[i].users # <<>>
              /\ Distinct(now[i].users)
              /\ ToSet(now[i].users) = {t \in M \cup {s} : ShownIn(t) = now[i].name}
  <2>1. CASE all[i].name = name
    <3>1. PICK old : old = all[i].users
      OBVIOUS
    <3>2. /\ old \in Seq(Session)
          /\ Distinct(old)
          /\ ToSet(old) = {t \in M : ShownIn(t) = name}
      BY <1>6, <2>1, <3>1
    <3>3. /\ Append(old, s) \in Seq(Session)
          /\ ToSet(Append(old, s)) = ToSet(old) \cup {s}
          /\ Distinct(Append(old, s))
      BY <3>2, AppendToList
    <3>4. Append(old, s) # <<>>
      BY <3>3, EmptyList
    <3>5. now[i].users = Append(old, s) /\ now[i].name = name
      BY <1>8, <2>1, <3>1
    <3>6. ToSet(Append(old, s)) = {t \in M \cup {s} : ShownIn(t) = name}
      BY <1>1, <3>2, <3>3
    <3> QED
      BY <3>3, <3>4, <3>5, <3>6
  <2>2. CASE all[i].name # name
    <3>1. now[i].users = all[i].users /\ now[i].name = all[i].name
      BY <1>8, <2>2
    <3> QED
      BY <1>1, <1>6, <2>2, <3>1
  <2> QED
    BY <2>1, <2>2
<1>11. \A i, j \in 1..Len(now) : now[i].name = now[j].name => i = j
  BY <1>4, <1>8, <1>9
<1>12. ASSUME NEW t \in M \cup {s} PROVE \E i \in 1..Len(now) : now[i].name = ShownIn(t)
  <2>1. CASE t = s
    BY <1>1, <1>4, <1>8, <1>9, <2>1
  <2>2. CASE t \in M
    <3>1. PICK i \in 1..Len(list) : list[i].name = ShownIn(t)
      BY <2>2 DEF GroupsShow
    <3>2. i \in 1..Len(all)
      BY <1>4, <1>5
    <3> QED
      BY <1>4, <1>8, <1>9, <3>1, <3>2
  <2> QED
    BY <2>1, <2>2
<1> QED
  BY <1>7, <1>9, <1>10, <1>11, <1>12 DEF GroupsShow

-----------------------------------------------------------------------------
DisplayNames == {display_name_for(c) : c \in ProductCode}

GameEntry ==
  [code : ProductCode, name : DisplayNames, user_count : Nat, groups : Seq(GroupEntry)]

(***************************************************************************)
(* The games when the users in U have been put into them: one for each     *)
(* code, with the users that play it counted and shown in their groups.    *)
(***************************************************************************)
EntryShows(entry, M) ==
  /\ entry.name = display_name_for(entry.code)
  /\ entry.user_count = Cardinality(M)
  /\ GroupsShow(entry.groups, M)

Playing(U, code) == {s \in U : game[s] = code}

GamesShow(list, U) ==
  /\ list \in Seq(GameEntry)
  /\ \A i, j \in 1..Len(list) : list[i].code = list[j].code => i = j
  /\ \A s \in U : \E i \in 1..Len(list) : list[i].code = game[s]
  /\ \A i \in 1..Len(list) :
       /\ Playing(U, list[i].code) # {}
       /\ EntryShows(list[i], Playing(U, list[i].code))

NewEntry(code) ==
  [code |-> code, name |-> display_name_for(code), user_count |-> 0, groups |-> <<>>]

\* The entry of a game when one more of its users is shown.
EntryWith(entry, user) ==
  [entry EXCEPT !.user_count = @ + 1, !.groups = AddToGroup(@, user)]

\* try_emplace on the index of the games, as for the groups.
GameEmplaced(list, code, all) ==
  /\ all \in Seq(GameEntry)
  /\ \A i, j \in 1..Len(all) : all[i].code = all[j].code => i = j
  /\ Len(list) <= Len(all)
  /\ \A i \in 1..Len(list) : all[i] = list[i]
  /\ \E i \in 1..Len(all) : all[i].code = code
  /\ \A i \in 1..Len(all) : i \notin 1..Len(list) =>
       /\ all[i] = NewEntry(code)
       /\ \A j \in 1..Len(list) : list[j].code # code

\* The entry of a game none of whose users has been shown yet.
LEMMA NewEntryIs ==
  ASSUME NEW code \in ProductCode
  PROVE  /\ NewEntry(code) \in GameEntry
         /\ NewEntry(code).code = code
         /\ EntryShows(NewEntry(code), {})
<1>1. display_name_for(code) \in DisplayNames
  BY DEF DisplayNames
<1>2. <<>> \in Seq(GroupEntry)
  BY EmptySeq
<1>3. PICK name \in DisplayNames : name = display_name_for(code)
  BY <1>1
<1>4. NewEntry(code) = [code |-> code, name |-> name, user_count |-> 0, groups |-> <<>>]
  BY <1>3 DEF NewEntry
<1>5. GroupsShow(<<>>, {})
  BY <1>2, EmptySeq DEF GroupsShow
<1>6. NewEntry(code) \in GameEntry
  BY <1>2, <1>4 DEF GameEntry
<1>7. /\ NewEntry(code).code = code /\ NewEntry(code).name = name
      /\ NewEntry(code).user_count = 0 /\ NewEntry(code).groups = <<>>
  BY <1>4
<1> QED
  BY <1>3, <1>5, <1>6, <1>7, FS_EmptySet DEF EntryShows

\* WithGame is that try_emplace.
LEMMA WithGameIs ==
  ASSUME NEW list \in Seq(GameEntry), NEW code \in ProductCode,
         \A i, j \in 1..Len(list) : list[i].code = list[j].code => i = j
  PROVE  GameEmplaced(list, code, WithGame(list, code))
<1>1. Len(list) \in Nat /\ DOMAIN list = 1..Len(list)
  BY LenProperties
<1>2. CASE \E g \in ToSet(list) : g.code = code
  <2>1. WithGame(list, code) = list
    BY <1>2 DEF WithGame
  <2>2. \E i \in 1..Len(list) : list[i].code = code
    BY <1>1, <1>2 DEF ToSet
  <2> QED
    BY <1>1, <2>1, <2>2 DEF GameEmplaced
<1>3. CASE ~ \E g \in ToSet(list) : g.code = code
  <2> DEFINE all == Append(list, NewEntry(code))
  <2>1. WithGame(list, code) = all
    BY <1>3, Zenon DEF WithGame, NewEntry
  <2>2. NewEntry(code) \in GameEntry /\ NewEntry(code).code = code
    BY NewEntryIs
  <2>3. \A j \in 1..Len(list) : list[j].code # code
    BY <1>1, <1>3 DEF ToSet
  <2>4. /\ all \in Seq(GameEntry)
        /\ Len(all) = Len(list) + 1
        /\ \A i \in 1..Len(list) : all[i] = list[i]
        /\ all[Len(list) + 1] = NewEntry(code)
    BY <2>2, AppendProperties
  <2> HIDE DEF all
  <2>5. \A i \in 1..Len(all) : i \notin 1..Len(list) => i = Len(list) + 1
    BY <1>1, <2>4
  <2>6. \A i, j \in 1..Len(all) : all[i].code = all[j].code => i = j
    BY <2>2, <2>3, <2>4, <2>5
  <2>7. \E i \in 1..Len(all) : all[i].code = code
    <3>1. Len(list) + 1 \in 1..Len(all)
      BY <1>1, <2>4
    <3> QED
      BY <2>2, <2>4, <3>1
  <2>8. \A i \in 1..Len(all) : i \notin 1..Len(list) => all[i] = NewEntry(code)
    BY <2>4, <2>5
  <2> QED
    BY <1>1, <2>1, <2>3, <2>4, <2>6, <2>7, <2>8 DEF GameEmplaced
<1> QED
  BY <1>2, <1>3

\* A game's entry when one more user has been shown in it.
LEMMA EntryGetsUser ==
  ASSUME LobbyInv, NEW M \in SUBSET Session, NEW s \in Session \ M, NEW c,
         NEW entry \in GameEntry, EntryShows(entry, M)
  PROVE  /\ EntryWith(entry, status_user(s, c)) \in GameEntry
         /\ EntryWith(entry, status_user(s, c)).code = entry.code
         /\ EntryShows(EntryWith(entry, status_user(s, c)), M \cup {s})
<1>1. /\ entry.name = display_name_for(entry.code)
      /\ entry.user_count = Cardinality(M)
      /\ GroupsShow(entry.groups, M)
  BY DEF EntryShows
<1>2. PICK gs : gs = AddToGroupOf(entry.groups, s)
  OBVIOUS
<1>3. AddToGroup(entry.groups, status_user(s, c)) = gs
  BY <1>2, ShownInIs
<1>4. GroupsShow(gs, M \cup {s})
  BY <1>1, <1>2, GroupGetsUser
<1>5. gs \in Seq(GroupEntry)
  BY <1>4 DEF GroupsShow
<1>6. PICK new : new = EntryWith(entry, status_user(s, c))
  OBVIOUS
<1>7. new = [entry EXCEPT !.user_count = @ + 1, !.groups = gs]
  BY <1>3, <1>6, Zenon DEF EntryWith
<1>8. /\ new \in GameEntry
      /\ new.code = entry.code /\ new.name = entry.name
      /\ new.user_count = entry.user_count + 1 /\ new.groups = gs
  <2>1. /\ entry.code \in ProductCode /\ entry.name \in DisplayNames
        /\ entry.user_count \in Nat
        /\ DOMAIN entry = {"code", "name", "user_count", "groups"}
    BY DEF GameEntry
  <2>2. new = [code |-> entry.code, name |-> entry.name,
               user_count |-> entry.user_count + 1, groups |-> gs]
    BY <1>7 DEF GameEntry
  <2> QED
    BY <1>5, <2>1, <2>2 DEF GameEntry
<1>9. Cardinality(M \cup {s}) = Cardinality(M) + 1
  BY RegistryAssumption, FS_Subset, FS_AddElement
<1> QED
  BY <1>1, <1>4, <1>6, <1>8, <1>9 DEF EntryShows

\* One turn of the loop in build_status_games.
LEMMA PageGetsUser ==
  ASSUME LobbyInv, NEW U \in SUBSET Session, NEW s \in Session \ U, game[s] # NULL,
         NEW list, GamesShow(list, U)
  PROVE  GamesShow(AddUser(list, status_user(s, game[s])), U \cup {s})
<1>1. PICK code \in ProductCode : code = game[s]
  BY DEF LobbyInv, TypeOK
<1>2. PICK user : user = status_user(s, game[s])
  OBVIOUS
<1>3. user.product_code = code
  BY <1>1, <1>2 DEF status_user
<1>4. /\ list \in Seq(GameEntry)
      /\ \A i, j \in 1..Len(list) : list[i].code = list[j].code => i = j
  BY DEF GamesShow
<1>5. PICK all : all = WithGame(list, code)
  OBVIOUS
<1>6. GameEmplaced(list, code, all)
  BY <1>4, <1>5, WithGameIs
<1>7. /\ all \in Seq(GameEntry)
      /\ \A i, j \in 1..Len(all) : all[i].code = all[j].code => i = j
      /\ Len(list) <= Len(all)
      /\ \A i \in 1..Len(list) : all[i] = list[i]
      /\ \E i \in 1..Len(all) : all[i].code = code
      /\ \A i \in 1..Len(all) : i \notin 1..Len(list) =>
           /\ all[i] = NewEntry(code)
           /\ \A j \in 1..Len(list) : list[j].code # code
  BY <1>6 DEF GameEmplaced
<1>8. /\ Len(list) \in Nat /\ Len(all) \in Nat
      /\ \A i \in 1..Len(all) : all[i] \in GameEntry
  BY <1>4, <1>7, LenProperties, ElementOfSeq
<1>9. ASSUME NEW i \in 1..Len(all)
      PROVE  /\ all[i].code # code => Playing(U, all[i].code) # {}
             /\ EntryShows(all[i], Playing(U, all[i].code))
  <2>1. CASE i \in 1..Len(list)
    BY <1>7, <2>1 DEF GamesShow
  <2>2. CASE i \notin 1..Len(list)
    <3>1. all[i] = NewEntry(code) /\ \A j \in 1..Len(list) : list[j].code # code
      BY <1>7, <2>2
    <3>2. Playing(U, code) = {}
      BY <3>1 DEF GamesShow, Playing
    <3> QED
      BY <3>1, <3>2, NewEntryIs
  <2> QED
    BY <2>1, <2>2
<1> DEFINE now == [i \in 1..Len(all) |->
                     IF all[i].code = code THEN EntryWith(all[i], user) ELSE all[i]]
<1>10. AddUser(list, user) = now
  BY <1>3, <1>5, Zenon DEF AddUser, EntryWith
<1>11. \A i \in 1..Len(all) : now[i] = IF all[i].code = code THEN EntryWith(all[i], user) ELSE all[i]
  OBVIOUS
<1>12. DOMAIN now = 1..Len(all)
  OBVIOUS
<1>13. ASSUME NEW i \in 1..Len(all)
       PROVE  /\ now[i] \in GameEntry
              /\ now[i].code = all[i].code
              /\ Playing(U \cup {s}, now[i].code) # {}
              /\ EntryShows(now[i], Playing(U \cup {s}, now[i].code))
  <2> HIDE DEF now
  <2>1. CASE all[i].code = code
    <3>1. now[i] = EntryWith(all[i], user)
      BY <1>11, <2>1
    <3>2. /\ Playing(U \cup {s}, code) = Playing(U, code) \cup {s}
          /\ Playing(U, code) \in SUBSET Session
          /\ s \in Session \ Playing(U, code)
      BY <1>1 DEF Playing
    <3>3. all[i] \in GameEntry /\ EntryShows(all[i], Playing(U, code))
      BY <1>8, <1>9, <2>1
    <3>4. /\ EntryWith(all[i], user) \in GameEntry
          /\ EntryWith(all[i], user).code = all[i].code
          /\ EntryShows(EntryWith(all[i], user), Playing(U, code) \cup {s})
      BY <1>2, <3>2, <3>3, EntryGetsUser
    <3> QED
      BY <2>1, <3>1, <3>2, <3>4
  <2>2. CASE all[i].code # code
    <3>1. now[i] = all[i]
      BY <1>11, <2>2
    <3>2. Playing(U \cup {s}, all[i].code) = Playing(U, all[i].code)
      BY <1>1, <2>2 DEF Playing
    <3> QED
      BY <1>8, <1>9, <2>2, <3>1, <3>2
  <2> QED
    BY <2>1, <2>2
<1> HIDE DEF now
<1>14. now \in Seq(GameEntry) /\ Len(now) = Len(all)
  BY <1>8, <1>12, <1>13 DEF now
<1>15. \A i, j \in 1..Len(now) : now[i].code = now[j].code => i = j
  BY <1>7, <1>13, <1>14
<1>16. ASSUME NEW t \in U \cup {s} PROVE \E i \in 1..Len(now) : now[i].code = game[t]
  <2>1. CASE t = s
    BY <1>1, <1>7, <1>13, <1>14, <2>1
  <2>2. CASE t \in U
    <3>1. PICK i \in 1..Len(list) : list[i].code = game[t]
      BY <2>2 DEF GamesShow
    <3>2. i \in 1..Len(all)
      BY <1>7, <1>8
    <3> QED
      BY <1>7, <1>13, <1>14, <3>1, <3>2
  <2> QED
    BY <2>1, <2>2
<1> QED
  BY <1>2, <1>10, <1>13, <1>14, <1>15, <1>16 DEF GamesShow

(***************************************************************************)
(* build_status_games shows every session that is in a game.               *)
(***************************************************************************)
LEMMA PageShowsPlayers ==
  ASSUME LobbyInv, NEW order \in SetToSeqs(games_)
  PROVE  GamesShow(build_status_games(order), Players)
<1>1. PICK v : v = snapshot_for_status(order)
  OBVIOUS
<1>2. /\ v \in Seq(StatusUser)
      /\ Distinct(v)
      /\ ToSet(v) = {status_user(s, game[s]) : s \in Players}
  BY <1>1, SnapshotListsPlayers DEF ListsUsers
<1>3. PICK n \in Nat : n = Len(v) /\ DOMAIN v = 1..n
  BY <1>2, LenProperties
<1>4. PICK after : /\ after[0] = <<>>
                   /\ \A k \in 0..(n - 1) : after[k + 1] = AddUser(after[k], v[k + 1])
                   /\ FoldLeft(AddUser, <<>>, v) = after[n]
  BY <1>3, FoldSteps
<1> DEFINE w == [i \in 1..n |-> v[i].session]
<1>5. ASSUME NEW i \in 1..n PROVE w[i] \in Players /\ v[i] = status_user(w[i], game[w[i]])
  <2>1. v[i] \in ToSet(v)
    BY <1>3 DEF ToSet
  <2>2. PICK s \in Players : v[i] = status_user(s, game[s])
    BY <1>2, <2>1
  <2>3. v[i].session = s
    BY <2>2, StatusUserIs
  <2> QED
    BY <2>2, <2>3
<1>6. \A i, j \in 1..n : w[i] = w[j] => i = j
  <2> SUFFICES ASSUME NEW i \in 1..n, NEW j \in 1..n, w[i] = w[j] PROVE i = j
    OBVIOUS
  <2> HIDE DEF w
  <2>1. v[i] = v[j]
    BY <1>5
  <2> QED
    BY <1>2, <1>3, <2>1 DEF Distinct
<1>7. \A s \in Players : \E i \in 1..n : w[i] = s
  <2> SUFFICES ASSUME NEW s \in Players PROVE \E i \in 1..n : w[i] = s
    OBVIOUS
  <2>1. status_user(s, game[s]) \in ToSet(v)
    BY <1>2
  <2>2. PICK i \in 1..n : v[i] = status_user(s, game[s])
    BY <1>3, <2>1 DEF ToSet
  <2>3. w[i] = s
    BY <2>2, StatusUserIs
  <2> QED
    BY <2>3
<1> HIDE DEF w
<1> DEFINE First(k) == {w[i] : i \in 1..k}
           N == {k \in Nat : k <= n => GamesShow(after[k], First(k))}
<1>8. 0 \in N
  <2>1. GamesShow(<<>>, {})
    BY EmptySeq DEF GamesShow
  <2>2. First(0) = {}
    OBVIOUS
  <2> HIDE DEF First
  <2> QED
    BY <1>4, <2>1, <2>2
<1>9. ASSUME NEW k \in N PROVE k + 1 \in N
  <2> SUFFICES ASSUME k + 1 <= n PROVE GamesShow(after[k + 1], First(k + 1))
    OBVIOUS
  <2>1. k \in 0..(n - 1) /\ k + 1 \in 1..n /\ k \in Nat
    BY <1>3
  <2>2. GamesShow(after[k], First(k))
    BY <2>1
  <2>3. First(k + 1) = First(k) \cup {w[k + 1]}
    <3>1. 1..(k + 1) = (1..k) \cup {k + 1}
      BY <2>1
    <3> QED
      BY <3>1
  <2>4. First(k) \in SUBSET Session /\ w[k + 1] \in Session \ First(k) /\ game[w[k + 1]] # NULL
    <3>1. \A i \in 1..k : i \in 1..n /\ i # k + 1
      BY <1>3, <2>1
    <3>2. \A i \in 1..n : w[i] \in Session /\ game[w[i]] # NULL
      BY <1>5 DEF Players
    <3> QED
      BY <1>6, <2>1, <3>1, <3>2
  <2> HIDE DEF First
  <2>5. GamesShow(AddUser(after[k], status_user(w[k + 1], game[w[k + 1]])), First(k) \cup {w[k + 1]})
    BY <2>2, <2>4, PageGetsUser
  <2>6. after[k + 1] = AddUser(after[k], status_user(w[k + 1], game[w[k + 1]]))
    <3>1. after[k + 1] = AddUser(after[k], v[k + 1])
      BY <1>4, <2>1
    <3>2. v[k + 1] = status_user(w[k + 1], game[w[k + 1]])
      BY <1>5, <2>1
    <3> QED
      BY <3>1, <3>2
  <2> QED
    BY <2>3, <2>5, <2>6
<1>10. N = Nat
  <2> HIDE DEF N
  <2>1. N \in SUBSET Nat
    BY DEF N
  <2> QED
    BY <1>8, <1>9, <2>1, NumberInduction
<1>11. GamesShow(after[n], First(n))
  <2> HIDE DEF First
  <2>1. n \in N
    BY <1>3, <1>10
  <2> QED
    BY <1>3, <2>1
<1>12. First(n) = Players
  BY <1>5, <1>7
<1>13. build_status_games(order) = after[n]
  BY <1>1, <1>4, Zenon DEF build_status_games
<1> QED
  BY <1>11, <1>12, <1>13

-----------------------------------------------------------------------------
\* The entry of the page for a group, as LobbyGroups has it.
Summary(e) == [name |-> e.name, users |-> ToSet(e.users)]

\* The members of a group_node are the users that the page shows under its name.
LEMMA MembersAreShown ==
  ASSUME LobbyInv, NEW k \in groups
  PROVE  /\ ToSet(players[k]) = {s \in Playing(Players, k[1]) : ShownIn(s) = k[2]}
         /\ ToSet(players[k]) # {}
<1>1. players[k] \in Seq(Session) /\ players[k] # <<>> /\ k \in GroupKey
  BY DEF LobbyInv, TypeOK, GroupsInv
<1>2. k[1] \in ProductCode /\ k[2] \in ValidGroupName /\ k = <<k[1], k[2]>> /\ k # NULL
  BY <1>1, KeyParts, RegistryAssumption
<1>3. ToSet(players[k]) # {}
  BY <1>1, EmptyList
<1>4. ToSet(players[k]) \subseteq Session
  BY <1>1, LenProperties, ElementOfSeq DEF ToSet
<1>5. k[1] # NULL /\ k[2] # Groupless
  BY <1>2, RegistryAssumption, StatusAssumption
<1>6. ASSUME NEW s \in ToSet(players[k])
      PROVE  s \in Playing(Players, k[1]) /\ ShownIn(s) = k[2]
  <2>1. s \in Session /\ group[s] = k
    BY <1>4 DEF LobbyInv, GroupsInv
  <2>2. game[s] = k[1]
    BY <1>2, <2>1 DEF LobbyInv, GroupsInv
  <2> QED
    BY <1>2, <1>5, <2>1, <2>2 DEF Playing, Players, ShownIn
<1>7. ASSUME NEW s \in Playing(Players, k[1]), ShownIn(s) = k[2] PROVE s \in ToSet(players[k])
  <2>1. s \in Session /\ game[s] = k[1]
    BY DEF Playing, Players
  <2>2. group[s] # NULL /\ group[s][2] = k[2]
    BY <1>5, <1>7 DEF ShownIn
  <2>3. group[s] \in groups /\ group[s][1] = k[1] /\ group[s] \in GroupKey
    BY <2>1, <2>2 DEF LobbyInv, TypeOK, GroupsInv
  <2>4. group[s] = k
    <3>1. group[s] = <<group[s][1], group[s][2]>>
      BY <2>3, KeyParts
    <3> QED
      BY <1>2, <2>2, <2>3, <3>1
  <2> QED
    BY <2>1, <2>4 DEF LobbyInv, GroupsInv
<1> QED
  BY <1>3, <1>6, <1>7

\* The users in no group are those the page shows as Groupless.
LEMMA LonersAreShown ==
  ASSUME LobbyInv, NEW code \in ProductCode
  PROVE  Loners(code) = {s \in Playing(Players, code) : ShownIn(s) = Groupless}
<1>1. code # NULL
  BY RegistryAssumption
<1>2. \A s \in Session : group[s] # NULL => group[s] \in groups /\ group[s][2] # Groupless
  <2> SUFFICES ASSUME NEW s \in Session, group[s] # NULL
               PROVE  group[s] \in groups /\ group[s][2] # Groupless
    OBVIOUS
  <2>1. group[s] \in groups /\ group[s] \in GroupKey
    BY DEF LobbyInv, TypeOK, GroupsInv
  <2>2. group[s][2] \in ValidGroupName
    BY <2>1, KeyParts
  <2> QED
    BY <2>1, <2>2, StatusAssumption
<1>3. \A s \in Session : group[s] = NULL <=> \A k \in groups : s \notin ToSet(players[k])
  <2>1. \A k \in groups : k # NULL
    BY RegistryAssumption DEF LobbyInv, TypeOK
  <2>2. \A k \in groups, s \in Session : s \in ToSet(players[k]) <=> group[s] = k
    BY DEF LobbyInv, GroupsInv
  <2> QED
    BY <1>2, <2>1, <2>2
<1>4. \A s \in Session : ShownIn(s) = Groupless <=> group[s] = NULL
  BY <1>2 DEF ShownIn
<1> QED
  BY <1>1, <1>3, <1>4 DEF Loners, Playing, Players

\* The groups of the page are those of the lobby.
LEMMA GroupsMatch ==
  ASSUME LobbyInv, NEW code \in ProductCode, NEW list,
         GroupsShow(list, Playing(Players, code))
  PROVE  /\ Len(list) = Cardinality(LobbyGroups(code))
         /\ {Summary(e) : e \in ToSet(list)} = LobbyGroups(code)
         /\ \A e \in ToSet(list) : Len(e.users) = Cardinality(ToSet(e.users))
<1> DEFINE M == Playing(Players, code)
<1>1. /\ list \in Seq(GroupEntry)
      /\ \A i, j \in 1..Len(list) : list[i].name = list[j].name => i = j
      /\ \A s \in M : \E i \in 1..Len(list) : list[i].name = ShownIn(s)
      /\ \A i \in 1..Len(list) :
           /\ list[i].users # <<>>
           /\ Distinct(list[i].users)
           /\ ToSet(list[i].users) = {s \in M : ShownIn(s) = list[i].name}
  BY DEF GroupsShow
<1>2. /\ Len(list) \in Nat /\ DOMAIN list = 1..Len(list)
      /\ \A i \in 1..Len(list) : /\ list[i].users \in Seq(Session)
                                 /\ list[i].name \in ShownNames
  <2>1. Len(list) \in Nat /\ DOMAIN list = 1..Len(list)
    BY <1>1, LenProperties
  <2>2. \A i \in 1..Len(list) : list[i] \in GroupEntry
    BY <1>1, ElementOfSeq
  <2> QED
    BY <2>1, <2>2 DEF GroupEntry
<1>3. M \subseteq Session /\ \A s \in M : game[s] = code
  BY DEF Playing, Players
<1> HIDE DEF M
<1>4. ASSUME NEW i \in 1..Len(list) PROVE Summary(list[i]) \in LobbyGroups(code)
  <2>1. PICK name : name = list[i].name
    OBVIOUS
  <2>2. PICK S : S = {s \in M : ShownIn(s) = name}
    OBVIOUS
  <2>3. Summary(list[i]) = [name |-> name, users |-> S]
    BY <1>1, <2>1, <2>2 DEF Summary
  <2>4. PICK s \in M : ShownIn(s) = name
    <3>1. ToSet(list[i].users) # {}
      BY <1>1, <1>2, EmptyList
    <3> QED
      BY <1>1, <2>1, <3>1
  <2>5. CASE group[s] = NULL
    <3>1. name = Groupless
      BY <2>4, <2>5 DEF ShownIn
    <3>2. S = Loners(code) /\ S # {}
      BY <2>2, <2>4, <3>1, LonersAreShown DEF M
    <3> QED
      BY <2>3, <3>1, <3>2 DEF LobbyGroups
  <2>6. CASE group[s] # NULL
    <3>1. PICK k \in groups : k = group[s]
      BY <1>3, <2>6 DEF LobbyInv, GroupsInv
    <3>2. k[1] = code /\ k[2] = name
      BY <1>3, <2>4, <2>6, <3>1 DEF LobbyInv, GroupsInv, ShownIn
    <3>3. ToSet(players[k]) = S
      BY <2>2, <3>2, MembersAreShown DEF M
    <3> QED
      BY <2>3, <3>2, <3>3 DEF LobbyGroups
  <2> QED
    BY <2>5, <2>6
<1>5. ASSUME NEW i \in 1..Len(list), NEW j \in 1..Len(list), Summary(list[i]) = Summary(list[j])
      PROVE  i = j
  <2>1. Summary(list[i]).name = list[i].name /\ Summary(list[j]).name = list[j].name
    BY DEF Summary
  <2> QED
    BY <1>1, <1>5, <2>1
<1>6. ASSUME NEW x \in LobbyGroups(code) PROVE \E i \in 1..Len(list) : Summary(list[i]) = x
  <2>1. PICK name, S : x = [name |-> name, users |-> S] /\ S = {s \in M : ShownIn(s) = name} /\ S # {}
    <3>1. CASE x \in {[name |-> k[2], users |-> ToSet(players[k])] : k \in {k \in groups : k[1] = code}}
      <4>1. PICK k \in groups : k[1] = code /\ x = [name |-> k[2], users |-> ToSet(players[k])]
        BY <3>1
      <4>2. ToSet(players[k]) = {s \in M : ShownIn(s) = k[2]} /\ ToSet(players[k]) # {}
        BY <4>1, MembersAreShown DEF M
      <4> QED
        BY <4>1, <4>2
    <3>2. CASE x \in {[name |-> Groupless, users |-> S] : S \in {Loners(code)} \ {{}}}
      <4>1. x = [name |-> Groupless, users |-> Loners(code)] /\ Loners(code) # {}
        BY <3>2
      <4>2. Loners(code) = {s \in M : ShownIn(s) = Groupless}
        BY LonersAreShown DEF M
      <4> QED
        BY <4>1, <4>2
    <3> QED
      BY <3>1, <3>2 DEF LobbyGroups
  <2>2. PICK s \in M : ShownIn(s) = name
    BY <2>1
  <2>3. PICK i \in 1..Len(list) : list[i].name = name
    BY <1>1, <2>2
  <2>4. Summary(list[i]) = x
    BY <1>1, <2>1, <2>3 DEF Summary
  <2> QED
    BY <2>4
<1>7. Len(list) = Cardinality(LobbyGroups(code))
  <2>t. PICK T : T = LobbyGroups(code)
    OBVIOUS
  <2>1. PICK n \in Nat : n = Len(list)
    BY <1>2
  <2> DEFINE f == [i \in 1..n |-> Summary(list[i])]
  <2>2. f \in [1..n -> T]
    BY <1>4, <2>1, <2>t
  <2>3. \A i, j \in 1..n : f[i] = f[j] => i = j
    BY <1>5, <2>1
  <2>4. \A x \in T : \E i \in 1..n : f[i] = x
    BY <1>6, <2>1, <2>t
  <2> HIDE DEF f
  <2>5. Cardinality(T) = n
    BY <2>2, <2>3, <2>4, Numbered
  <2> QED
    BY <2>1, <2>5, <2>t
<1>8. {Summary(e) : e \in ToSet(list)} = LobbyGroups(code)
  BY <1>2, <1>4, <1>6 DEF ToSet
<1>9. ASSUME NEW e \in ToSet(list) PROVE Len(e.users) = Cardinality(ToSet(e.users))
  <2>1. PICK i \in 1..Len(list) : e = list[i]
    BY <1>2 DEF ToSet
  <2>2. e.users \in Seq(Session) /\ Distinct(e.users)
    BY <1>1, <1>2, <2>1
  <2> QED
    BY <2>2, DistinctLength
<1> QED
  BY <1>7, <1>8, <1>9

\* What PageShowsLobby says, of a list of games.
GamesMatch(list) ==
  /\ Len(list) = Cardinality(games_)
  /\ {g.code : g \in ToSet(list)} = games_
  /\ \A g \in ToSet(list) :
       /\ g.name = [code |-> g.code, from_row |-> TRUE]
       /\ g.user_count = Len(users[g.code])
       /\ Len(g.groups) = Cardinality(LobbyGroups(g.code))
       /\ {Summary(e) : e \in ToSet(g.groups)} = LobbyGroups(g.code)
       /\ \A e \in ToSet(g.groups) : Len(e.users) = Cardinality(ToSet(e.users))

\* A list that shows the sessions in their games shows the nodes of the lobby.
LEMMA ShownGamesMatch ==
  ASSUME LobbyInv, PlayedGamesAreRecorded, NEW list, GamesShow(list, Players)
  PROVE  GamesMatch(list)
<1>1. /\ list \in Seq(GameEntry)
      /\ \A i, j \in 1..Len(list) : list[i].code = list[j].code => i = j
      /\ \A s \in Players : \E i \in 1..Len(list) : list[i].code = game[s]
      /\ \A i \in 1..Len(list) :
           /\ Playing(Players, list[i].code) # {}
           /\ EntryShows(list[i], Playing(Players, list[i].code))
  BY DEF GamesShow
<1>2. Len(list) \in Nat /\ DOMAIN list = 1..Len(list)
  BY <1>1, LenProperties
<1>3. ASSUME NEW i \in 1..Len(list) PROVE list[i].code \in games_
  <2>1. PICK s \in Players : game[s] = list[i].code
    BY <1>1 DEF Playing
  <2> QED
    BY <2>1 DEF Players, LobbyInv, GamesInv
<1>4. ASSUME NEW c \in games_
      PROVE  /\ users[c] \in Seq(Session) /\ Distinct(users[c]) /\ c \in ProductCode
             /\ ToSet(users[c]) = Playing(Players, c)
             /\ ToSet(users[c]) # {}
  <2>1. users[c] \in Seq(Session) /\ Distinct(users[c]) /\ c \in ProductCode /\ users[c] # <<>>
    BY DEF LobbyInv, TypeOK, GamesInv
  <2>2. ToSet(users[c]) # {}
    BY <2>1, EmptyList
  <2>3. ToSet(users[c]) \subseteq Session
    BY <2>1, LenProperties, ElementOfSeq DEF ToSet
  <2>4. \A s \in Session : s \in ToSet(users[c]) <=> game[s] = c
    BY DEF LobbyInv, GamesInv
  <2>5. c # NULL
    BY <2>1, RegistryAssumption
  <2> QED
    BY <2>1, <2>2, <2>3, <2>4, <2>5 DEF Playing, Players
<1>5. ASSUME NEW c \in games_ PROVE \E i \in 1..Len(list) : list[i].code = c
  <2>1. PICK s \in Players : game[s] = c
    BY <1>4 DEF Playing
  <2> QED
    BY <1>1, <2>1
<1>6. Len(list) = Cardinality(games_)
  <2>1. PICK n \in Nat : n = Len(list)
    BY <1>2
  <2> DEFINE f == [i \in 1..n |-> list[i].code]
  <2>2. f \in [1..n -> games_]
    BY <1>3, <2>1
  <2>3. \A i, j \in 1..n : f[i] = f[j] => i = j
    BY <1>1, <2>1
  <2>4. \A c \in games_ : \E i \in 1..n : f[i] = c
    BY <1>5, <2>1
  <2> HIDE DEF f
  <2>5. Cardinality(games_) = n
    BY <2>2, <2>3, <2>4, Numbered
  <2> QED
    BY <2>1, <2>5
<1>7. {g.code : g \in ToSet(list)} = games_
  BY <1>2, <1>3, <1>5 DEF ToSet
<1>8. ASSUME NEW g \in ToSet(list)
      PROVE  /\ g.name = [code |-> g.code, from_row |-> TRUE]
             /\ g.user_count = Len(users[g.code])
             /\ Len(g.groups) = Cardinality(LobbyGroups(g.code))
             /\ {Summary(e) : e \in ToSet(g.groups)} = LobbyGroups(g.code)
             /\ \A e \in ToSet(g.groups) : Len(e.users) = Cardinality(ToSet(e.users))
  <2>1. PICK i \in 1..Len(list) : g = list[i]
    BY <1>2 DEF ToSet
  <2>2. PICK code \in games_ : code = g.code
    BY <1>3, <2>1
  <2>3. /\ g.name = display_name_for(code)
        /\ g.user_count = Cardinality(Playing(Players, code))
        /\ GroupsShow(g.groups, Playing(Players, code))
    BY <1>1, <2>1, <2>2 DEF EntryShows
  <2>4. g.name = [code |-> code, from_row |-> TRUE]
    <3>1. (code \in productids) = TRUE
      BY <2>2 DEF PlayedGamesAreRecorded
    <3> QED
      BY <2>3, <3>1, Zenon DEF display_name_for
  <2>5. g.user_count = Len(users[code])
    BY <1>4, <2>2, <2>3, DistinctLength
  <2>6. /\ Len(g.groups) = Cardinality(LobbyGroups(code))
        /\ {Summary(e) : e \in ToSet(g.groups)} = LobbyGroups(code)
        /\ \A e \in ToSet(g.groups) : Len(e.users) = Cardinality(ToSet(e.users))
    <3>1. code \in ProductCode
      BY <1>4, <2>2
    <3>2. PICK gs : gs = g.groups
      OBVIOUS
    <3> QED
      BY <2>3, <3>1, <3>2, GroupsMatch
  <2> QED
    BY <2>2, <2>4, <2>5, <2>6
<1> QED
  BY <1>6, <1>7, <1>8 DEF GamesMatch

(***************************************************************************)
(* The status server only reads the lobby: beside it the game server does  *)
(* what it does alone, so that all its theorems hold here too.             *)
(***************************************************************************)
THEOREM StatusServerOnlyReads == StatusSpec => Spec
<1>1. StatusInit => Init
  BY DEF StatusInit
<1>2. [StatusNext]_status_vars => [Next]_vars
  BY StatusSteps
<1> QED
  BY <1>1, <1>2, PTL DEF StatusSpec, Spec

\* A page that is built now shows the lobby as it is now.
LEMMA PageStep ==
  ASSUME LobbyInv, PlayedGamesAreRecorded, PageShowsLobby, [StatusNext]_status_vars
  PROVE  PageShowsLobby'
<1>1. UNCHANGED vars =>
        /\ games_' = games_ /\ users' = users
        /\ \A c : LobbyGroups(c)' = LobbyGroups(c)
  <2> SUFFICES ASSUME UNCHANGED vars
               PROVE  /\ games_' = games_ /\ users' = users
                      /\ \A c : LobbyGroups(c)' = LobbyGroups(c)
    OBVIOUS
  <2>1. games_' = games_ /\ users' = users /\ groups' = groups /\ players' = players /\ game' = game
    BY DEF vars, registry_vars
  <2>2. \A c : Loners(c)' = Loners(c)
    BY <2>1 DEF Loners
  <2> QED
    BY <2>1, <2>2 DEF LobbyGroups
<1>2. CASE UNCHANGED <<vars, by_mac_, page>>
  BY <1>1, <1>2 DEF PageShowsLobby
<1>3. CASE page' = NULL
  BY <1>3 DEF PageShowsLobby
<1>4. CASE UNCHANGED vars /\ \E order \in SetToSeqs(games_) : page' = build_status_json(order)
  <2>1. PICK order \in SetToSeqs(games_) : page' = build_status_json(order)
    BY <1>4
  <2>2. PICK list : list = build_status_games(order)
    OBVIOUS
  <2>3. page'.games = list
    BY <2>1, <2>2 DEF build_status_json
  <2>4. GamesMatch(list)
    BY <2>2, PageShowsPlayers, ShownGamesMatch
  <2> QED
    BY <1>1, <1>4, <2>3, <2>4 DEF PageShowsLobby, GamesMatch, Summary
<1> QED
  BY <1>2, <1>3, <1>4, StatusSteps

(***************************************************************************)
(* build_status_json shows each game_node once, with the name of its row   *)
(* and its number of users, and under it each group_node with just its     *)
(* members and the users in no group, for any number of sessions, games    *)
(* and groups, and any order in which the map has the games.               *)
(***************************************************************************)
THEOREM PagesShowLobby == StatusSpec => []PageShowsLobby
<1>1. StatusInit => PageShowsLobby
  BY DEF StatusInit, PageShowsLobby
<1>2. LobbyInv /\ PlayedGamesAreRecorded /\ PageShowsLobby /\ [StatusNext]_status_vars
        => PageShowsLobby'
  BY PageStep
<1> QED
  BY <1>1, <1>2, StatusServerOnlyReads, LobbyInvariant, GamesAreRecorded, PTL DEF StatusSpec

=============================================================================
