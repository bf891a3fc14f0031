---------------------------- MODULE RelayProofs ----------------------------
(***************************************************************************)
(* Proofs about module Relay, for any number of sessions, any addresses    *)
(* and any set of init packets.                                            *)
(***************************************************************************)
EXTENDS Relay, FiniteSetTheorems, TLAPS

(***************************************************************************)
(* What a session may have at each stage of run().  A session that is not  *)
(* registered has nothing queued and nobody closes it; only a connect      *)
(* waits for a listener or an accept; superseding closes.                  *)
(***************************************************************************)
StageOf(s) ==
  /\ pc[s] \in {"none", "init"} => id[s] = NULL
  /\ pc[s] \notin {"none", "init"} => id[s] # NULL
  /\ pc[s] \in {"await", "woken", "bond", "signalled"} => id[s].mode = "PTP_CONNECT"
  /\ ~registered_(s) => /\ ~closed_[s] /\ ~superseded_[s] /\ ~established_[s]
                        /\ write_queue_[s] = 0 /\ ~writing[s]
  /\ superseded_[s] => closed_[s]
  /\ established_[s] => id[s].mode \in {"PTP_CONNECT", "PTP_ACCEPT"}

Stages == \A s \in RelaySession : StageOf(s)

\* The inductive invariant.
RelayInv ==
  /\ TypeOK
  /\ Stages
  /\ NamesLeadToLiveSessions
  /\ NoLostListener
  /\ BondedHasPeer
  /\ DirectoryIsBacked
-----------------------------------------------------------------------------
(***************************************************************************)
(* Names                                                                   *)
(***************************************************************************)

\* The names derived from a connect or an accept are names of the right mode.
LEMMA DerivedNames ==
  ASSUME NEW n \in Name
  PROVE  /\ n.mode \in {"PTP_CONNECT", "PTP_ACCEPT"} =>
              /\ get_listen_session_name(n) \in Name
              /\ get_connect_session_name(n) \in Name
              /\ get_accept_session_name(n) \in Name
         /\ Entry(n) \in {"pdp", "ptp"} \X Address
         /\ n # NULL
<1>1. n # NULL
  BY RelayAssumption
<1>2. Entry(n) \in {"pdp", "ptp"} \X Address
  BY DEF Entry, Name
<1>3. ASSUME n.mode \in {"PTP_CONNECT", "PTP_ACCEPT"}
      PROVE  n.from \in Address /\ n.to \in Address
  BY <1>3 DEF Name
<1> QED
  BY <1>1, <1>2, <1>3
  DEF Name, get_listen_session_name, get_connect_session_name, get_accept_session_name

\* The peer relation: the peer of a stream is a stream, of which it is the peer.
LEMMA PeerOfPeer ==
  ASSUME NEW n \in Name, n.mode \in {"PTP_CONNECT", "PTP_ACCEPT"}
  PROVE  /\ get_peer_identifier(n) \in Name
         /\ get_peer_identifier(n).mode \in {"PTP_CONNECT", "PTP_ACCEPT"}
         /\ get_peer_identifier(get_peer_identifier(n)) = n
<1>1. PICK a \in Address, b \in Address :
        n = [mode |-> n.mode, from |-> a, to |-> b]
  BY DEF Name
<1>2. CASE n.mode = "PTP_CONNECT"
  <2>1. get_peer_identifier(n) = [mode |-> "PTP_ACCEPT", from |-> b, to |-> a]
    BY <1>1, <1>2 DEF get_peer_identifier, get_accept_session_name
  <2>2. get_peer_identifier([mode |-> "PTP_ACCEPT", from |-> b, to |-> a])
          = [mode |-> "PTP_CONNECT", from |-> a, to |-> b]
    BY DEF get_peer_identifier, get_connect_session_name
  <2> QED
    BY <1>1, <1>2, <2>1, <2>2 DEF Name
<1>3. CASE n.mode = "PTP_ACCEPT"
  <2>1. get_peer_identifier(n) = [mode |-> "PTP_CONNECT", from |-> b, to |-> a]
    BY <1>1, <1>3 DEF get_peer_identifier, get_connect_session_name
  <2>2. get_peer_identifier([mode |-> "PTP_CONNECT", from |-> b, to |-> a])
          = [mode |-> "PTP_ACCEPT", from |-> a, to |-> b]
    BY DEF get_peer_identifier, get_accept_session_name
  <2> QED
    BY <1>1, <1>3, <2>1, <2>2 DEF Name
<1> QED
  BY <1>2, <1>3

\* Every session has the name of a peer, or none.
LEMMA PeerIsName ==
  ASSUME NEW n \in Name
  PROVE  get_peer_identifier(n) \in Name \cup {NULL}
<1>1. CASE n.mode \in {"PTP_CONNECT", "PTP_ACCEPT"}
  BY <1>1, PeerOfPeer
<1>2. CASE n.mode \notin {"PTP_CONNECT", "PTP_ACCEPT"}
  BY <1>2, Zenon DEF get_peer_identifier
<1> QED
  BY <1>1, <1>2

\* A connect and the accept that answers it are each other's peers.
LEMMA AcceptMeetsConnect ==
  ASSUME NEW n \in Name, n.mode = "PTP_ACCEPT"
  PROVE  /\ get_peer_identifier(n) = get_connect_session_name(n)
         /\ get_peer_identifier(get_connect_session_name(n)) = n
         /\ get_connect_session_name(n).mode = "PTP_CONNECT"
  BY PeerOfPeer DEF get_peer_identifier, get_connect_session_name

\* find brings a session that goes by the name, or nobody.
LEMMA FindIs ==
  ASSUME TypeOK, NEW n
  PROVE  /\ n \in Name => find(n) \subseteq RelaySession
         /\ n \in Name => (find(n) = {} <=> sessions_[n] = NULL)
         /\ \A x : x \in find(n) <=> n # NULL /\ x = sessions_[n] /\ x # NULL
  BY RelayAssumption DEF find, TypeOK
-----------------------------------------------------------------------------
(***************************************************************************)
(* One step of run()                                                       *)
(***************************************************************************)

\* Cancelling ends a wait and changes nothing else about a session's stage.
LEMMA CancelledIs ==
  ASSUME TypeOK, NEW x \in RelaySession, NEW W, NEW S
  PROVE  /\ Cancelled(x, W, S) \in Pc
         /\ Cancelled(x, W, S) = "none" <=> pc[x] = "none"
         /\ Cancelled(x, W, S) = "init" <=> pc[x] = "init"
         /\ Cancelled(x, W, S) = "await" <=> pc[x] = "await" /\ x \notin W
         /\ Cancelled(x, W, S) \in {"await", "woken"} <=> pc[x] \in {"await", "woken"}
         /\ Cancelled(x, W, S) \in {"bond", "signalled"} <=> pc[x] \in {"bond", "signalled"}
<1>1. pc[x] \in Pc
  BY DEF TypeOK
<1>2. CASE pc[x] = "await" /\ x \in W
  BY <1>2 DEF Cancelled, Pc
<1>3. CASE pc[x] = "bond" /\ x \in W \cup S
  BY <1>3 DEF Cancelled, Pc
<1>4. CASE pc[x] = "forward" /\ x \in S
  BY <1>4 DEF Cancelled, Pc
<1>5. CASE /\ ~(pc[x] = "await" /\ x \in W)
           /\ ~(pc[x] = "bond" /\ x \in W \cup S)
           /\ ~(pc[x] = "forward" /\ x \in S)
  <2>1. Cancelled(x, W, S) = pc[x]
    BY <1>5, Zenon DEF Cancelled
  <2> QED
    BY <1>1, <1>5, <2>1
<1> QED
  BY <1>2, <1>3, <1>4, <1>5

\* The types a step of run() keeps.  A queue that would reach the limit is closed.
LEMMA RunTypes ==
  ASSUME TypeOK, NEW s, NEW p, NEW Closing, NEW W, NEW To,
         s \in RelaySession => p \in Pc,
         Run(s, p, Closing, W, To)
  PROVE  /\ pc' \in [RelaySession -> Pc]
         /\ closed_' \in [RelaySession -> BOOLEAN]
         /\ write_queue_' \in [RelaySession -> 0..(data_queue_size_limit - 1)]
         /\ writing' \in [RelaySession -> BOOLEAN]
<1>1. pc' \in [RelaySession -> Pc]
  BY CancelledIs DEF Run
<1>2. closed_' \in [RelaySession -> BOOLEAN] /\ writing' \in [RelaySession -> BOOLEAN]
  BY Zenon DEF Run
<1>3. ASSUME NEW x \in RelaySession
      PROVE  Queued(To)[x] \in 0..(data_queue_size_limit - 1) \/ x \in Overflown(To)
  <2>1. write_queue_[x] \in 0..(data_queue_size_limit - 1)
    BY DEF TypeOK
  <2>2. CASE x \in To /\ ~closed_[x]
    BY <2>1, <2>2, RelayAssumption DEF Queued, Overflown
  <2>3. CASE ~(x \in To /\ ~closed_[x])
    BY <2>1, <2>3 DEF Queued
  <2> QED
    BY <2>2, <2>3
<1>4. 0 \in 0..(data_queue_size_limit - 1)
  BY RelayAssumption
<1>5. write_queue_' \in [RelaySession -> 0..(data_queue_size_limit - 1)]
  BY <1>3, <1>4 DEF Run
<1> QED
  BY <1>1, <1>2, <1>5

\* What a step of another session's run() may do to a session.
LEMMA RunKeeps ==
  ASSUME TypeOK, NEW s, NEW p, NEW Closing, NEW W, NEW To,
         Run(s, p, Closing, W, To),
         NEW x \in RelaySession, x # s
  PROVE  /\ pc'[x] = "none" <=> pc[x] = "none"
         /\ pc'[x] = "init" <=> pc[x] = "init"
         /\ pc'[x] = "await" <=> pc[x] = "await" /\ x \notin W
         /\ pc'[x] \in {"await", "woken"} <=> pc[x] \in {"await", "woken"}
         /\ pc'[x] \in {"bond", "signalled"} <=> pc[x] \in {"bond", "signalled"}
         /\ registered_(x)' <=> registered_(x)
         /\ closed_[x] => closed_'[x]
         /\ x \in Closing => closed_'[x]
         /\ x \notin Closing \cup To =>
              /\ closed_'[x] = closed_[x]
              /\ write_queue_'[x] = write_queue_[x]
              /\ writing'[x] = writing[x]
<1> DEFINE S == Closing \cup Overflown(To)
<1>1. pc'[x] = Cancelled(x, W, S)
  BY DEF Run
<1>2. Cancelled(x, W, S) \in Pc /\ pc[x] \in Pc
  BY CancelledIs DEF TypeOK
<1>3. registered_(x)' <=> registered_(x)
  BY <1>1, <1>2, CancelledIs DEF registered_, Pc
<1>4. x \notin To => x \notin Overflown(To) /\ Queued(To)[x] = write_queue_[x]
  BY DEF Overflown, Queued
<1>5. closed_'[x] = (closed_[x] \/ x \in S)
  BY Zenon DEF Run
<1>6. /\ write_queue_'[x] = IF x \in S THEN 0 ELSE Queued(To)[x]
      /\ writing'[x] = (writing[x] /\ x \notin S)
  BY Zenon DEF Run
<1>7. closed_[x] \in BOOLEAN /\ writing[x] \in BOOLEAN
  BY DEF TypeOK
<1>8. /\ closed_[x] => closed_'[x]
      /\ x \in Closing => closed_'[x]
  BY <1>5
<1>9. x \notin Closing \cup To =>
        /\ closed_'[x] = closed_[x]
        /\ write_queue_'[x] = write_queue_[x]
        /\ writing'[x] = writing[x]
  BY <1>4, <1>5, <1>6, <1>7
<1> QED
  BY <1>1, <1>3, <1>8, <1>9, CancelledIs

\* What a step of run() does to its own session.
LEMMA RunMoves ==
  ASSUME TypeOK, NEW s \in RelaySession, NEW p, NEW Closing, NEW W, NEW To,
         Run(s, p, Closing, W, To)
  PROVE  /\ pc'[s] = p
         /\ p = "none" => ~closed_'[s] /\ write_queue_'[s] = 0 /\ ~writing'[s]
         /\ p # "none" => (closed_[s] => closed_'[s])
  BY DEF Run, TypeOK

\* find brings registered sessions only.
LEMMA FoundIsRegistered ==
  ASSUME RelayInv, NEW n \in Name \cup {NULL}, NEW x \in find(n)
  PROVE  /\ x \in RelaySession
         /\ registered_(x)
         /\ id[x] = n
         /\ n \in Name
         /\ sessions_[n] = x
<1>1. n \in Name /\ x = sessions_[n] /\ x # NULL
  BY FindIs DEF RelayInv
<1> QED
  BY <1>1 DEF RelayInv, NamesLeadToLiveSessions, TypeOK

\* Steps of others keep a session's stage.
LEMMA StageKept ==
  ASSUME RelayInv, NEW s, NEW p, NEW Closing, NEW W, NEW To,
         Run(s, p, Closing, W, To),
         NEW x \in RelaySession, x # s,
         x \in Closing \cup To => registered_(x),
         id'[x] = id[x],
         superseded_'[x] => superseded_[x] \/ x \in Closing,
         established_'[x] =>
           \/ established_[x]
           \/ registered_(x) /\ id[x].mode \in {"PTP_CONNECT", "PTP_ACCEPT"}
  PROVE  StageOf(x)'
<1>1. TypeOK /\ StageOf(x)
  BY DEF RelayInv, Stages
<1>2. registered_(x)' <=> registered_(x)
  BY <1>1, RunKeeps
<1>3. /\ pc'[x] \in {"none", "init"} => id'[x] = NULL
      /\ pc'[x] \notin {"none", "init"} => id'[x] # NULL
      /\ pc'[x] \in {"await", "woken", "bond", "signalled"} => id'[x].mode = "PTP_CONNECT"
  BY <1>1, RunKeeps DEF StageOf
<1>4. ASSUME ~registered_(x)
      PROVE  /\ ~closed_'[x] /\ ~superseded_'[x] /\ ~established_'[x]
             /\ write_queue_'[x] = 0 /\ ~writing'[x]
  BY <1>1, <1>4, RunKeeps DEF StageOf
<1>5. superseded_'[x] => closed_'[x]
  BY <1>1, RunKeeps DEF StageOf
<1>6. established_'[x] => id'[x].mode \in {"PTP_CONNECT", "PTP_ACCEPT"}
  BY <1>1 DEF StageOf
<1> QED
  BY <1>2, <1>3, <1>4, <1>5, <1>6 DEF StageOf

-----------------------------------------------------------------------------
(***************************************************************************)
(* register_self that succeeds                                             *)
(***************************************************************************)
LEMMA RegistersStep ==
  ASSUME RelayInv, NEW s \in RelaySession, NEW n \in Requests, ~registered_(s),
         NEW p \in {"forward", "bond"}, p = "bond" => n.mode = "PTP_CONNECT",
         NEW Bonded, NEW To,
         \A x \in To : x = s \/ (x \in RelaySession /\ registered_(x)),
         \/ Bonded = {}
         \/ /\ n.mode = "PTP_ACCEPT"
            /\ AwaitsAccept(n) # {}
            /\ Bonded = AwaitsAccept(n) \cup {s},
         Registers(s, n, p, Bonded, To)
  PROVE  RelayInv'
<1> DEFINE W == Waiting(n) \cup Bonded
<1>1. TypeOK /\ n \in Name /\ n # NULL /\ StageOf(s) /\ p \in Pc
  BY RelayAssumption DEF RelayInv, Stages, Pc
<1>2. Run(s, p, find(n), W, To)
  BY DEF Registers, Superseded
<1>3. pc'[s] = p /\ id'[s] = n /\ registered_(s)'
  BY <1>1, <1>2, RunMoves DEF Registers, registered_, TypeOK
<1>4. \A x \in find(n) :
        /\ x \in RelaySession /\ registered_(x) /\ id[x] = n
        /\ x # s /\ sessions_[n] = x
  BY <1>1, FoundIsRegistered
<1>5. \A x \in RelaySession : x # s => id'[x] = id[x]
  BY <1>1 DEF Registers, TypeOK
<1>6. ASSUME NEW x \in RelaySession, x # s, x \in Bonded
      PROVE  /\ n.mode = "PTP_ACCEPT" /\ registered_(x)
             /\ id[x] = get_connect_session_name(n)
             /\ id[x].mode = "PTP_CONNECT"
  <2>1. x \in find(get_connect_session_name(n)) /\ n.mode = "PTP_ACCEPT"
    BY <1>6 DEF AwaitsAccept
  <2> QED
    BY <1>1, <2>1, FoundIsRegistered, DerivedNames, AcceptMeetsConnect
<1>7. \A m \in Name : sessions_'[m] = IF m = n THEN s ELSE sessions_[m]
  BY <1>1 DEF Registers, TypeOK
<1>8. TypeOK'
  <2>1. /\ pc' \in [RelaySession -> Pc]
        /\ closed_' \in [RelaySession -> BOOLEAN]
        /\ write_queue_' \in [RelaySession -> 0..(data_queue_size_limit - 1)]
        /\ writing' \in [RelaySession -> BOOLEAN]
    BY <1>1, <1>2, RunTypes
  <2>2. /\ id' \in [RelaySession -> Requests \cup {NULL}]
        /\ sessions_' \in [Name -> RelaySession \cup {NULL}]
        /\ waiters_' \subseteq Name \X RelaySession
        /\ active_count_' \in 0..max_num_sessions
    BY <1>1 DEF Registers, TypeOK, WithoutWaiters
  <2>3. directory' \subseteq {"pdp", "ptp"} \X Address
    BY <1>1, DerivedNames DEF Registers, TypeOK
  <2>4. /\ superseded_' \in [RelaySession -> BOOLEAN]
        /\ established_' \in [RelaySession -> BOOLEAN]
    BY Zenon DEF Registers
  <2> QED
    BY <2>1, <2>2, <2>3, <2>4 DEF TypeOK
<1>9. Stages'
  <2> SUFFICES ASSUME NEW x \in RelaySession PROVE StageOf(x)'
    BY DEF Stages
  <2>1. /\ superseded_'[x] <=> superseded_[x] \/ x \in find(n)
        /\ established_'[x] <=> established_[x] \/ x \in Bonded
    BY Zenon DEF Registers
  <2>2. CASE x = s
    <3>1. ~superseded_'[s]
      BY <1>1, <1>4, <2>1, <2>2 DEF StageOf
    <3>2. established_'[s] => n.mode \in {"PTP_CONNECT", "PTP_ACCEPT"}
      BY <1>1, <2>1, <2>2 DEF StageOf
    <3> QED
      BY <1>1, <1>3, <2>2, <3>1, <3>2 DEF StageOf
  <2>3. CASE x # s
    BY <1>2, <1>4, <1>5, <1>6, <2>1, <2>3, StageKept
  <2> QED
    BY <2>2, <2>3
<1>10. NamesLeadToLiveSessions'
  <2>1. ASSUME NEW m \in Name, sessions_'[m] # NULL
        PROVE  (registered_(sessions_[m]) /\ id[sessions_[m]] = m)'
    <3>1. PICK y \in RelaySession : y = sessions_'[m]
      BY <1>8, <2>1 DEF TypeOK
    <3>2. CASE m = n
      BY <1>3, <1>7, <3>2 DEF registered_
    <3>3. CASE m # n
      <4>1. registered_(y) /\ id[y] = m
        BY <1>7, <2>1, <3>1, <3>3 DEF RelayInv, NamesLeadToLiveSessions
      <4>2. id'[y] = m /\ registered_(y)'
        BY <1>1, <1>2, <1>5, <4>1, RunKeeps
      <4> QED
        BY <3>1, <4>2 DEF registered_
    <3> QED
      BY <3>2, <3>3
  <2>2. ASSUME NEW x \in RelaySession, registered_(x)'
        PROVE  superseded_'[x] <=> sessions_'[id'[x]] # x
    <3>1. superseded_'[x] <=> superseded_[x] \/ x \in find(n)
      BY Zenon DEF Registers
    <3>2. CASE x = s
      BY <1>1, <1>3, <1>4, <1>7, <3>1, <3>2 DEF StageOf
    <3>3. CASE x # s
      <4>1. registered_(x) /\ id'[x] = id[x]
        BY <1>1, <1>2, <1>5, <2>2, <3>3, RunKeeps
      <4>2. superseded_[x] <=> sessions_[id[x]] # x
        BY <4>1 DEF RelayInv, NamesLeadToLiveSessions
      <4>3. id[x] \in Name
        BY <1>1, <4>1, RelayAssumption DEF RelayInv, Stages, StageOf, TypeOK, registered_
      <4>4. x \in find(n) <=> sessions_[n] = x
        BY <1>1, FindIs, RelayAssumption
      <4> QED
        BY <1>4, <1>7, <3>1, <3>3, <4>1, <4>2, <4>3, <4>4
    <3> QED
      BY <3>2, <3>3
  <2> QED
    BY <2>1, <2>2 DEF NamesLeadToLiveSessions
<1>11. NoLostListener'
  <2>1. ASSUME NEW x \in RelaySession, pc'[x] = "await"
        PROVE  /\ sessions_'[get_listen_session_name(id'[x])] = NULL
               /\ <<get_listen_session_name(id'[x]), x>> \in waiters_'
    <3>1. x # s /\ pc[x] = "await" /\ x \notin W /\ id'[x] = id[x]
      BY <1>1, <1>2, <1>3, <1>5, <2>1, RunKeeps
    <3> DEFINE listen == get_listen_session_name(id[x])
    <3>2. sessions_[listen] = NULL /\ <<listen, x>> \in waiters_
      BY <3>1 DEF RelayInv, NoLostListener
    <3>3. listen \in Name
      BY <1>1, <3>2 DEF TypeOK
    <3> HIDE DEF listen
    <3>4. listen # n
      BY <3>1, <3>2 DEF Waiting
    <3>5. sessions_'[listen] = NULL /\ <<listen, x>> \in waiters_'
      BY <1>7, <3>1, <3>2, <3>3, <3>4 DEF Registers, WithoutWaiters
    <3> QED
      BY <3>1, <3>5 DEF listen
  <2>2. ASSUME NEW w \in waiters_' PROVE pc'[w[2]] \in {"await", "woken"}
    <3>1. w \in waiters_ /\ w[2] # s /\ w[2] \in RelaySession
      BY <1>1, <2>2 DEF Registers, WithoutWaiters, TypeOK
    <3>2. pc[w[2]] \in {"await", "woken"}
      BY <3>1 DEF RelayInv, NoLostListener
    <3> QED
      BY <1>1, <1>2, <3>1, <3>2, RunKeeps
  <2> QED
    BY <2>1, <2>2 DEF NoLostListener
<1>12. BondedHasPeer'
  <2> SUFFICES ASSUME NEW x \in RelaySession, established_'[x], ~closed_'[x]
               PROVE  (find(get_peer_identifier(id[x])) # {})'
    BY DEF BondedHasPeer
  <2>1. established_[x] \/ x \in Bonded
    BY Zenon DEF Registers
  <2>2. ASSUME NEW m \in Name, sessions_'[m] # NULL, get_peer_identifier(id'[x]) = m
        PROVE  (find(get_peer_identifier(id[x])) # {})'
    BY <2>2, RelayAssumption DEF find
  <2>3. CASE x = s
    <3>1. n.mode = "PTP_ACCEPT" /\ AwaitsAccept(n) # {}
      BY <1>1, <2>1, <2>3 DEF StageOf
    <3>2. PICK c \in AwaitsAccept(n) : TRUE
      BY <3>1
    <3>3. get_connect_session_name(n) \in Name /\ get_connect_session_name(n) # n
      BY <1>1, <3>1, DerivedNames, AcceptMeetsConnect
    <3>4. sessions_[get_connect_session_name(n)] # NULL
      BY <1>1, <3>2, <3>3, FindIs DEF AwaitsAccept
    <3> QED
      BY <1>1, <1>3, <1>7, <2>2, <2>3, <3>1, <3>3, <3>4, AcceptMeetsConnect
  <2>4. CASE x # s /\ x \in Bonded
    BY <1>1, <1>5, <1>6, <1>7, <2>2, <2>4, AcceptMeetsConnect, RelayAssumption
  <2>5. CASE x # s /\ x \notin Bonded
    <3>1. established_[x] /\ ~closed_[x] /\ id'[x] = id[x]
      BY <1>1, <1>2, <1>5, <2>1, <2>5, RunKeeps
    <3> DEFINE m == get_peer_identifier(id[x])
    <3>2. find(m) # {}
      BY <3>1 DEF RelayInv, BondedHasPeer
    <3>3. id[x] \in Name /\ id[x].mode \in {"PTP_CONNECT", "PTP_ACCEPT"}
      BY <1>1, <3>1, RelayAssumption DEF RelayInv, Stages, StageOf, TypeOK, registered_
    <3>4. m \in Name
      BY <3>3, PeerOfPeer
    <3> HIDE DEF m
    <3>5. sessions_'[m] # NULL
      BY <1>1, <1>7, <3>2, <3>4, FindIs, RelayAssumption
    <3> QED
      BY <2>2, <3>1, <3>4, <3>5 DEF m
  <2> QED
    BY <2>3, <2>4, <2>5
<1>13. DirectoryIsBacked'
  <2> SUFFICES ASSUME NEW e \in directory'
               PROVE  \E x \in RelaySession : registered_(x)' /\ Entry(id'[x]) = e
    BY DEF DirectoryIsBacked, registered_
  <2>1. CASE e = Entry(n)
    BY <1>3, <2>1
  <2>2. CASE e # Entry(n)
    <3>1. PICK x \in RelaySession : registered_(x) /\ Entry(id[x]) = e
      BY <2>2 DEF Registers, RelayInv, DirectoryIsBacked
    <3> QED
      BY <1>1, <1>2, <1>5, <3>1, RunKeeps
  <2> QED
    BY <2>1, <2>2
<1> QED
  BY <1>8, <1>9, <1>10, <1>11, <1>12, <1>13 DEF RelayInv

-----------------------------------------------------------------------------
(***************************************************************************)
(* finish()                                                                *)
(***************************************************************************)

\* What every way to finish has in common.
LEMMA Leaves ==
  ASSUME RelayInv, NEW s \in RelaySession,
         NEW Closing, NEW W, NEW To, NEW Super,
         Run(s, "none", Closing, W, To), Forget(s, Super),
         \A x \in Closing \cup To : x \in RelaySession /\ registered_(x),
         Super \subseteq Closing
  PROVE  /\ pc' \in [RelaySession -> Pc]
         /\ id' \in [RelaySession -> Requests \cup {NULL}]
         /\ closed_' \in [RelaySession -> BOOLEAN]
         /\ superseded_' \in [RelaySession -> BOOLEAN]
         /\ established_' \in [RelaySession -> BOOLEAN]
         /\ write_queue_' \in [RelaySession -> 0..(data_queue_size_limit - 1)]
         /\ writing' \in [RelaySession -> BOOLEAN]
         /\ active_count_' \in 0..max_num_sessions
         /\ pc'[s] = "none" /\ ~established_'[s]
         /\ \A x \in RelaySession : x # s =>
              /\ id'[x] = id[x]
              /\ established_'[x] = established_[x]
              /\ superseded_'[x] <=> superseded_[x] \/ x \in Super
         /\ Stages'
<1>1. TypeOK
  BY DEF RelayInv
<1>2. "none" \in Pc
  BY DEF Pc
<1>3. /\ pc' \in [RelaySession -> Pc]
      /\ closed_' \in [RelaySession -> BOOLEAN]
      /\ write_queue_' \in [RelaySession -> 0..(data_queue_size_limit - 1)]
      /\ writing' \in [RelaySession -> BOOLEAN]
  BY <1>1, <1>2, RunTypes
<1>4. /\ id' \in [RelaySession -> Requests \cup {NULL}]
      /\ established_' \in [RelaySession -> BOOLEAN]
      /\ id'[s] = NULL /\ ~established_'[s]
      /\ \A x \in RelaySession : x # s => id'[x] = id[x] /\ established_'[x] = established_[x]
  BY <1>1 DEF Forget, TypeOK
<1>5. superseded_' \in [RelaySession -> BOOLEAN]
  BY Zenon DEF Forget
<1>6. \A x \in RelaySession : superseded_'[x] <=> x # s /\ (superseded_[x] \/ x \in Super)
  BY Zenon DEF Forget
<1>7. active_count_' \in 0..max_num_sessions
  BY <1>1, RelayAssumption DEF Forget, dec_active, TypeOK
<1>8. pc'[s] = "none" /\ ~closed_'[s] /\ write_queue_'[s] = 0 /\ ~writing'[s]
  BY <1>1, RunMoves
<1>9. ASSUME NEW x \in RelaySession PROVE StageOf(x)'
  <2>1. CASE x = s
    BY <1>4, <1>6, <1>8, <2>1 DEF StageOf, registered_
  <2>2. CASE x # s
    BY <1>4, <1>6, <2>2, StageKept
  <2> QED
    BY <2>1, <2>2
<1> QED
  BY <1>3, <1>4, <1>5, <1>6, <1>7, <1>8, <1>9 DEF Stages

(***************************************************************************)
(* When a name goes and the session at the other end is closed, every open *)
(* stream that is left has its other end.                                  *)
(***************************************************************************)
LEMMA PeersOutliveName ==
  ASSUME RelayInv, NEW s \in RelaySession, NEW n \in Name, NEW Closing, NEW W, NEW To,
         Run(s, "none", Closing, W, To),
         find(get_peer_identifier(n)) \subseteq Closing,
         ~established_'[s],
         \A x \in RelaySession : x # s => id'[x] = id[x] /\ established_'[x] = established_[x],
         \A m \in Name : m # n => sessions_'[m] = sessions_[m]
  PROVE  BondedHasPeer'
<1> SUFFICES ASSUME NEW x \in RelaySession, established_'[x], ~closed_'[x]
             PROVE  (find(get_peer_identifier(id[x])) # {})'
  BY DEF BondedHasPeer
<1>1. TypeOK
  BY DEF RelayInv
<1>2. x # s /\ established_[x] /\ id'[x] = id[x]
  OBVIOUS
<1>3. ~closed_[x] /\ x \notin Closing
  BY <1>1, <1>2, RunKeeps
<1>4. /\ id[x] \in Name /\ id[x].mode \in {"PTP_CONNECT", "PTP_ACCEPT"}
      /\ registered_(x) /\ ~superseded_[x]
  BY <1>1, <1>2, <1>3, RelayAssumption DEF RelayInv, Stages, StageOf, TypeOK, registered_
<1>5. sessions_[id[x]] = x
  BY <1>4 DEF RelayInv, NamesLeadToLiveSessions
<1>6. PICK m \in Name : m = get_peer_identifier(id[x]) /\ get_peer_identifier(m) = id[x]
  BY <1>4, PeerOfPeer
<1>7. sessions_[m] # NULL
  BY <1>1, <1>2, <1>3, <1>6, FindIs DEF RelayInv, BondedHasPeer
<1>8. m # n
  <2>1. x \in find(id[x])
    BY <1>1, <1>4, <1>5, FindIs, RelayAssumption
  <2> QED
    BY <1>3, <1>6, <2>1
<1>9. sessions_'[m] # NULL /\ get_peer_identifier(id'[x]) = m /\ m # NULL
  BY <1>2, <1>6, <1>7, <1>8, RelayAssumption
<1> QED
  BY <1>9 DEF find

\* The directory refuses the port: the session finishes and its name goes.
LEMMA RefusedStep ==
  ASSUME RelayInv, NEW s \in RelaySession, NEW n \in Requests, ~registered_(s),
         RegisterRefused(s, n)
  PROVE  RelayInv'
<1> DEFINE Closing == find(n) \cup find(get_peer_identifier(n))
<1>1. TypeOK /\ n \in Name /\ n # NULL
  BY RelayAssumption DEF RelayInv
<1>2. Run(s, "none", Closing, Waiting(n), {}) /\ Forget(s, find(n))
  BY DEF RegisterRefused, Superseded
<1>3. get_peer_identifier(n) \in Name \cup {NULL}
  <2>1. CASE n.mode \in {"PTP_CONNECT", "PTP_ACCEPT"}
    BY <1>1, <2>1, PeerOfPeer
  <2>2. CASE n.mode \notin {"PTP_CONNECT", "PTP_ACCEPT"}
    BY <2>2, Zenon DEF get_peer_identifier
  <2> QED
    BY <2>1, <2>2
<1>4. \A x \in Closing : x \in RelaySession /\ registered_(x)
  BY <1>1, <1>3, FoundIsRegistered
<1> HIDE DEF Closing
<1>5. find(n) \subseteq Closing /\ find(get_peer_identifier(n)) \subseteq Closing
  BY DEF Closing
<1>6. /\ pc' \in [RelaySession -> Pc]
      /\ id' \in [RelaySession -> Requests \cup {NULL}]
      /\ closed_' \in [RelaySession -> BOOLEAN]
      /\ superseded_' \in [RelaySession -> BOOLEAN]
      /\ established_' \in [RelaySession -> BOOLEAN]
      /\ write_queue_' \in [RelaySession -> 0..(data_queue_size_limit - 1)]
      /\ writing' \in [RelaySession -> BOOLEAN]
      /\ active_count_' \in 0..max_num_sessions
      /\ pc'[s] = "none" /\ ~established_'[s]
      /\ \A x \in RelaySession : x # s =>
           /\ id'[x] = id[x]
           /\ established_'[x] = established_[x]
           /\ superseded_'[x] <=> superseded_[x] \/ x \in find(n)
      /\ Stages'
  BY <1>2, <1>4, <1>5, Leaves
<1>7. \A m \in Name : sessions_'[m] = IF m = n THEN NULL ELSE sessions_[m]
  BY <1>1 DEF RegisterRefused, TypeOK
<1>8. TypeOK'
  <2>1. /\ sessions_' \in [Name -> RelaySession \cup {NULL}]
        /\ waiters_' \subseteq Name \X RelaySession
        /\ directory' \subseteq {"pdp", "ptp"} \X Address
    BY <1>1 DEF RegisterRefused, TypeOK, WithoutWaiters
  <2> QED
    BY <1>6, <2>1 DEF TypeOK
<1>9. NamesLeadToLiveSessions'
  <2>1. ASSUME NEW m \in Name, sessions_'[m] # NULL
        PROVE  (registered_(sessions_[m]) /\ id[sessions_[m]] = m)'
    <3>1. PICK y \in RelaySession : y = sessions_[m] /\ y = sessions_'[m]
      BY <1>1, <1>7, <2>1 DEF TypeOK
    <3>2. registered_(y) /\ id[y] = m
      BY <1>7, <2>1, <3>1 DEF RelayInv, NamesLeadToLiveSessions
    <3>3. id'[y] = m /\ registered_(y)'
      BY <1>1, <1>2, <1>6, <3>2, RunKeeps
    <3> QED
      BY <3>1, <3>3 DEF registered_
  <2>2. ASSUME NEW x \in RelaySession, registered_(x)'
        PROVE  superseded_'[x] <=> sessions_'[id'[x]] # x
    <3>1. x # s
      BY <1>6, <2>2 DEF registered_
    <3>2. registered_(x) /\ id'[x] = id[x]
      BY <1>1, <1>2, <1>6, <2>2, <3>1, RunKeeps
    <3>3. superseded_[x] <=> sessions_[id[x]] # x
      BY <3>2 DEF RelayInv, NamesLeadToLiveSessions
    <3>4. id[x] \in Name
      BY <1>1, <3>2, RelayAssumption DEF RelayInv, Stages, StageOf, TypeOK, registered_
    <3>5. x \in find(n) <=> sessions_[n] = x
      BY <1>1, FindIs, RelayAssumption
    <3>6. sessions_[n] = x => id[x] = n
      BY <1>1, RelayAssumption DEF RelayInv, NamesLeadToLiveSessions
    <3>7. superseded_'[x] <=> superseded_[x] \/ x \in find(n)
      BY <1>6, <3>1
    <3> QED
      BY <1>7, <3>2, <3>3, <3>4, <3>5, <3>6, <3>7, RelayAssumption
  <2> QED
    BY <2>1, <2>2 DEF NamesLeadToLiveSessions
<1>10. NoLostListener'
  <2>1. ASSUME NEW x \in RelaySession, pc'[x] = "await"
        PROVE  /\ sessions_'[get_listen_session_name(id'[x])] = NULL
               /\ <<get_listen_session_name(id'[x]), x>> \in waiters_'
    <3>1. x # s /\ pc[x] = "await" /\ x \notin Waiting(n) /\ id'[x] = id[x]
      BY <1>1, <1>2, <1>6, <2>1, RunKeeps
    <3> DEFINE listen == get_listen_session_name(id[x])
    <3>2. sessions_[listen] = NULL /\ <<listen, x>> \in waiters_
      BY <3>1 DEF RelayInv, NoLostListener
    <3>3. listen \in Name
      BY <1>1, <3>2 DEF TypeOK
    <3> HIDE DEF listen
    <3>4. listen # n
      BY <3>1, <3>2 DEF Waiting
    <3>5. sessions_'[listen] = NULL /\ <<listen, x>> \in waiters_'
      BY <1>7, <3>1, <3>2, <3>3, <3>4 DEF RegisterRefused, WithoutWaiters
    <3> QED
      BY <3>1, <3>5 DEF listen
  <2>2. ASSUME NEW w \in waiters_' PROVE pc'[w[2]] \in {"await", "woken"}
    <3>1. w \in waiters_ /\ w[2] # s /\ w[2] \in RelaySession
      BY <1>1, <2>2 DEF RegisterRefused, WithoutWaiters, TypeOK
    <3>2. pc[w[2]] \in {"await", "woken"}
      BY <3>1 DEF RelayInv, NoLostListener
    <3> QED
      BY <1>1, <1>2, <3>1, <3>2, RunKeeps
  <2> QED
    BY <2>1, <2>2 DEF NoLostListener
<1>11. BondedHasPeer'
  BY <1>1, <1>2, <1>5, <1>6, <1>7, PeersOutliveName
<1>12. DirectoryIsBacked'
  <2> SUFFICES ASSUME NEW e \in directory'
               PROVE  \E x \in RelaySession : registered_(x)' /\ Entry(id'[x]) = e
    BY DEF DirectoryIsBacked, registered_
  <2>1. PICK x \in RelaySession : registered_(x) /\ Entry(id[x]) = e
    BY DEF RegisterRefused, RelayInv, DirectoryIsBacked
  <2> QED
    BY <1>1, <1>2, <1>6, <2>1, RunKeeps
<1> QED
  BY <1>6, <1>8, <1>9, <1>10, <1>11, <1>12 DEF RelayInv

\* A session that never registered finishes: nobody else is concerned.
LEMMA FinishUnregisteredStep ==
  ASSUME RelayInv, NEW s \in RelaySession, ~registered_(s), FinishUnregistered(s)
  PROVE  RelayInv'
<1>1. TypeOK
  BY DEF RelayInv
<1>2. Run(s, "none", {}, {}, {}) /\ Forget(s, {}) /\ UNCHANGED <<sessions_, directory>>
  BY DEF FinishUnregistered
<1>3. /\ pc' \in [RelaySession -> Pc]
      /\ id' \in [RelaySession -> Requests \cup {NULL}]
      /\ closed_' \in [RelaySession -> BOOLEAN]
      /\ superseded_' \in [RelaySession -> BOOLEAN]
      /\ established_' \in [RelaySession -> BOOLEAN]
      /\ write_queue_' \in [RelaySession -> 0..(data_queue_size_limit - 1)]
      /\ writing' \in [RelaySession -> BOOLEAN]
      /\ active_count_' \in 0..max_num_sessions
      /\ pc'[s] = "none" /\ ~established_'[s]
      /\ \A x \in RelaySession : x # s =>
           /\ id'[x] = id[x]
           /\ established_'[x] = established_[x]
           /\ superseded_'[x] <=> superseded_[x]
      /\ Stages'
  BY <1>2, Leaves
<1>4. TypeOK'
  BY <1>1, <1>2, <1>3 DEF TypeOK, FinishUnregistered
<1>5. NamesLeadToLiveSessions'
  <2>1. ASSUME NEW m \in Name, sessions_'[m] # NULL
        PROVE  (registered_(sessions_[m]) /\ id[sessions_[m]] = m)'
    <3>1. PICK y \in RelaySession : y = sessions_[m] /\ y = sessions_'[m]
      BY <1>1, <1>2, <2>1 DEF TypeOK
    <3>2. registered_(y) /\ id[y] = m
      BY <1>2, <2>1, <3>1 DEF RelayInv, NamesLeadToLiveSessions
    <3>3. id'[y] = m /\ registered_(y)'
      BY <1>1, <1>2, <1>3, <3>2, RunKeeps
    <3> QED
      BY <3>1, <3>3 DEF registered_
  <2>2. ASSUME NEW x \in RelaySession, registered_(x)'
        PROVE  superseded_'[x] <=> sessions_'[id'[x]] # x
    <3>1. x # s
      BY <1>3, <2>2 DEF registered_
    <3>2. registered_(x)
      BY <1>1, <1>2, <2>2, <3>1, RunKeeps
    <3> QED
      BY <1>2, <1>3, <3>1, <3>2 DEF RelayInv, NamesLeadToLiveSessions
  <2> QED
    BY <2>1, <2>2 DEF NamesLeadToLiveSessions
<1>6. NoLostListener'
  <2>1. ASSUME NEW x \in RelaySession, pc'[x] = "await"
        PROVE  /\ sessions_'[get_listen_session_name(id'[x])] = NULL
               /\ <<get_listen_session_name(id'[x]), x>> \in waiters_'
    <3>1. x # s /\ pc[x] = "await" /\ id'[x] = id[x]
      BY <1>1, <1>2, <1>3, <2>1, RunKeeps
    <3> QED
      BY <1>2, <3>1 DEF RelayInv, NoLostListener, FinishUnregistered
  <2>2. ASSUME NEW w \in waiters_' PROVE pc'[w[2]] \in {"await", "woken"}
    <3>1. w \in waiters_ /\ w[2] # s /\ w[2] \in RelaySession
      BY <1>1, <2>2 DEF FinishUnregistered, TypeOK
    <3>2. pc[w[2]] \in {"await", "woken"}
      BY <3>1 DEF RelayInv, NoLostListener
    <3> QED
      BY <1>1, <1>2, <3>1, <3>2, RunKeeps
  <2> QED
    BY <2>1, <2>2 DEF NoLostListener
<1>7. BondedHasPeer'
  <2> SUFFICES ASSUME NEW x \in RelaySession, established_'[x], ~closed_'[x]
               PROVE  (find(get_peer_identifier(id[x])) # {})'
    BY DEF BondedHasPeer
  <2>1. x # s /\ established_[x] /\ id'[x] = id[x] /\ ~closed_[x]
    BY <1>1, <1>2, <1>3, RunKeeps
  <2> QED
    BY <1>2, <2>1 DEF RelayInv, BondedHasPeer, find
<1>8. DirectoryIsBacked'
  <2> SUFFICES ASSUME NEW e \in directory'
               PROVE  \E x \in RelaySession : registered_(x)' /\ Entry(id'[x]) = e
    BY DEF DirectoryIsBacked, registered_
  <2>1. PICK x \in RelaySession : registered_(x) /\ Entry(id[x]) = e
    BY <1>2 DEF RelayInv, DirectoryIsBacked
  <2> QED
    BY <1>1, <1>2, <1>3, <2>1, RunKeeps
<1> QED
  BY <1>3, <1>4, <1>5, <1>6, <1>7, <1>8 DEF RelayInv

(***************************************************************************)
(* A registered session finishes.  It gives its name up only if it still   *)
(* has it, and then closes its peer.                                       *)
(***************************************************************************)
LEMMA FinishStep ==
  ASSUME RelayInv, NEW s \in RelaySession, registered_(s), NEW To,
         \A x \in To : x \in RelaySession /\ registered_(x),
         Finish(s, To)
  PROVE  RelayInv'
<1> DEFINE n == id[s]
<1> DEFINE Closing == finish_closes(s)
<1>1. TypeOK /\ n \in Name /\ n # NULL
  BY RelayAssumption DEF RelayInv, TypeOK, Stages, StageOf, registered_
<1>2. Run(s, "none", Closing, {}, To) /\ Forget(s, {})
  BY DEF Finish
<1>3. get_peer_identifier(n) \in Name \cup {NULL}
  <2>1. CASE n.mode \in {"PTP_CONNECT", "PTP_ACCEPT"}
    BY <1>1, <2>1, PeerOfPeer
  <2>2. CASE n.mode \notin {"PTP_CONNECT", "PTP_ACCEPT"}
    BY <2>2, Zenon DEF get_peer_identifier
  <2> QED
    BY <2>1, <2>2
<1>4. \A x \in Closing : x \in RelaySession /\ registered_(x)
  BY <1>1, <1>3, FoundIsRegistered DEF finish_closes
<1>5. superseded_[s] <=> sessions_[n] # s
  BY DEF RelayInv, NamesLeadToLiveSessions
<1>6. ~superseded_[s] => find(get_peer_identifier(n)) \subseteq Closing
  BY DEF finish_closes
<1>7. \A m \in Name : sessions_'[m] = IF sessions_[m] = s THEN NULL ELSE sessions_[m]
  <2>1. \A m \in Name : sessions_[m] = s => m = n
    BY RelayAssumption DEF RelayInv, NamesLeadToLiveSessions
  <2>2. CASE superseded_[s]
    BY <1>5, <2>1, <2>2 DEF Finish, finish_sessions
  <2>3. CASE ~superseded_[s]
    BY <1>1, <1>5, <2>1, <2>3 DEF Finish, finish_sessions, remove, TypeOK
  <2> QED
    BY <2>2, <2>3
<1>8. \A m \in Name : m # n => sessions_'[m] = sessions_[m]
  BY <1>7, RelayAssumption DEF RelayInv, NamesLeadToLiveSessions
<1> HIDE DEF n, Closing
<1>9. /\ pc' \in [RelaySession -> Pc]
      /\ id' \in [RelaySession -> Requests \cup {NULL}]
      /\ closed_' \in [RelaySession -> BOOLEAN]
      /\ superseded_' \in [RelaySession -> BOOLEAN]
      /\ established_' \in [RelaySession -> BOOLEAN]
      /\ write_queue_' \in [RelaySession -> 0..(data_queue_size_limit - 1)]
      /\ writing' \in [RelaySession -> BOOLEAN]
      /\ active_count_' \in 0..max_num_sessions
      /\ pc'[s] = "none" /\ ~established_'[s]
      /\ \A x \in RelaySession : x # s =>
           /\ id'[x] = id[x]
           /\ established_'[x] = established_[x]
           /\ superseded_'[x] <=> superseded_[x]
      /\ Stages'
  BY <1>2, <1>4, Leaves
<1>10. TypeOK'
  <2>1. sessions_' \in [Name -> RelaySession \cup {NULL}]
    BY <1>1 DEF Finish, finish_sessions, remove, TypeOK
  <2>2. /\ waiters_' \subseteq Name \X RelaySession
        /\ directory' \subseteq {"pdp", "ptp"} \X Address
    BY <1>1 DEF Finish, finish_directory, TypeOK
  <2> QED
    BY <1>9, <2>1, <2>2 DEF TypeOK
<1>11. NamesLeadToLiveSessions'
  <2>1. ASSUME NEW m \in Name, sessions_'[m] # NULL
        PROVE  (registered_(sessions_[m]) /\ id[sessions_[m]] = m)'
    <3>1. PICK y \in RelaySession : y = sessions_[m] /\ y = sessions_'[m] /\ y # s
      BY <1>1, <1>7, <2>1 DEF TypeOK
    <3>2. registered_(y) /\ id[y] = m
      BY <1>7, <2>1, <3>1 DEF RelayInv, NamesLeadToLiveSessions
    <3>3. id'[y] = m /\ registered_(y)'
      BY <1>1, <1>2, <1>9, <3>1, <3>2, RunKeeps
    <3> QED
      BY <3>1, <3>3 DEF registered_
  <2>2. ASSUME NEW x \in RelaySession, registered_(x)'
        PROVE  superseded_'[x] <=> sessions_'[id'[x]] # x
    <3>1. x # s
      BY <1>9, <2>2 DEF registered_
    <3>2. registered_(x)
      BY <1>1, <1>2, <2>2, <3>1, RunKeeps
    <3>3. superseded_[x] <=> sessions_[id[x]] # x
      BY <3>2 DEF RelayInv, NamesLeadToLiveSessions
    <3>4. id[x] \in Name
      BY <1>1, <3>2, RelayAssumption DEF RelayInv, Stages, StageOf, TypeOK, registered_
    <3> QED
      BY <1>7, <1>9, <3>1, <3>3, <3>4, RelayAssumption
  <2> QED
    BY <2>1, <2>2 DEF NamesLeadToLiveSessions
<1>12. NoLostListener'
  <2>1. ASSUME NEW x \in RelaySession, pc'[x] = "await"
        PROVE  /\ sessions_'[get_listen_session_name(id'[x])] = NULL
               /\ <<get_listen_session_name(id'[x]), x>> \in waiters_'
    <3>1. x # s /\ pc[x] = "await" /\ id'[x] = id[x]
      BY <1>1, <1>2, <1>9, <2>1, RunKeeps
    <3> DEFINE listen == get_listen_session_name(id[x])
    <3>2. sessions_[listen] = NULL /\ <<listen, x>> \in waiters_
      BY <3>1 DEF RelayInv, NoLostListener
    <3>3. listen \in Name
      BY <1>1, <3>2 DEF TypeOK
    <3> HIDE DEF listen
    <3>4. sessions_'[listen] = NULL /\ <<listen, x>> \in waiters_'
      BY <1>7, <3>2, <3>3 DEF Finish
    <3> QED
      BY <3>1, <3>4 DEF listen
  <2>2. ASSUME NEW w \in waiters_' PROVE pc'[w[2]] \in {"await", "woken"}
    <3>1. w \in waiters_ /\ w[2] \in RelaySession
      BY <1>1, <2>2 DEF Finish, TypeOK
    <3>2. pc[w[2]] \in {"await", "woken"}
      BY <3>1 DEF RelayInv, NoLostListener
    <3>3. w[2] # s
      BY <3>2 DEF registered_
    <3> QED
      BY <1>1, <1>2, <3>1, <3>2, <3>3, RunKeeps
  <2> QED
    BY <2>1, <2>2 DEF NoLostListener
<1>13. BondedHasPeer'
  <2>1. CASE ~superseded_[s]
    BY <1>1, <1>2, <1>6, <1>8, <1>9, <2>1, PeersOutliveName
  <2>2. CASE superseded_[s]
    <3> SUFFICES ASSUME NEW x \in RelaySession, established_'[x], ~closed_'[x]
                 PROVE  (find(get_peer_identifier(id[x])) # {})'
      BY DEF BondedHasPeer
    <3>1. x # s /\ established_[x] /\ id'[x] = id[x] /\ ~closed_[x]
      BY <1>1, <1>2, <1>9, RunKeeps
    <3>2. sessions_' = sessions_
      BY <2>2 DEF Finish, finish_sessions
    <3> QED
      BY <3>1, <3>2 DEF RelayInv, BondedHasPeer, find
  <2> QED
    BY <2>1, <2>2
<1>14. DirectoryIsBacked'
  <2> SUFFICES ASSUME NEW e \in directory'
               PROVE  \E x \in RelaySession : registered_(x)' /\ Entry(id'[x]) = e
    BY DEF DirectoryIsBacked, registered_
  <2>1. e \in directory /\ e # Entry(id[s])
    BY DEF Finish, finish_directory
  <2>2. PICK x \in RelaySession : registered_(x) /\ Entry(id[x]) = e
    BY <2>1 DEF RelayInv, DirectoryIsBacked
  <2>3. x # s
    BY <2>1, <2>2
  <2> QED
    BY <1>1, <1>2, <1>9, <2>2, <2>3, RunKeeps
<1> QED
  BY <1>9, <1>10, <1>11, <1>12, <1>13, <1>14 DEF RelayInv

-----------------------------------------------------------------------------
(***************************************************************************)
(* Steps that leave the registry, the waiters and the directory alone      *)
(***************************************************************************)
LEMMA RegistryUntouched ==
  ASSUME RelayInv, TypeOK', Stages',
         UNCHANGED <<id, superseded_, established_, sessions_, waiters_, directory>>,
         \A x \in RelaySession :
           /\ registered_(x)' <=> registered_(x)
           /\ pc'[x] = "await" => pc[x] = "await"
           /\ pc[x] \in {"await", "woken"} => pc'[x] \in {"await", "woken"}
           /\ closed_[x] => closed_'[x]
  PROVE  RelayInv'
<1>1. NamesLeadToLiveSessions'
  <2>1. ASSUME NEW m \in Name, sessions_'[m] # NULL
        PROVE  (registered_(sessions_[m]) /\ id[sessions_[m]] = m)'
    <3>1. PICK y \in RelaySession : y = sessions_[m] /\ y = sessions_'[m]
      BY <2>1 DEF TypeOK
    <3>2. registered_(y) /\ id[y] = m
      BY <2>1, <3>1 DEF RelayInv, NamesLeadToLiveSessions
    <3>3. registered_(y)' /\ id'[y] = m
      BY <3>2
    <3> QED
      BY <3>1, <3>3 DEF registered_
  <2>2. ASSUME NEW x \in RelaySession, registered_(x)'
        PROVE  superseded_'[x] <=> sessions_'[id'[x]] # x
    BY <2>2 DEF RelayInv, NamesLeadToLiveSessions
  <2> QED
    BY <2>1, <2>2 DEF NamesLeadToLiveSessions
<1>2. NoLostListener'
  <2>1. \A w \in waiters_ : w[2] \in RelaySession
    BY DEF RelayInv, TypeOK
  <2> QED
    BY <2>1 DEF RelayInv, NoLostListener
<1>3. BondedHasPeer'
  BY DEF RelayInv, BondedHasPeer, find
<1>4. DirectoryIsBacked'
  <2> SUFFICES ASSUME NEW e \in directory'
               PROVE  \E x \in RelaySession : registered_(x)' /\ Entry(id'[x]) = e
    BY DEF DirectoryIsBacked, registered_
  <2> QED
    BY DEF RelayInv, DirectoryIsBacked
<1> QED
  BY <1>1, <1>2, <1>3, <1>4 DEF RelayInv

\* run() goes on with the forward loop, or the writer closes its session.
LEMMA RunOnStep ==
  ASSUME RelayInv, NEW s \in RelaySession \cup {NULL}, NEW p, NEW Closing, NEW To,
         s \in RelaySession => registered_(s) /\ p = "forward",
         \A x \in Closing \cup To : x \in RelaySession /\ registered_(x),
         Run(s, p, Closing, {}, To),
         UNCHANGED <<id, superseded_, established_, sessions_, waiters_, directory,
                     active_count_>>
  PROVE  RelayInv'
<1>1. TypeOK /\ Stages /\ (s \in RelaySession => p \in Pc)
  BY DEF RelayInv, Pc
<1>2. TypeOK'
  BY <1>1, RunTypes DEF TypeOK
<1>3. ASSUME NEW x \in RelaySession
      PROVE  /\ StageOf(x)'
             /\ registered_(x)' <=> registered_(x)
             /\ pc'[x] = "await" => pc[x] = "await"
             /\ pc[x] \in {"await", "woken"} => pc'[x] \in {"await", "woken"}
             /\ closed_[x] => closed_'[x]
  <2>1. CASE x # s
    BY <1>1, <2>1, StageKept, RunKeeps
  <2>2. CASE x = s
    <3>1. pc'[x] = "forward" /\ (closed_[x] => closed_'[x])
      BY <1>1, <2>2, RunMoves
    <3> QED
      BY <1>1, <2>2, <3>1 DEF Stages, StageOf, registered_
  <2> QED
    BY <2>1, <2>2
<1> QED
  BY <1>2, <1>3, RegistryUntouched DEF Stages

\* A result becomes ready, or a connection is accepted.
LEMMA ReadyStep ==
  ASSUME RelayInv, NEW s \in RelaySession, NEW p,
         \/ pc[s] = "none" /\ p = "init"
         \/ pc[s] = "await" /\ p = "woken"
         \/ pc[s] = "bond" /\ p = "signalled"
         \/ pc[s] = "forward" /\ p \in {"got", "failed"},
         pc' = [pc EXCEPT ![s] = p],
         active_count_' \in 0..max_num_sessions,
         UNCHANGED <<id, closed_, superseded_, established_, write_queue_, writing,
                     sessions_, waiters_, directory>>
  PROVE  RelayInv'
<1>1. TypeOK /\ Stages /\ p \in Pc
  BY DEF RelayInv, Pc
<1>2. TypeOK'
  BY <1>1 DEF TypeOK
<1>3. ASSUME NEW x \in RelaySession
      PROVE  /\ StageOf(x)'
             /\ registered_(x)' <=> registered_(x)
             /\ pc'[x] = "await" => pc[x] = "await"
             /\ pc[x] \in {"await", "woken"} => pc'[x] \in {"await", "woken"}
  <2>1. pc'[x] = IF x = s THEN p ELSE pc[x]
    BY <1>1 DEF TypeOK
  <2> QED
    BY <1>1, <2>1 DEF Stages, StageOf, registered_
<1> QED
  BY <1>2, <1>3, RegistryUntouched DEF Stages

\* The writer of a session takes a buffer, or is done with one.
LEMMA WriterStep ==
  ASSUME RelayInv, NEW s \in RelaySession, WriterTakes(s) \/ WriteCompletes(s)
  PROVE  RelayInv'
<1>1. TypeOK /\ Stages
  BY DEF RelayInv
<1>2. UNCHANGED <<pc, id, closed_, superseded_, established_, sessions_, waiters_,
                  directory, active_count_>>
  BY DEF WriterTakes, WriteCompletes
<1>3. writing' \in [RelaySession -> BOOLEAN]
  BY <1>1 DEF WriterTakes, WriteCompletes, TypeOK
<1>4. write_queue_' \in [RelaySession -> 0..(data_queue_size_limit - 1)]
  <2>1. write_queue_[s] \in 0..(data_queue_size_limit - 1)
    BY <1>1 DEF TypeOK
  <2>2. CASE WriterTakes(s)
    <3>1. write_queue_[s] - 1 \in 0..(data_queue_size_limit - 1)
      BY <2>1, <2>2, RelayAssumption DEF WriterTakes
    <3> QED
      BY <1>1, <2>2, <3>1 DEF WriterTakes, TypeOK
  <2>3. CASE WriteCompletes(s)
    BY <1>1, <2>3 DEF WriteCompletes, TypeOK
  <2> QED
    BY <2>2, <2>3
<1>5. TypeOK'
  BY <1>1, <1>2, <1>3, <1>4 DEF TypeOK
<1>6. registered_(s)
  <2>1. writing[s] \/ write_queue_[s] # 0
    BY <1>1 DEF WriterTakes, WriteCompletes, TypeOK
  <2> QED
    BY <1>1, <2>1 DEF Stages, StageOf
<1>7. ASSUME NEW x \in RelaySession
      PROVE  StageOf(x)' /\ (registered_(x)' <=> registered_(x))
  <2>1. x # s => write_queue_'[x] = write_queue_[x] /\ writing'[x] = writing[x]
    BY <1>1 DEF WriterTakes, WriteCompletes, TypeOK
  <2> QED
    BY <1>1, <1>2, <1>6, <2>1 DEF Stages, StageOf, registered_
<1> QED
  BY <1>2, <1>5, <1>7, RegistryUntouched DEF Stages

\* A connect finds no listener and waits for one.
LEMMA AwaitStep ==
  ASSUME RelayInv, NEW s \in RelaySession, NEW n \in Requests,
         pc[s] = "init", n.mode = "PTP_CONNECT",
         find(get_listen_session_name(n)) = {},
         pc' = [pc EXCEPT ![s] = "await"],
         id' = [id EXCEPT ![s] = n],
         waiters_' = waiters_ \cup {<<get_listen_session_name(n), s>>},
         UNCHANGED <<closed_, superseded_, established_, write_queue_, writing,
                     sessions_, directory, active_count_>>
  PROVE  RelayInv'
<1>1. TypeOK /\ Stages /\ n \in Name /\ n # NULL /\ "await" \in Pc
  BY RelayAssumption DEF RelayInv, Pc
<1>2. PICK listen \in Name : listen = get_listen_session_name(n)
  BY <1>1, DerivedNames
<1>3. sessions_[listen] = NULL
  BY <1>1, <1>2, FindIs
<1>4. TypeOK'
  BY <1>1, <1>2 DEF TypeOK
<1>5. \A x \in RelaySession :
        /\ pc'[x] = IF x = s THEN "await" ELSE pc[x]
        /\ id'[x] = IF x = s THEN n ELSE id[x]
        /\ registered_(x)' <=> registered_(x)
  BY <1>1 DEF TypeOK, registered_
<1>6. ASSUME NEW x \in RelaySession PROVE StageOf(x)'
  BY <1>1, <1>5 DEF Stages, StageOf, registered_
<1>7. NamesLeadToLiveSessions'
  <2>1. ASSUME NEW m \in Name, sessions_'[m] # NULL
        PROVE  (registered_(sessions_[m]) /\ id[sessions_[m]] = m)'
    <3>1. PICK y \in RelaySession : y = sessions_[m] /\ y = sessions_'[m]
      BY <1>1, <2>1 DEF TypeOK
    <3>2. registered_(y) /\ id[y] = m
      BY <2>1, <3>1 DEF RelayInv, NamesLeadToLiveSessions
    <3>3. registered_(y)' /\ id'[y] = m
      BY <1>5, <3>2 DEF registered_
    <3> QED
      BY <3>1, <3>3 DEF registered_
  <2>2. ASSUME NEW x \in RelaySession, registered_(x)'
        PROVE  superseded_'[x] <=> sessions_'[id'[x]] # x
    <3>1. x # s /\ registered_(x)
      BY <1>5, <2>2 DEF registered_
    <3> QED
      BY <1>5, <3>1 DEF RelayInv, NamesLeadToLiveSessions
  <2> QED
    BY <2>1, <2>2 DEF NamesLeadToLiveSessions
<1>8. NoLostListener'
  <2>1. ASSUME NEW x \in RelaySession, pc'[x] = "await"
        PROVE  /\ sessions_'[get_listen_session_name(id'[x])] = NULL
               /\ <<get_listen_session_name(id'[x]), x>> \in waiters_'
    BY <1>2, <1>3, <1>5, <2>1 DEF RelayInv, NoLostListener
  <2>2. ASSUME NEW w \in waiters_' PROVE pc'[w[2]] \in {"await", "woken"}
    <3>1. w \in waiters_ => w[2] \in RelaySession /\ pc[w[2]] \in {"await", "woken"}
      BY <1>1 DEF RelayInv, NoLostListener, TypeOK
    <3> QED
      BY <1>5, <2>2, <3>1
  <2> QED
    BY <2>1, <2>2 DEF NoLostListener
<1>9. BondedHasPeer'
  <2> SUFFICES ASSUME NEW x \in RelaySession, established_'[x], ~closed_'[x]
               PROVE  (find(get_peer_identifier(id[x])) # {})'
    BY DEF BondedHasPeer
  <2>1. x # s
    BY <1>1 DEF Stages, StageOf, registered_
  <2> QED
    BY <1>5, <2>1 DEF RelayInv, BondedHasPeer, find
<1>10. DirectoryIsBacked'
  <2> SUFFICES ASSUME NEW e \in directory'
               PROVE  \E x \in RelaySession : registered_(x)' /\ Entry(id'[x]) = e
    BY DEF DirectoryIsBacked, registered_
  <2>1. PICK x \in RelaySession : registered_(x) /\ Entry(id[x]) = e
    BY DEF RelayInv, DirectoryIsBacked
  <2>2. x # s
    BY <2>1 DEF registered_
  <2> QED
    BY <1>5, <2>1, <2>2
<1> QED
  BY <1>4, <1>6, <1>7, <1>8, <1>9, <1>10 DEF RelayInv, Stages

-----------------------------------------------------------------------------
(***************************************************************************)
(* The invariant                                                           *)
(***************************************************************************)

\* The invariant holds when the relay starts.
LEMMA InitRelayInv == Init => RelayInv
<1> SUFFICES ASSUME Init PROVE RelayInv
  OBVIOUS
<1>1. TypeOK
  BY RelayAssumption DEF Init, TypeOK, Pc
<1>2. Stages
  BY DEF Init, Stages, StageOf, registered_
<1>3. NamesLeadToLiveSessions /\ NoLostListener /\ BondedHasPeer /\ DirectoryIsBacked
  BY DEF Init, NamesLeadToLiveSessions, NoLostListener, BondedHasPeer, DirectoryIsBacked,
         registered_
<1> QED
  BY <1>1, <1>2, <1>3 DEF RelayInv

\* A connect whose listener is there.
LEMMA ConnectToStep ==
  ASSUME RelayInv, NEW s \in RelaySession, NEW n \in Requests, ~registered_(s),
         n.mode = "PTP_CONNECT",
         ConnectTo(s, n, find(get_listen_session_name(n)))
  PROVE  RelayInv'
<1>1. n \in Name /\ get_listen_session_name(n) \in Name
  BY DerivedNames, RelayAssumption
<1>2. \A x \in find(get_listen_session_name(n)) : x \in RelaySession /\ registered_(x)
  BY <1>1, FoundIsRegistered
<1> QED
  BY <1>2, RegistersStep, RefusedStep DEF ConnectTo

\* run() of one session up to its next co_await.
LEMMA ReadInitStep ==
  ASSUME RelayInv, NEW s \in RelaySession, NEW n \in Requests, ReadInit(s, n)
  PROVE  RelayInv'
<1>1. CASE InitSocket(s, n)
  <2>1. ~registered_(s)
    BY <1>1 DEF InitSocket, registered_
  <2> QED
    BY <1>1, <2>1, RegistersStep, RefusedStep DEF InitSocket
<1>2. CASE InitConnect(s, n)
  <2>1. ~registered_(s)
    BY <1>2 DEF InitConnect, registered_
  <2>2. CASE ConnectTo(s, n, find(get_listen_session_name(n)))
    BY <1>2, <2>1, <2>2, ConnectToStep DEF InitConnect
  <2>3. CASE FinishUnregistered(s)
    BY <2>1, <2>3, FinishUnregisteredStep
  <2> QED
    BY <1>2, <2>2, <2>3, AwaitStep DEF InitConnect
<1>3. CASE InitAccept(s, n)
  <2>1. ~registered_(s) /\ n.mode = "PTP_ACCEPT"
    BY <1>3 DEF InitAccept, registered_
  <2>2. n \in Name /\ get_connect_session_name(n) \in Name
    BY <2>1, DerivedNames, RelayAssumption
  <2>3. \A x \in AwaitsAccept(n) : x \in RelaySession /\ registered_(x)
    BY <2>2, FoundIsRegistered DEF AwaitsAccept
  <2>4. ASSUME AwaitsAccept(n) # {},
               Registers(s, n, "forward", AwaitsAccept(n) \cup {s}, AwaitsAccept(n) \cup {s})
        PROVE  RelayInv'
    BY <2>1, <2>3, <2>4, RegistersStep
  <2> QED
    BY <1>3, <2>1, <2>4, RefusedStep, FinishUnregisteredStep DEF InitAccept
<1> QED
  BY <1>1, <1>2, <1>3 DEF ReadInit

\* Every step of the relay keeps the invariant.
LEMMA RelayInvStep == RelayInv /\ [Next]_vars => RelayInv'
<1> SUFFICES ASSUME RelayInv, [Next]_vars PROVE RelayInv'
  OBVIOUS
<1>1. CASE UNCHANGED vars \/ AcceptRefused
  BY <1>1
  DEF AcceptRefused, vars, RelayInv, TypeOK, Stages, StageOf, NamesLeadToLiveSessions,
      NoLostListener, BondedHasPeer, DirectoryIsBacked, registered_, find
<1>2. ASSUME NEW s \in RelaySession, Accept(s) PROVE RelayInv'
  <2>1. active_count_' \in 0..max_num_sessions
    BY <1>2, RelayAssumption DEF Accept, RelayInv, TypeOK
  <2> QED
    BY <1>2, <2>1, ReadyStep DEF Accept
<1>3. ASSUME NEW s \in RelaySession, InitFails(s) PROVE RelayInv'
  BY <1>3, FinishUnregisteredStep DEF InitFails, registered_
<1>4. ASSUME NEW s \in RelaySession, AwaitTimesOut(s) \/ BondTimesOut(s)
      PROVE  RelayInv'
  BY <1>4, ReadyStep DEF AwaitTimesOut, BondTimesOut, RelayInv, TypeOK
<1>5. ASSUME NEW s \in RelaySession, BlockArrives(s) \/ ReadFails(s)
      PROVE  RelayInv'
  BY <1>5, ReadyStep DEF BlockArrives, ReadFails, RelayInv, TypeOK
<1>6. ASSUME NEW s \in RelaySession, AwaitResumes(s) PROVE RelayInv'
  <2>1. ~registered_(s) /\ id[s] \in Requests /\ id[s].mode = "PTP_CONNECT"
    BY <1>6 DEF AwaitResumes, RelayInv, TypeOK, Stages, StageOf, registered_
  <2> QED
    BY <1>6, <2>1, ConnectToStep, FinishUnregisteredStep DEF AwaitResumes
<1>7. ASSUME NEW s \in RelaySession, BondResumes(s) PROVE RelayInv'
  BY <1>7, RunOnStep, FinishStep DEF BondResumes, registered_
<1>8. ASSUME NEW s \in RelaySession, NEW n \in Name \cup {NULL}, Forwards(s, n)
      PROVE  RelayInv'
  <2>1. registered_(s)
    BY <1>8 DEF Forwards, registered_
  <2>2. \A x \in find(n) : x \in RelaySession /\ registered_(x)
    BY FoundIsRegistered
  <2> QED
    BY <1>8, <2>1, <2>2, RunOnStep, FinishStep DEF Forwards
<1>9. ASSUME NEW s \in RelaySession, ReadFailed(s) PROVE RelayInv'
  BY <1>9, FinishStep DEF ReadFailed, registered_
<1>10. ASSUME NEW s \in RelaySession, WriteFails(s) PROVE RelayInv'
  <2>1. registered_(s)
    BY <1>10 DEF WriteFails, RelayInv, Stages, StageOf
  <2> QED
    BY <1>10, <2>1, RunOnStep, RelayAssumption DEF WriteFails
<1> QED
  BY <1>1, <1>2, <1>3, <1>4, <1>5, <1>6, <1>7, <1>8, <1>9, <1>10, ReadInitStep, WriterStep
  DEF Next

\* The invariant holds in every state of the relay.
THEOREM RelayInvariant == Spec => []RelayInv
  BY InitRelayInv, RelayInvStep, PTL DEF Spec

(***************************************************************************)
(* State of the relay keeps its types; among them, that no write queue     *)
(* reaches the limit and that the relay never serves more than             *)
(* max_num_sessions at once.                                               *)
(***************************************************************************)
THEOREM RelayTypes == Spec => []TypeOK
<1>1. RelayInv => TypeOK
  BY DEF RelayInv
<1> QED
  BY <1>1, RelayInvariant, PTL

(***************************************************************************)
(* A name leads to a live session that goes by it, and a session loses its *)
(* name only to its successor, whatever finishes when.                     *)
(***************************************************************************)
THEOREM NamesAreGood == Spec => []NamesLeadToLiveSessions
<1>1. RelayInv => NamesLeadToLiveSessions
  BY DEF RelayInv
<1> QED
  BY <1>1, RelayInvariant, PTL

(***************************************************************************)
(* No two open sessions go by one name: of two, the one that does not have *)
(* the name was superseded, and superseding closes.                        *)
(***************************************************************************)
THEOREM NamesAreUnique == Spec => []OneOpenSessionPerName
<1>1. RelayInv => OneOpenSessionPerName
  <2> SUFFICES ASSUME RelayInv, NEW s \in RelaySession, NEW t \in RelaySession,
                      registered_(s), registered_(t), id[s] = id[t], s # t
               PROVE  closed_[s] \/ closed_[t]
    BY DEF OneOpenSessionPerName
  <2>1. superseded_[s] \/ superseded_[t]
    BY DEF RelayInv, NamesLeadToLiveSessions
  <2> QED
    BY <2>1 DEF RelayInv, Stages, StageOf
<1> QED
  BY <1>1, RelayInvariant, PTL

(***************************************************************************)
(* No connect sleeps while its listener is registered, and no timer of a   *)
(* connect that stopped waiting stays in waiters_.                         *)
(***************************************************************************)
THEOREM ListenersAreNoticed == Spec => []NoLostListener
<1>1. RelayInv => NoLostListener
  BY DEF RelayInv
<1> QED
  BY <1>1, RelayInvariant, PTL

(***************************************************************************)
(* An open end of an established stream has a session at its other end.    *)
(***************************************************************************)
THEOREM StreamsHaveTwoEnds == Spec => []BondedHasPeer
<1>1. RelayInv => BondedHasPeer
  BY DEF RelayInv
<1> QED
  BY <1>1, RelayInvariant, PTL

\* Every port in the directory is open at some session.
THEOREM PortsAreBacked == Spec => []DirectoryIsBacked
<1>1. RelayInv => DirectoryIsBacked
  BY DEF RelayInv
<1> QED
  BY <1>1, RelayInvariant, PTL
-----------------------------------------------------------------------------
(***************************************************************************)
(* active_count_                                                           *)
(***************************************************************************)
Alive == {s \in RelaySession : pc[s] # "none"}

\* Alive is finite, so its cardinality is a number.
LEMMA AliveIsFinite ==
  /\ IsFiniteSet(Alive)
  /\ IsFiniteSet(Alive')
  /\ Cardinality(Alive) \in Nat
<1>1. Alive \subseteq RelaySession /\ Alive' \subseteq RelaySession
  BY DEF Alive
<1>2. IsFiniteSet(Alive) /\ IsFiniteSet(Alive')
  BY <1>1, FS_Subset, RelayAssumption
<1> QED
  BY <1>2, FS_CardinalityType

\* A session that finishes gives its place back, once.
LEMMA PlaceGivenBack ==
  ASSUME TypeOK, ActiveCountIsExact, NEW s \in RelaySession, pc[s] # "none",
         NEW Closing, NEW W, NEW To,
         Run(s, "none", Closing, W, To), active_count_' = dec_active
  PROVE  ActiveCountIsExact'
<1>1. Alive' = Alive \ {s}
  <2>1. pc'[s] = "none"
    BY RunMoves
  <2>2. \A x \in RelaySession : x # s => (pc'[x] = "none" <=> pc[x] = "none")
    BY RunKeeps
  <2> QED
    BY <2>1, <2>2 DEF Alive
<1>2. s \in Alive
  BY DEF Alive
<1>3. Cardinality(Alive \ {s}) = Cardinality(Alive) - 1
  BY <1>2, AliveIsFinite, FS_RemoveElement
<1>4. Cardinality(Alive \ {s}) \in Nat
  BY <1>1, AliveIsFinite, FS_CardinalityType
<1>5. active_count_ = Cardinality(Alive)
  BY DEF ActiveCountIsExact, Alive
<1>6. active_count_' = Cardinality(Alive \ {s})
  BY <1>3, <1>4, <1>5, AliveIsFinite DEF dec_active
<1> QED
  BY <1>1, <1>6 DEF ActiveCountIsExact, Alive

\* Who neither comes nor goes leaves the count alone.
LEMMA PlacesKept ==
  ASSUME ActiveCountIsExact, UNCHANGED active_count_,
         \A x \in RelaySession : pc'[x] = "none" <=> pc[x] = "none"
  PROVE  ActiveCountIsExact'
<1>1. Alive' = Alive
  BY DEF Alive
<1> QED
  BY <1>1 DEF ActiveCountIsExact, Alive

\* A session that goes on with its run() keeps its place.
LEMMA RunKeepsPlaces ==
  ASSUME TypeOK, ActiveCountIsExact, UNCHANGED active_count_,
         NEW s \in RelaySession \cup {NULL}, NEW p,
         s \in RelaySession => pc[s] # "none" /\ p # "none",
         NEW Closing, NEW W, NEW To, Run(s, p, Closing, W, To)
  PROVE  ActiveCountIsExact'
<1>1. ASSUME NEW x \in RelaySession PROVE pc'[x] = "none" <=> pc[x] = "none"
  <2>1. CASE x = s
    BY <2>1, RunMoves
  <2>2. CASE x # s
    BY <2>2, RunKeeps
  <2> QED
    BY <2>1, <2>2
<1> QED
  BY <1>1, PlacesKept

\* An accepted connection takes a place.
LEMMA PlaceTaken ==
  ASSUME TypeOK, ActiveCountIsExact, NEW s \in RelaySession, Accept(s)
  PROVE  ActiveCountIsExact'
<1>1. Alive' = Alive \cup {s} /\ s \notin Alive
  BY DEF Alive, Accept, TypeOK
<1>2. Cardinality(Alive \cup {s}) = Cardinality(Alive) + 1
  BY <1>1, AliveIsFinite, FS_AddElement
<1>3. active_count_' = Cardinality(Alive) + 1
  BY DEF Accept, ActiveCountIsExact, Alive
<1> QED
  BY <1>1, <1>2, <1>3 DEF ActiveCountIsExact, Alive

\* register_self keeps the count right whether or not the directory takes the port.
LEMMA RegistersKeepsCount ==
  ASSUME TypeOK, ActiveCountIsExact, NEW s \in RelaySession, pc[s] # "none",
         NEW n, NEW p \in {"forward", "bond"}, NEW Bonded, NEW To,
         Registers(s, n, p, Bonded, To) \/ RegisterRefused(s, n)
  PROVE  ActiveCountIsExact'
<1>1. CASE Registers(s, n, p, Bonded, To)
  BY <1>1, RunKeepsPlaces DEF Registers
<1>2. CASE RegisterRefused(s, n)
  BY <1>2, PlaceGivenBack DEF RegisterRefused, Forget
<1> QED
  BY <1>1, <1>2

\* Every step keeps the count right.
LEMMA ActiveCountStep ==
  TypeOK /\ ActiveCountIsExact /\ [Next]_vars => ActiveCountIsExact'
<1> SUFFICES ASSUME TypeOK, ActiveCountIsExact, [Next]_vars PROVE ActiveCountIsExact'
  OBVIOUS
<1>1. CASE UNCHANGED vars \/ AcceptRefused
  BY <1>1 DEF AcceptRefused, vars, ActiveCountIsExact
<1>2. ASSUME NEW s \in RelaySession, pc[s] # "none", FinishUnregistered(s)
      PROVE  ActiveCountIsExact'
  BY <1>2, PlaceGivenBack DEF FinishUnregistered, Forget
<1>3. ASSUME NEW s \in RelaySession, NEW To, pc[s] # "none", Finish(s, To)
      PROVE  ActiveCountIsExact'
  BY <1>3, PlaceGivenBack DEF Finish, Forget
<1>4. ASSUME NEW s \in RelaySession, NEW n \in Requests, ReadInit(s, n)
      PROVE  ActiveCountIsExact'
  <2>1. pc[s] = "init"
    BY <1>4 DEF ReadInit, InitSocket, InitConnect, InitAccept
  <2>2. CASE InitSocket(s, n)
    BY <2>1, <2>2, RegistersKeepsCount DEF InitSocket
  <2>3. CASE InitAccept(s, n)
    BY <1>2, <2>1, <2>3, RegistersKeepsCount DEF InitAccept
  <2>4. CASE InitConnect(s, n)
    <3>1. ASSUME pc' = [pc EXCEPT ![s] = "await"], UNCHANGED active_count_
          PROVE  ActiveCountIsExact'
      BY <2>1, <3>1, PlacesKept DEF TypeOK
    <3> QED
      BY <1>2, <2>1, <2>4, <3>1, RegistersKeepsCount DEF InitConnect, ConnectTo
  <2> QED
    BY <1>4, <2>2, <2>3, <2>4 DEF ReadInit
<1>5. ASSUME NEW s \in RelaySession,
             AwaitTimesOut(s) \/ BondTimesOut(s) \/ BlockArrives(s) \/ ReadFails(s)
      PROVE  ActiveCountIsExact'
  BY <1>5, PlacesKept DEF AwaitTimesOut, BondTimesOut, BlockArrives, ReadFails, TypeOK
<1>6. ASSUME NEW s \in RelaySession, AwaitResumes(s) PROVE ActiveCountIsExact'
  BY <1>2, <1>6, RegistersKeepsCount DEF AwaitResumes, ConnectTo
<1>7. ASSUME NEW s \in RelaySession, BondResumes(s) PROVE ActiveCountIsExact'
  BY <1>3, <1>7, RunKeepsPlaces DEF BondResumes
<1>8. ASSUME NEW s \in RelaySession, NEW n \in Name \cup {NULL}, Forwards(s, n)
      PROVE  ActiveCountIsExact'
  BY <1>3, <1>8, RunKeepsPlaces DEF Forwards
<1>9. ASSUME NEW s \in RelaySession, InitFails(s) \/ ReadFailed(s)
      PROVE  ActiveCountIsExact'
  BY <1>2, <1>3, <1>9 DEF InitFails, ReadFailed
<1>10. ASSUME NEW s \in RelaySession, WriterTakes(s) \/ WriteCompletes(s)
       PROVE  ActiveCountIsExact'
  BY <1>10, PlacesKept DEF WriterTakes, WriteCompletes
<1>11. ASSUME NEW s \in RelaySession, WriteFails(s) PROVE ActiveCountIsExact'
  BY <1>11, RunKeepsPlaces, RelayAssumption DEF WriteFails
<1> QED
  BY <1>1, <1>4, <1>5, <1>6, <1>7, <1>8, <1>9, <1>10, <1>11, PlaceTaken DEF Next

(***************************************************************************)
(* active_count_ is the number of sessions that have not finished: no path *)
(* through run() leaks a place or gives one back twice.                    *)
(***************************************************************************)
THEOREM PlacesAreCounted == Spec => []ActiveCountIsExact
<1>1. Init => ActiveCountIsExact
  <2> SUFFICES ASSUME Init PROVE ActiveCountIsExact
    OBVIOUS
  <2>1. Alive = {}
    BY DEF Init, Alive
  <2> QED
    BY <2>1, FS_EmptySet DEF Init, ActiveCountIsExact, Alive
<1> QED
  BY <1>1, RelayTypes, ActiveCountStep, PTL DEF Spec
-----------------------------------------------------------------------------
(***************************************************************************)
(* What becomes of closed sessions                                         *)
(***************************************************************************)
Resumed(x) == closed_[x] => pc[x] \in {"signalled", "got", "failed"}

\* Whoever is closed by another session's step has its result ready.
LEMMA OthersAreResumed ==
  ASSUME TypeOK, NEW s, NEW p, NEW Closing, NEW W, NEW To,
         Run(s, p, Closing, W, To),
         NEW x \in RelaySession, x # s, Resumed(x),
         x \in Closing \cup To => registered_(x)
  PROVE  Resumed(x)'
<1> DEFINE S == Closing \cup Overflown(To)
<1>1. pc'[x] = Cancelled(x, W, S)
  BY DEF Run
<1>2. closed_'[x] <=> closed_[x] \/ x \in S
  BY Zenon DEF Run
<1>3. CASE x \in S
  <2>1. registered_(x)
    BY <1>3 DEF Overflown
  <2>2. CASE pc[x] = "bond"
    <3>1. Cancelled(x, W, S) = "signalled"
      BY <1>3, <2>2 DEF Cancelled
    <3> QED
      BY <1>1, <3>1 DEF Resumed
  <2>3. CASE pc[x] = "forward"
    <3>1. Cancelled(x, W, S) = "failed"
      BY <1>3, <2>3 DEF Cancelled
    <3> QED
      BY <1>1, <3>1 DEF Resumed
  <2>4. CASE pc[x] \in {"signalled", "got", "failed"}
    <3>1. Cancelled(x, W, S) = pc[x]
      BY <2>4 DEF Cancelled
    <3> QED
      BY <1>1, <2>4, <3>1 DEF Resumed
  <2> QED
    BY <2>1, <2>2, <2>3, <2>4 DEF registered_
<1>4. CASE x \notin S /\ closed_[x]
  <2>1. pc[x] \in {"signalled", "got", "failed"}
    BY <1>4 DEF Resumed
  <2>2. Cancelled(x, W, S) = pc[x]
    BY <2>1 DEF Cancelled
  <2> QED
    BY <1>1, <2>1, <2>2 DEF Resumed
<1>5. CASE x \notin S /\ ~closed_[x]
  BY <1>2, <1>5 DEF Resumed
<1> QED
  BY <1>3, <1>4, <1>5

\* run() goes on to another wait only with a session that stays open, or ends.
LEMMA RunResumes ==
  ASSUME TypeOK, ClosedSessionsAreResumed,
         NEW s, NEW p, NEW Closing, NEW W, NEW To,
         Run(s, p, Closing, W, To),
         \A y \in Closing \cup To : y = s \/ registered_(y),
         s \in RelaySession =>
           p = "none" \/ (~closed_[s] /\ s \notin Closing \cup Overflown(To))
  PROVE  ClosedSessionsAreResumed'
<1>1. ASSUME NEW x \in RelaySession PROVE Resumed(x)'
  <2>1. CASE x # s
    BY <2>1, OthersAreResumed DEF ClosedSessionsAreResumed, Resumed
  <2>2. CASE x = s
    <3>1. ~closed_'[s]
      BY <2>2, Zenon DEF Run
    <3> QED
      BY <2>2, <3>1 DEF Resumed
  <2> QED
    BY <2>1, <2>2
<1> QED
  BY <1>1 DEF ClosedSessionsAreResumed, Resumed

\* register_self, for which add() closes the session that has the name.
LEMMA RegistersResumes ==
  ASSUME RelayInv, ClosedSessionsAreResumed,
         NEW s \in RelaySession, NEW n \in Requests, NEW p, NEW Bonded, NEW To,
         ~registered_(s),
         \A y \in To : y = s \/ registered_(y),
         Registers(s, n, p, Bonded, To) \/ RegisterRefused(s, n)
  PROVE  ClosedSessionsAreResumed'
<1>1. TypeOK /\ n \in Name /\ get_peer_identifier(n) \in Name \cup {NULL}
  BY PeerIsName, RelayAssumption DEF RelayInv
<1>2. \A y \in find(n) \cup find(get_peer_identifier(n)) : registered_(y)
  BY <1>1, FoundIsRegistered
<1>3. CASE Registers(s, n, p, Bonded, To)
  <2>1. ~closed_[s] /\ write_queue_[s] = 0
    BY DEF RelayInv, Stages, StageOf
  <2>2. s \notin Overflown(To)
    BY <2>1, RelayAssumption DEF Overflown, Queued
  <2> QED
    BY <1>1, <1>2, <1>3, <2>1, <2>2, RunResumes DEF Registers, Superseded
<1>4. CASE RegisterRefused(s, n)
  BY <1>1, <1>2, <1>4, RunResumes DEF RegisterRefused, Superseded
<1> QED
  BY <1>3, <1>4

\* finish() of a session, which may close its peer.
LEMMA FinishResumes ==
  ASSUME RelayInv, ClosedSessionsAreResumed, NEW s \in RelaySession, NEW To,
         \/ FinishUnregistered(s)
         \/ registered_(s) /\ Finish(s, To) /\ \A y \in To : registered_(y)
  PROVE  ClosedSessionsAreResumed'
<1>1. TypeOK
  BY DEF RelayInv
<1>2. CASE FinishUnregistered(s)
  BY <1>1, <1>2, RunResumes DEF FinishUnregistered
<1>3. CASE registered_(s) /\ Finish(s, To) /\ \A y \in To : registered_(y)
  <2>1. id[s] \in Name
    BY <1>3, RelayAssumption DEF RelayInv, TypeOK, Stages, StageOf, registered_
  <2>2. get_peer_identifier(id[s]) \in Name \cup {NULL}
    BY <2>1, PeerIsName
  <2>3. \A y \in finish_closes(s) : registered_(y)
    BY <2>2, FoundIsRegistered DEF finish_closes
  <2> QED
    BY <1>1, <1>3, <2>3, RunResumes DEF Finish
<1> QED
  BY <1>2, <1>3

\* A result that becomes ready ends a wait, and begins none.
LEMMA ReadyResumes ==
  ASSUME RelayInv, ClosedSessionsAreResumed, NEW s \in RelaySession,
         NEW p \in Pc \ {"bond", "forward"},
         ~closed_[s] \/ p \in {"signalled", "got", "failed"},
         pc' = [pc EXCEPT ![s] = p], UNCHANGED closed_
  PROVE  ClosedSessionsAreResumed'
  BY DEF RelayInv, TypeOK, ClosedSessionsAreResumed

\* The init packet is read.
LEMMA ReadInitResumes ==
  ASSUME RelayInv, ClosedSessionsAreResumed,
         NEW s \in RelaySession, NEW n \in Requests, ReadInit(s, n)
  PROVE  ClosedSessionsAreResumed'
<1>1. ~registered_(s) /\ ~closed_[s]
  BY DEF ReadInit, InitSocket, InitConnect, InitAccept, RelayInv, Stages, StageOf, registered_
<1>2. n \in Name
  BY RelayAssumption
<1>3. CASE InitSocket(s, n)
  BY <1>1, <1>3, RegistersResumes DEF InitSocket
<1>4. CASE InitConnect(s, n)
  <2>1. \A y \in find(get_listen_session_name(n)) : registered_(y)
    BY <1>2, <1>4, DerivedNames, FoundIsRegistered DEF InitConnect
  <2>2. ASSUME pc' = [pc EXCEPT ![s] = "await"], UNCHANGED closed_
        PROVE  ClosedSessionsAreResumed'
    BY <1>1, <2>2, ReadyResumes DEF Pc
  <2> QED
    BY <1>1, <1>4, <2>1, <2>2, RegistersResumes, FinishResumes DEF InitConnect, ConnectTo
<1>5. CASE InitAccept(s, n)
  <2>1. \A y \in AwaitsAccept(n) : registered_(y)
    BY <1>2, <1>5, DerivedNames, FoundIsRegistered DEF InitAccept, AwaitsAccept
  <2>2. \A y \in AwaitsAccept(n) \cup {s} : y = s \/ registered_(y)
    BY <2>1
  <2> QED
    BY <1>1, <1>5, <2>2, RegistersResumes, FinishResumes DEF InitAccept
<1> QED
  BY <1>3, <1>4, <1>5 DEF ReadInit

\* Every step keeps closed sessions resumed.
LEMMA ResumedStep ==
  RelayInv /\ ClosedSessionsAreResumed /\ [Next]_vars => ClosedSessionsAreResumed'
<1> SUFFICES ASSUME RelayInv, ClosedSessionsAreResumed, [Next]_vars
             PROVE  ClosedSessionsAreResumed'
  OBVIOUS
<1>1. TypeOK
  BY DEF RelayInv
<1>2. CASE UNCHANGED vars \/ AcceptRefused
  BY <1>2 DEF AcceptRefused, vars, ClosedSessionsAreResumed
<1>3. ASSUME NEW s \in RelaySession, Accept(s) \/ AwaitTimesOut(s)
      PROVE  ClosedSessionsAreResumed'
  <2>1. ~closed_[s]
    BY <1>3 DEF Accept, AwaitTimesOut, RelayInv, Stages, StageOf, registered_
  <2> QED
    BY <1>3, <2>1, ReadyResumes DEF Accept, AwaitTimesOut, Pc
<1>4. ASSUME NEW s \in RelaySession, BondTimesOut(s) \/ BlockArrives(s) \/ ReadFails(s)
      PROVE  ClosedSessionsAreResumed'
  BY <1>4, ReadyResumes DEF BondTimesOut, BlockArrives, ReadFails, Pc
<1>5. ASSUME NEW s \in RelaySession, AwaitResumes(s) PROVE ClosedSessionsAreResumed'
  <2>1. ~registered_(s) /\ id[s] \in Requests /\ id[s].mode = "PTP_CONNECT"
    BY <1>5 DEF AwaitResumes, RelayInv, TypeOK, Stages, StageOf, registered_
  <2>2. \A y \in find(get_listen_session_name(id[s])) : registered_(y)
    BY <2>1, DerivedNames, FoundIsRegistered, RelayAssumption
  <2> QED
    BY <1>5, <2>1, <2>2, RegistersResumes, FinishResumes DEF AwaitResumes, ConnectTo
<1>6. ASSUME NEW s \in RelaySession, BondResumes(s) PROVE ClosedSessionsAreResumed'
  <2>1. registered_(s) /\ Overflown({}) = {}
    BY <1>6 DEF BondResumes, registered_, Overflown
  <2>2. CASE ~closed_[s] /\ Run(s, "forward", {}, {}, {})
    BY <1>1, <2>1, <2>2, RunResumes
  <2> QED
    BY <1>6, <2>1, <2>2, FinishResumes DEF BondResumes
<1>7. ASSUME NEW s \in RelaySession, NEW n \in Name \cup {NULL}, Forwards(s, n)
      PROVE  ClosedSessionsAreResumed'
  <2>1. registered_(s) /\ \A y \in find(n) : registered_(y)
    BY <1>7, FoundIsRegistered DEF Forwards, registered_
  <2>2. CASE ~closed_[s] /\ s \notin Overflown(find(n)) /\ Run(s, "forward", {}, {}, find(n))
    BY <1>1, <2>1, <2>2, RunResumes
  <2> QED
    BY <1>7, <2>1, <2>2, FinishResumes DEF Forwards
<1>8. ASSUME NEW s \in RelaySession, InitFails(s) \/ ReadFailed(s)
      PROVE  ClosedSessionsAreResumed'
  BY <1>8, FinishResumes DEF InitFails, ReadFailed, registered_
<1>9. ASSUME NEW s \in RelaySession, WriterTakes(s) \/ WriteCompletes(s)
      PROVE  ClosedSessionsAreResumed'
  BY <1>9 DEF WriterTakes, WriteCompletes, ClosedSessionsAreResumed
<1>10. ASSUME NEW s \in RelaySession, WriteFails(s) PROVE ClosedSessionsAreResumed'
  <2>1. registered_(s)
    BY <1>10 DEF WriteFails, RelayInv, Stages, StageOf
  <2> QED
    BY <1>1, <1>10, <2>1, RunResumes, RelayAssumption DEF WriteFails
<1> QED
  BY <1>2, <1>3, <1>4, <1>5, <1>6, <1>7, <1>8, <1>9, <1>10, ReadInitResumes DEF Next

(***************************************************************************)
(* A session that was closed, by its peer, its successor, its writer or a  *)
(* full queue, has the result that ends its wait: close() reaches every    *)
(* wait of run(), and run() begins no new one.                             *)
(***************************************************************************)
THEOREM ClosingEndsWaits == Spec => []ClosedSessionsAreResumed
<1>1. Init => ClosedSessionsAreResumed
  BY DEF Init, ClosedSessionsAreResumed
<1> QED
  BY <1>1, RelayInvariant, ResumedStep, PTL DEF Spec

=============================================================================
