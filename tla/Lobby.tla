------------------------------- MODULE Lobby -------------------------------
(***************************************************************************)
(* What the lobby promises, without nodes, lists or pointers: a session    *)
(* has a place, which is nowhere, a game, or a game and a group in it, and *)
(* only its own steps change its place.  A session loses its place exactly *)
(* when it gives back its slot.                                            *)
(***************************************************************************)
EXTENDS Integers, FiniteSets

CONSTANTS Session, ProductCode, ValidGroupName, SERVER_USER_MAXIMUM, NULL

VARIABLES
  life,    \* "idle", "open", "closed" or "orphaned", as in SessionLife
  plays,   \* the game of each session, or NULL
  joined   \* the name of its group in that game, or NULL

vars == <<life, plays, joined>>

Holders == {s \in Session : life[s] # "idle"}

Init ==
  /\ life = [s \in Session |-> "idle"]
  /\ plays = [s \in Session |-> NULL]
  /\ joined = [s \in Session |-> NULL]

Open(s) ==
  /\ life[s] = "idle"
  /\ Cardinality(Holders) < SERVER_USER_MAXIMUM
  /\ life' = [life EXCEPT ![s] = "open"]
  /\ UNCHANGED <<plays, joined>>

Login(s, code) ==
  /\ life[s] = "open"
  /\ plays[s] = NULL
  /\ plays' = [plays EXCEPT ![s] = code]
  /\ UNCHANGED <<life, joined>>

Join(s, name) ==
  /\ life[s] = "open"
  /\ plays[s] # NULL
  /\ joined[s] = NULL
  /\ joined' = [joined EXCEPT ![s] = name]
  /\ UNCHANGED <<life, plays>>

Leave(s) ==
  /\ life[s] = "open"
  /\ joined[s] # NULL
  /\ joined' = [joined EXCEPT ![s] = NULL]
  /\ UNCHANGED <<life, plays>>

Close(s) ==
  /\ life[s] = "open"
  /\ life' = [life EXCEPT ![s] = "closed"]
  /\ UNCHANGED <<plays, joined>>

Reap(s) ==
  /\ life[s] \in {"open", "closed"}
  /\ life' = [life EXCEPT ![s] = "idle"]
  /\ plays' = [plays EXCEPT ![s] = NULL]
  /\ joined' = [joined EXCEPT ![s] = NULL]

\* Only a login can be cut short by an exception.
Orphan(s) ==
  /\ life[s] = "open"
  /\ plays[s] = NULL
  /\ life' = [life EXCEPT ![s] = "orphaned"]
  /\ UNCHANGED <<plays, joined>>

Next == \E s \in Session :
  \/ Open(s)
  \/ \E code \in ProductCode : Login(s, code)
  \/ \E name \in ValidGroupName : Join(s, name)
  \/ Leave(s)
  \/ Close(s)
  \/ Reap(s)
  \/ Orphan(s)

Spec == Init /\ [][Next]_vars

=============================================================================
