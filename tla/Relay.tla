------------------------------- MODULE Relay -------------------------------
(***************************************************************************)
(* The relay of source/relay_server.cpp: relay sessions that register      *)
(* under a name, PTP connects that wait for a listener and then for an     *)
(* accept, forwarding by name, and the directory of ports that the status  *)
(* page shows.                                                             *)
(*                                                                         *)
(* All coroutines run on one thread; a step is the run of a session's      *)
(* run() from one co_await to the next, with every call it makes on other  *)
(* sessions.  Between the completion of what run() awaits and its          *)
(* resumption other sessions run: the states "woken", "signalled", "got"   *)
(* and "failed" are results that wait in the io_context's queue.  close()  *)
(* turns pending operations into such results and leaves queued ones be.   *)
(*                                                                         *)
(* A MAC address and a port together are an Address.  A session object is  *)
(* gone once run() has finished: its identity is then free for another.    *)
(***************************************************************************)
EXTENDS Integers, FiniteSets

CONSTANTS
  RelaySession,          \* identities of relay_session objects
  Address,               \* pairs of a MAC address and a port
  Requests,              \* the init packets clients may send
  max_num_sessions,
  data_queue_size_limit, \* buffers that reach data_queue_size_limit_byte
  NULL

VARIABLES
  pc,           \* where run() of each session is: see Pc
  id,           \* the identity a session was given by its init packet, or NULL
  closed_,
  superseded_,
  established_,
  write_queue_, \* number of buffers, in units of the limit
  writing,      \* the writer has a buffer out
  sessions_,    \* relay_registry: the session of each name, or NULL
  waiters_,     \* relay_registry: pairs of a name and the session waiting for it
  directory,    \* relay_directory: pairs of a port kind and an address
  active_count_

vars == <<pc, id, closed_, superseded_, established_, write_queue_, writing,
          sessions_, waiters_, directory, active_count_>>

(***************************************************************************)
(* get_identifier: mode and endpoints.  A PDP or listen name has one end.  *)
(***************************************************************************)
Name == [mode : {"PDP", "PTP_LISTEN"}, from : Address, to : {NULL}]
          \cup [mode : {"PTP_CONNECT", "PTP_ACCEPT"}, from : Address, to : Address]

ASSUME RelayAssumption ==
  /\ IsFiniteSet(RelaySession)
  /\ Requests \subseteq Name
  /\ max_num_sessions \in Nat \ {0}
  /\ data_queue_size_limit \in Nat \ {0, 1}  \* one small packet never fills it
  /\ NULL \notin RelaySession
  /\ NULL \notin Address
  /\ NULL \notin Name

get_listen_session_name(n) == [mode |-> "PTP_LISTEN", from |-> n.to, to |-> NULL]
get_connect_session_name(n) == [mode |-> "PTP_CONNECT", from |-> n.to, to |-> n.from]
get_accept_session_name(n) == [mode |-> "PTP_ACCEPT", from |-> n.to, to |-> n.from]

get_peer_identifier(n) ==
  CASE n.mode = "PTP_CONNECT" -> get_accept_session_name(n)
    [] n.mode = "PTP_ACCEPT" -> get_connect_session_name(n)
    [] OTHER -> NULL

\* The key of relay_directory: mac_key, directory_port_kind and from_port_.
Entry(n) == <<IF n.mode = "PDP" THEN "pdp" ELSE "ptp", n.from>>

(***************************************************************************)
(* "none": no object; "init": read_init; "await": in await_session;        *)
(* "bond": waiting for bond_signal_; "forward": a read of the forward loop *)
(***************************************************************************)
Pc == {"none", "init", "await", "woken", "bond", "signalled", "forward", "got", "failed"}

registered_(s) == pc[s] \in {"bond", "signalled", "forward", "got", "failed"}

Init ==
  /\ pc = [s \in RelaySession |-> "none"]
  /\ id = [s \in RelaySession |-> NULL]
  /\ closed_ = [s \in RelaySession |-> FALSE]
  /\ superseded_ = [s \in RelaySession |-> FALSE]
  /\ established_ = [s \in RelaySession |-> FALSE]
  /\ write_queue_ = [s \in RelaySession |-> 0]
  /\ writing = [s \in RelaySession |-> FALSE]
  /\ sessions_ = [n \in Name |-> NULL]
  /\ waiters_ = {}
  /\ directory = {}
  /\ active_count_ = 0
-----------------------------------------------------------------------------
(***************************************************************************)
(* relay_registry and relay_directory                                      *)
(***************************************************************************)
find(n) == IF n = NULL THEN {} ELSE {sessions_[n]} \ {NULL}

\* add wakes whoever waits for the name.
no_waiting(n) == {}  \* mutant: add() does not look at waiters_
Waiting(n) == {s \in RelaySession : <<n, s>> \in waiters_}
WithoutWaiters(n) == {w \in waiters_ : w[1] # n}

\* remove: only the session that holds the name gives it up.
remove(n, s) == [sessions_ EXCEPT ![n] = IF @ = s THEN NULL ELSE @]

no_dec_active == active_count_  \* mutant: a finished session keeps its place
dec_active == IF active_count_ > 0 THEN active_count_ - 1 ELSE active_count_

(***************************************************************************)
(* queue_send of one buffer to each session of To.  A full queue closes    *)
(* the session.                                                            *)
(***************************************************************************)
Queued(To) == [s \in RelaySession |->
                 IF s \in To /\ ~closed_[s] THEN write_queue_[s] + 1 ELSE write_queue_[s]]
\* Mutant: the limit itself still fits.
OverflownLate(To) == {s \in To : ~closed_[s] /\ Queued(To)[s] > data_queue_size_limit}
Overflown(To) == {s \in To : ~closed_[s] /\ Queued(To)[s] >= data_queue_size_limit}

(***************************************************************************)
(* What becomes of the operation x awaits when close() cancels it (Shut),  *)
(* or its timer is cancelled (Waking).                                     *)
(***************************************************************************)
CancelledTimers(x, Waking, Shut) ==  \* mutant: the read goes on after close()
  CASE pc[x] = "await" /\ x \in Waking -> "woken"
    [] pc[x] = "bond" /\ x \in Waking \cup Shut -> "signalled"
    [] OTHER -> pc[x]
Cancelled(x, Waking, Shut) ==
  CASE pc[x] = "await" /\ x \in Waking -> "woken"
    [] pc[x] = "bond" /\ x \in Waking \cup Shut -> "signalled"
    [] pc[x] = "forward" /\ x \in Shut -> "failed"
    [] OTHER -> pc[x]

(***************************************************************************)
(* One step of run(): s goes on to state p; the sessions of Closing are    *)
(* closed, and those whose queue overflows; the timers of those in Waking  *)
(* are cancelled; those of To are sent a buffer.  A pending operation that *)
(* this cancels becomes a result for its run() to take up.  A session that *)
(* finishes is destroyed; the queue of a closed one is not looked at again.*)
(***************************************************************************)
Run(s, p, Closing, Waking, To) ==
  LET Shut == Closing \cup Overflown(To)
      Gone(x) == x = s /\ p = "none"
  IN /\ pc' = [x \in RelaySession |->
                 IF x = s THEN p ELSE Cancelled(x, Waking, Shut)]
     /\ closed_' = [x \in RelaySession |-> ~Gone(x) /\ (closed_[x] \/ x \in Shut)]
     /\ write_queue_' = [x \in RelaySession |->
                           IF Gone(x) \/ x \in Shut THEN 0 ELSE Queued(To)[x]]
     /\ writing' = [x \in RelaySession |-> writing[x] /\ ~Gone(x) /\ x \notin Shut]

\* What finish() forgets with the object.
Forget(s, Super) ==
  /\ id' = [id EXCEPT ![s] = NULL]
  /\ established_' = [established_ EXCEPT ![s] = FALSE]
  /\ superseded_' = [x \in RelaySession |-> x # s /\ (superseded_[x] \/ x \in Super)]
  /\ active_count_' = dec_active

(***************************************************************************)
(* register_self, and what its caller does next.  add() supersedes the     *)
(* session that has the name and wakes the ones that wait for it; then the *)
(* directory may refuse the port.                                          *)
(***************************************************************************)
\* Who add() supersedes.
SupersededNone(n) == {}  \* mutant: add() only reassigns the name
Superseded(n) == find(n)

PortFree(n) == Entry(n) \notin directory

Registers(s, n, p, Bonded, To) ==
  /\ PortFree(n)
  /\ Run(s, p, Superseded(n), Waiting(n) \cup Bonded, To)
  /\ id' = [id EXCEPT ![s] = n]
  /\ established_' = [x \in RelaySession |-> established_[x] \/ x \in Bonded]
  /\ superseded_' = [x \in RelaySession |-> superseded_[x] \/ x \in find(n)]
  /\ sessions_' = [sessions_ EXCEPT ![n] = s]
  /\ waiters_' = {w \in WithoutWaiters(n) : w[2] # s}
  /\ directory' = directory \cup {Entry(n)}
  /\ UNCHANGED active_count_

\* The port is taken: the caller finishes, and the entry that was there goes.
RegisterRefused(s, n) ==
  /\ ~PortFree(n)
  /\ Run(s, "none", Superseded(n) \cup find(get_peer_identifier(n)), Waiting(n), {})
  /\ Forget(s, find(n))
  /\ sessions_' = [sessions_ EXCEPT ![n] = NULL]
  /\ waiters_' = {w \in WithoutWaiters(n) : w[2] # s}
  /\ directory' = directory \ {Entry(n)}

\* finish() of a session that never registered.
FinishUnregistered(s) ==
  /\ Run(s, "none", {}, {}, {})
  /\ Forget(s, {})
  /\ waiters_' = {w \in waiters_ : w[2] # s}
  /\ UNCHANGED <<sessions_, directory>>

(***************************************************************************)
(* finish() of a registered session, after it sent a last buffer to To.    *)
(* The directory entry goes whoever made it; the name goes, and the peer   *)
(* is closed, unless another session superseded this one.                  *)
(***************************************************************************)
finish_closes_nobody(s) == {}  \* mutant: no peer relation
finish_closes(s) ==
  IF superseded_[s] THEN {} ELSE find(get_peer_identifier(id[s]))

\* Mutant: erase by name, whoever has it now.
finish_erases_name(s) == [sessions_ EXCEPT ![id[s]] = NULL]
finish_sessions(s) == IF superseded_[s] THEN sessions_ ELSE remove(id[s], s)

finish_keeps_port(s) == directory  \* mutant: the port stays listed
finish_directory(s) == directory \ {Entry(id[s])}

Finish(s, To) ==
  /\ Run(s, "none", finish_closes(s), {}, To)
  /\ Forget(s, {})
  /\ sessions_' = finish_sessions(s)
  /\ directory' = finish_directory(s)
  /\ UNCHANGED waiters_
-----------------------------------------------------------------------------
(***************************************************************************)
(* run_relay_acceptor                                                      *)
(***************************************************************************)
Accept(s) ==
  /\ pc[s] = "none"
  /\ active_count_ < max_num_sessions
  /\ pc' = [pc EXCEPT ![s] = "init"]
  /\ active_count_' = active_count_ + 1
  /\ UNCHANGED <<id, closed_, superseded_, established_, write_queue_, writing,
                 sessions_, waiters_, directory>>

AcceptRefused ==
  /\ active_count_ >= max_num_sessions
  /\ UNCHANGED vars

(***************************************************************************)
(* run(): read_init fails, times out or brings an unknown type.            *)
(***************************************************************************)
InitFails(s) ==
  /\ pc[s] = "init"
  /\ FinishUnregistered(s)

\* A PDP socket or a PTP listener.
InitSocket(s, n) ==
  /\ pc[s] = "init"
  /\ n.mode \in {"PDP", "PTP_LISTEN"}
  /\ Registers(s, n, "forward", {}, {}) \/ RegisterRefused(s, n)

\* establish_connect from the listener it found to the wait for the accept.
ConnectTo(s, n, listen) ==
  \/ Registers(s, n, "bond", {}, listen)
  \/ RegisterRefused(s, n)

\* The listener is there, or the connect waits for it, or no time is left.
InitConnect(s, n) ==
  LET listen == find(get_listen_session_name(n)) IN
  /\ pc[s] = "init"
  /\ n.mode = "PTP_CONNECT"
  /\ \/ listen # {} /\ ConnectTo(s, n, listen)
     \/ /\ listen = {}
        /\ pc' = [pc EXCEPT ![s] = "await"]
        /\ id' = [id EXCEPT ![s] = n]
        /\ waiters_' = waiters_ \cup {<<get_listen_session_name(n), s>>}
        /\ UNCHANGED <<closed_, superseded_, established_, write_queue_, writing,
                       sessions_, directory, active_count_>>
     \/ listen = {} /\ FinishUnregistered(s)

AwaitTimesOut(s) ==
  /\ pc[s] = "await"
  /\ pc' = [pc EXCEPT ![s] = "woken"]
  /\ UNCHANGED <<id, closed_, superseded_, established_, write_queue_, writing,
                 sessions_, waiters_, directory, active_count_>>

\* await_session looks the name up again: the listener may be gone already.
AwaitResumes(s) ==
  LET listen == find(get_listen_session_name(id[s])) IN
  /\ pc[s] = "woken"
  /\ \/ listen # {} /\ ConnectTo(s, id[s], listen)
     \/ listen = {} /\ FinishUnregistered(s)

BondTimesOut(s) ==
  /\ pc[s] = "bond"
  /\ pc' = [pc EXCEPT ![s] = "signalled"]
  /\ UNCHANGED <<id, closed_, superseded_, established_, write_queue_, writing,
                 sessions_, waiters_, directory, active_count_>>

\* An accept that came after the timeout but before this step still counts.
BondResumes(s) ==
  /\ pc[s] = "signalled"
  /\ \/ established_[s] /\ ~closed_[s] /\ Run(s, "forward", {}, {}, {})
        /\ UNCHANGED <<id, superseded_, established_, sessions_, waiters_, directory,
                       active_count_>>
     \/ (~established_[s] \/ closed_[s]) /\ Finish(s, {})

\* establish_accept
AwaitsAccept(n) == {c \in find(get_connect_session_name(n)) : ~established_[c]}

InitAccept(s, n) ==
  LET connect == AwaitsAccept(n) IN
  /\ pc[s] = "init"
  /\ n.mode = "PTP_ACCEPT"
  /\ \/ connect = {} /\ FinishUnregistered(s)
     \/ connect # {} /\ RegisterRefused(s, n)
     \/ connect # {} /\ Registers(s, n, "forward", connect \cup {s}, connect \cup {s})

\* The init packet is read and its session set up.
ReadInit(s, n) == InitSocket(s, n) \/ InitConnect(s, n) \/ InitAccept(s, n)
-----------------------------------------------------------------------------
(***************************************************************************)
(* forward_loop.  External: a block arrives, or the client hangs up or     *)
(* sends an oversized block.                                               *)
(***************************************************************************)
BlockArrives(s) ==
  /\ pc[s] = "forward"
  /\ pc' = [pc EXCEPT ![s] = "got"]
  /\ UNCHANGED <<id, closed_, superseded_, established_, write_queue_, writing,
                 sessions_, waiters_, directory, active_count_>>

ReadFails(s) ==
  /\ pc[s] = "forward"
  /\ pc' = [pc EXCEPT ![s] = "failed"]
  /\ UNCHANGED <<id, closed_, superseded_, established_, write_queue_, writing,
                 sessions_, waiters_, directory, active_count_>>

\* Where a block may go: any PDP socket, the peer of a PTP stream, nowhere.
Targets(s) ==
  CASE id[s].mode = "PDP" -> {n \in Name : n.mode = "PDP"}
    [] id[s].mode = "PTP_LISTEN" -> {NULL}
    [] OTHER -> {get_peer_identifier(id[s])}

\* The block goes out even if the session was closed after it arrived.
Forwards(s, n) ==
  /\ pc[s] = "got"
  /\ n \in Targets(s)
  /\ \/ /\ ~closed_[s]
        /\ s \notin Overflown(find(n))
        /\ Run(s, "forward", {}, {}, find(n))
        /\ UNCHANGED <<id, superseded_, established_, sessions_, waiters_, directory,
                       active_count_>>
     \/ (closed_[s] \/ s \in Overflown(find(n))) /\ Finish(s, find(n))

ReadFailed(s) ==
  /\ pc[s] = "failed"
  /\ Finish(s, {})
-----------------------------------------------------------------------------
(***************************************************************************)
(* writer(): a buffer leaves the queue when its write starts.              *)
(***************************************************************************)
WriterTakes(s) ==
  /\ ~writing[s]
  /\ write_queue_[s] > 0
  /\ write_queue_' = [write_queue_ EXCEPT ![s] = @ - 1]
  /\ writing' = [writing EXCEPT ![s] = TRUE]
  /\ UNCHANGED <<pc, id, closed_, superseded_, established_, sessions_, waiters_,
                 directory, active_count_>>

WriteCompletes(s) ==
  /\ writing[s]
  /\ writing' = [writing EXCEPT ![s] = FALSE]
  /\ UNCHANGED <<pc, id, closed_, superseded_, established_, write_queue_, sessions_,
                 waiters_, directory, active_count_>>

\* The connection broke: the writer closes the session.
WriteFails(s) ==
  /\ writing[s]
  /\ Run(NULL, "writer", {s}, {}, {})
  /\ UNCHANGED <<id, superseded_, established_, sessions_, waiters_, directory,
                 active_count_>>
-----------------------------------------------------------------------------
Next ==
  \/ AcceptRefused
  \/ \E s \in RelaySession :
       \/ Accept(s)
       \/ InitFails(s)
       \/ \E n \in Requests : ReadInit(s, n)
       \/ AwaitTimesOut(s) \/ AwaitResumes(s)
       \/ BondTimesOut(s) \/ BondResumes(s)
       \/ BlockArrives(s) \/ ReadFails(s)
       \/ \E n \in Name \cup {NULL} : Forwards(s, n)
       \/ ReadFailed(s)
       \/ WriterTakes(s) \/ WriteCompletes(s) \/ WriteFails(s)

Spec == Init /\ [][Next]_vars

(***************************************************************************)
(* Queued results are taken up, and timers run out: the 5 seconds of the   *)
(* init packet and the listener, and the 5 seconds of the accept.  Clients *)
(* owe nothing: they may stop sending, and stop reading.                   *)
(***************************************************************************)
FairSpec ==
  /\ Spec
  /\ \A s \in RelaySession :
       /\ WF_vars(InitFails(s))
       /\ WF_vars(AwaitTimesOut(s))
       /\ WF_vars(AwaitResumes(s))
       /\ WF_vars(BondTimesOut(s))
       /\ WF_vars(BondResumes(s))
       /\ WF_vars(\E n \in Name \cup {NULL} : Forwards(s, n))
       /\ WF_vars(ReadFailed(s))
-----------------------------------------------------------------------------
TypeOK ==
  /\ pc \in [RelaySession -> Pc]
  /\ id \in [RelaySession -> Requests \cup {NULL}]
  /\ closed_ \in [RelaySession -> BOOLEAN]
  /\ superseded_ \in [RelaySession -> BOOLEAN]
  /\ established_ \in [RelaySession -> BOOLEAN]
  /\ write_queue_ \in [RelaySession -> 0..(data_queue_size_limit - 1)]
  /\ writing \in [RelaySession -> BOOLEAN]
  /\ sessions_ \in [Name -> RelaySession \cup {NULL}]
  /\ waiters_ \subseteq Name \X RelaySession
  /\ directory \subseteq {"pdp", "ptp"} \X Address
  /\ active_count_ \in 0..max_num_sessions

(***************************************************************************)
(* A name leads to a live session that goes by that name, and a registered *)
(* session loses its name only to the one that superseded it: no finish()  *)
(* takes a name from a successor, and none leaves a dead session behind.   *)
(***************************************************************************)
NamesLeadToLiveSessions ==
  /\ \A n \in Name : sessions_[n] # NULL =>
       registered_(sessions_[n]) /\ id[sessions_[n]] = n
  /\ \A s \in RelaySession : registered_(s) =>
       (superseded_[s] <=> sessions_[id[s]] # s)

(***************************************************************************)
(* A superseded session is closed, so two open sessions never go by one    *)
(* name.                                                                   *)
(***************************************************************************)
OneOpenSessionPerName ==
  \A s, t \in RelaySession :
    registered_(s) /\ registered_(t) /\ id[s] = id[t] /\ s # t => closed_[s] \/ closed_[t]

(***************************************************************************)
(* A connect does not sleep while the listener it waits for is there, and  *)
(* waiters_ keeps no timer of a connect that has stopped waiting.          *)
(***************************************************************************)
NoLostListener ==
  /\ \A s \in RelaySession : pc[s] = "await" =>
       LET listen == get_listen_session_name(id[s])
       IN sessions_[listen] = NULL /\ <<listen, s>> \in waiters_
  /\ \A w \in waiters_ : pc[w[2]] \in {"await", "woken"}

(***************************************************************************)
(* An open end of a bonded PTP stream has a session at its other end: when *)
(* one end goes, finish() closes the other by its peer relation.           *)
(***************************************************************************)
BondedHasPeer ==
  \A s \in RelaySession : established_[s] /\ ~closed_[s] =>
    find(get_peer_identifier(id[s])) # {}

(***************************************************************************)
(* The directory shows no port that nobody has open.                       *)
(***************************************************************************)
DirectoryIsBacked ==
  \A e \in directory : \E s \in RelaySession : registered_(s) /\ Entry(id[s]) = e

(***************************************************************************)
(* active_count_ counts the sessions that have not finished: none leaks a  *)
(* place and none gives its place back twice.                              *)
(***************************************************************************)
ActiveCountIsExact ==
  active_count_ = Cardinality({s \in RelaySession : pc[s] # "none"})

(***************************************************************************)
(* A closed session waits for nothing any more: whoever closed it, and     *)
(* wherever its run() was, the result that ends its wait is ready, and no  *)
(* run() begins another wait on a socket that close() has shut.            *)
(***************************************************************************)
ClosedSessionsAreResumed ==
  \A s \in RelaySession : closed_[s] => pc[s] \in {"signalled", "got", "failed"}

(***************************************************************************)
(* Nobody is stuck: a session that is being set up, or that was closed     *)
(* whatever it was waiting for, ends up forwarding on an open socket or    *)
(* gone, even if every client falls silent.                                *)
(***************************************************************************)
SessionsSettle ==
  \A s \in RelaySession :
    pc[s] \in {"init", "await", "woken", "bond", "signalled"} \/ closed_[s]
      ~> pc[s] = "none" \/ (pc[s] = "forward" /\ ~closed_[s])

(***************************************************************************)
(* "peer session {} not found, not creating ptp accept session for {}"     *)
(* (source/relay_server.cpp:546): an accept is turned away because no      *)
(* connect waits for it; one that is waited for gets its session.          *)
(***************************************************************************)
AwaitedAcceptIsCreated ==
  [][\A s \in RelaySession, n \in Requests :
       InitAccept(s, n) /\ AwaitsAccept(n) # {} => sessions_'[n] = s]_vars

(***************************************************************************)
(* "replacing session {} from {} by session from {}"                       *)
(* (source/relay_server.cpp:277): a session that comes for a name in use   *)
(* has the name afterwards.                                                *)
(***************************************************************************)
ReplacementTakesOver ==
  [][\A s \in RelaySession, n \in Requests :
       InitSocket(s, n) /\ sessions_[n] # NULL => sessions_'[n] = s]_vars

=============================================================================
