------------------------------ MODULE Startup ------------------------------
(***************************************************************************)
(* The process of source/main.cpp: how it reads its command line, binds    *)
(* its three endpoints, opens the database, runs, stops or is killed, and  *)
(* is started again on what it left behind in the file system.             *)
(*                                                                         *)
(* An argument is what parse_endpoint can tell of its text:                *)
(*   [form |-> "tcp", address, port]   1.2.3.4:port, [::1]:port, or port   *)
(*   [form |-> "unix", path, perms]    unix:path, unix:770:path            *)
(*   [form |-> "relay"], [form |-> "help"], [form |-> "junk"]              *)
(* The socket of a UNIX endpoint outlives its process as a file that leads *)
(* nowhere.  Of a process that is gone only its exit code and such files   *)
(* are left.                                                               *)
(***************************************************************************)
EXTENDS Integers, SequencesExt

CONSTANTS
  CommandLines,        \* the arguments the process may be started with
  default_server_port,
  PortMax,             \* the largest std::uint16_t
  Ephemeral,           \* external: ports the kernel may choose for port 0
  Taken,               \* external: [address, port] other processes listen on
  Path,                \* paths of UNIX sockets
  TooLong,             \* external: paths that do not fit into a socket address
  Blocked,             \* external: paths of files that fs::remove cannot remove
  DatabaseMayFail,     \* TRUE when product_db's constructor may throw
  StderrMayFail,       \* TRUE when messages may fail to be written
  MaxStarts            \* bound: how often the process is started

ASSUME StartupAssumption ==
  /\ PortMax \in Nat
  /\ default_server_port \in 1..(PortMax - 1)  \* 27312
  /\ \A a \in CommandLines :
       /\ a \in Seq(ToSet(a))
       /\ \A x \in ToSet(a) :
            /\ x.form = "tcp" => x.port \in Nat
            /\ x.form = "unix" => x.path \in Path
  /\ Ephemeral \subseteq 1..PortMax
  /\ Blocked \subseteq Path
  /\ TooLong \subseteq Path
  /\ DatabaseMayFail \in BOOLEAN /\ StderrMayFail \in BOOLEAN
  /\ MaxStarts \in Nat

Roles == <<"game", "status", "relay">>
Role == ToSet(Roles)

VARIABLES
  pc,         \* "down", "parsing", the role to bind next, "database", "running", "draining"
  args,
  endpoint,   \* of each role: the parsed_endpoint
  acceptor,   \* of each role: what it listens on, or Closed
  files,      \* what is at each path: Absent, Other or a Socket
  exit_code,  \* of the last process, or NoExit
  starts

vars == <<pc, args, endpoint, acceptor, files, exit_code, starts>>

None == [kind |-> "none"]               \* std::monostate
Error(ec) == [kind |-> "error", ec |-> ec]
Tcp(address, port) == [kind |-> "tcp", address |-> address, port |-> port]
Unix(path, perms) == [kind |-> "unix", path |-> path, perms |-> perms]

Closed == None
NoExit == -1

Absent == [is |-> "absent"]
Other == [is |-> "other"]  \* some other file
Socket(role, start, perms) == [is |-> "socket", role |-> role, start |-> start, perms |-> perms]

Init ==
  /\ pc = "down"
  /\ args = <<>>
  /\ endpoint = [r \in Role |-> None]
  /\ acceptor = [r \in Role |-> Closed]
  /\ files \in [Path -> {Absent, Other}]
  /\ \A p \in Blocked : files[p] = Other
  /\ exit_code = NoExit
  /\ starts = 0
-----------------------------------------------------------------------------
(***************************************************************************)
(* The command line                                                        *)
(***************************************************************************)
\* Mutant: the number is not checked against the width of a port.
parse_endpoint_any_port(arg) ==
  CASE arg.form = "unix" -> Unix(arg.path, arg.perms)
    [] arg.form = "tcp" /\ arg.address = "bad" -> Error("invalid_argument")
    [] arg.form = "tcp" /\ arg.address # "bad" -> Tcp(arg.address, arg.port)
    [] OTHER -> Error("invalid_argument")

\* The port is scanned before the address is.
parse_endpoint(arg) ==
  CASE arg.form = "unix" -> Unix(arg.path, arg.perms)
    [] arg.form = "tcp" /\ arg.port > PortMax -> Error("value_too_large")
    [] arg.form = "tcp" /\ arg.port <= PortMax /\ arg.address = "bad" ->
         Error("invalid_argument")
    [] arg.form = "tcp" /\ arg.port <= PortMax /\ arg.address # "bad" ->
         Tcp(arg.address, arg.port)
    [] OTHER -> Error("invalid_argument")

has_help_argument(a) == a # <<>> /\ a[1].form = "help"

\* The first --relay splits the arguments.
relay_index(a) == SelectInSeq(a, LAMBDA x : x.form = "relay")
has_relay(a) == relay_index(a) # 0
server_args(a) == IF has_relay(a) THEN SubSeq(a, 1, relay_index(a) - 1) ELSE a
relay_args(a) == IF has_relay(a) THEN SubSeq(a, relay_index(a) + 1, Len(a)) ELSE <<>>

too_many_server_args(a) == Len(server_args(a)) > 2  \* mutant: relay_args unchecked
too_many(a) == Len(server_args(a)) > 2 \/ Len(relay_args(a)) > 1

\* Mutant: the relay listens on the next port of every address.
next_port_any_address(e) ==
  CASE e.kind # "tcp" -> Error("invalid_argument")
    [] e.kind = "tcp" /\ e.port = PortMax -> Error("value_too_large")
    [] OTHER -> Tcp("any", e.port + 1)

next_port(e) ==
  CASE e.kind # "tcp" -> Error("invalid_argument")
    [] e.kind = "tcp" /\ e.port = PortMax -> Error("value_too_large")
    [] OTHER -> Tcp(e.address, e.port + 1)

game_endpoint(a) ==
  IF server_args(a) = <<>> THEN Tcp("any", default_server_port)
  ELSE parse_endpoint(server_args(a)[1])

status_endpoint(a) ==
  IF Len(server_args(a)) < 2 THEN None ELSE parse_endpoint(server_args(a)[2])

relay_endpoint(a) ==
  IF ~has_relay(a) THEN None
  ELSE IF relay_args(a) # <<>> THEN parse_endpoint(relay_args(a)[1])
  ELSE next_port(game_endpoint(a))

Endpoints(a) ==
  [r \in Role |-> CASE r = "game" -> game_endpoint(a)
                    [] r = "status" -> status_endpoint(a)
                    [] r = "relay" -> relay_endpoint(a)]

had_parsing_error(a) == \E r \in Role : Endpoints(a)[r].kind = "error"

\* The endpoint of a path that is too long throws: parse_endpoint does not return.
ParsingThrows(a) ==
  \E r \in Role : Endpoints(a)[r].kind = "unix" /\ Endpoints(a)[r].path \in TooLong

Usage(a) ==
  has_help_argument(a) \/ too_many(a) \/ (~ParsingThrows(a) /\ had_parsing_error(a))
-----------------------------------------------------------------------------
(***************************************************************************)
(* main(): the process ends with this code, or with 2 when its message     *)
(* cannot be written.  Its sockets are closed; the files stay.             *)
(***************************************************************************)
Gone ==
  /\ pc' = "down"
  /\ args' = <<>>
  /\ endpoint' = [r \in Role |-> None]
  /\ acceptor' = [r \in Role |-> Closed]
  /\ UNCHANGED <<files, starts>>

Exit(code) ==
  /\ Gone
  /\ exit_code' \in {code} \cup IF StderrMayFail THEN {2} ELSE {}

Start(a) ==
  /\ pc = "down"
  /\ starts < MaxStarts
  /\ pc' = "parsing"
  /\ args' = a
  /\ exit_code' = NoExit
  /\ starts' = starts + 1
  /\ UNCHANGED <<endpoint, acceptor, files>>

ExitWithUsage ==
  /\ pc = "parsing"
  /\ Usage(args)
  /\ Exit(64)

ParseThrows ==
  /\ pc = "parsing"
  /\ ~Usage(args) /\ ParsingThrows(args)
  /\ Exit(1)

Parse ==
  /\ pc = "parsing"
  /\ ~Usage(args) /\ ~ParsingThrows(args)
  /\ pc' = "game"
  /\ endpoint' = Endpoints(args)
  /\ UNCHANGED <<args, acceptor, files, exit_code, starts>>
-----------------------------------------------------------------------------
(***************************************************************************)
(* to_acceptor, for the three roles in turn.                               *)
(***************************************************************************)
After(r) == CASE r = "game" -> "status" [] r = "status" -> "relay" [] r = "relay" -> "database"

\* External: bind refuses a port on which someone listens at an overlapping address.
Overlap(a, b) == a.port = b.port /\ (a.address = b.address \/ "any" \in {a.address, b.address})
InUse(e) ==
  \/ \E t \in Taken : Overlap(t, e)
  \/ \E r \in Role : acceptor[r].kind = "tcp" /\ Overlap(acceptor[r], e)

\* What bind makes of a TCP endpoint: the kernel chooses a port for port 0.
Bound(e) ==
  {Tcp(e.address, p) : p \in {p \in IF e.port = 0 THEN Ephemeral ELSE {e.port} :
                                ~InUse(Tcp(e.address, p))}}

BindNone(r) ==
  /\ pc = r
  /\ endpoint[r].kind = "none"
  /\ pc' = After(r)
  /\ UNCHANGED <<args, endpoint, acceptor, files, exit_code, starts>>

BindTcp(r) ==
  /\ pc = r
  /\ endpoint[r].kind = "tcp"
  /\ \E e \in Bound(endpoint[r]) : acceptor' = [acceptor EXCEPT ![r] = e]
  /\ pc' = After(r)
  /\ UNCHANGED <<args, endpoint, files, exit_code, starts>>

RemovedNothing(p) == files[p]  \* mutant: a file that is in the way stays there
\* What fs::remove leaves at the path; its error is ignored.
Removed(p) == IF p \in Blocked THEN files[p] ELSE Absent

\* Mutant: fs::remove comes after the bind.
UnixSocketRemoved(r) == Absent
\* The file the acceptor's constructor makes, with the permissions asked for.
UnixSocket(r) == Socket(r, starts, endpoint[r].perms)

BindUnix(r) ==
  /\ pc = r
  /\ endpoint[r].kind = "unix"
  /\ Removed(endpoint[r].path) = Absent
  /\ files' = [files EXCEPT ![endpoint[r].path] = UnixSocket(r)]
  /\ acceptor' = [acceptor EXCEPT ![r] = endpoint[r]]
  /\ pc' = After(r)
  /\ UNCHANGED <<args, endpoint, exit_code, starts>>

\* The acceptor's constructor throws; bind refuses a path at which there is a file.
BindThrows(r) ==
  /\ pc = r
  /\ \/ endpoint[r].kind = "tcp" /\ Bound(endpoint[r]) = {}
     \/ endpoint[r].kind = "unix" /\ Removed(endpoint[r].path) # Absent
  /\ Exit(1)

OpenDatabase ==
  /\ pc = "database"
  /\ pc' = "running"
  /\ UNCHANGED <<args, endpoint, acceptor, files, exit_code, starts>>

OpenDatabaseThrows ==
  /\ pc = "database"
  /\ DatabaseMayFail
  /\ Exit(1)
-----------------------------------------------------------------------------
\* The acceptors are closed; sessions go on until the drain timer.
on_stop_signal ==
  /\ pc = "running"
  /\ pc' = "draining"
  /\ acceptor' = [r \in Role |-> Closed]
  /\ UNCHANGED <<args, endpoint, files, exit_code, starts>>

on_drained ==
  /\ pc = "draining"
  /\ Gone
  /\ exit_code' = 0

\* The process is killed, at any point.
Killed ==
  /\ pc # "down"
  /\ Gone
  /\ UNCHANGED exit_code

Next ==
  \/ \E a \in CommandLines : Start(a)
  \/ ExitWithUsage
  \/ ParseThrows
  \/ Parse
  \/ \E r \in Role : BindNone(r) \/ BindTcp(r) \/ BindUnix(r) \/ BindThrows(r)
  \/ OpenDatabase
  \/ OpenDatabaseThrows
  \/ on_stop_signal
  \/ on_drained
  \/ Killed

Spec == Init /\ [][Next]_vars
-----------------------------------------------------------------------------
TypeOK ==
  /\ pc \in Role \cup {"down", "parsing", "database", "running", "draining"}
  /\ args \in CommandLines \cup {<<>>}
  /\ \A r \in Role :
       /\ endpoint[r].kind \in {"none", "tcp", "unix"}
       /\ endpoint[r].kind = "tcp" => endpoint[r].port \in 0..PortMax
       /\ acceptor[r].kind = "tcp" => acceptor[r].port \in 1..PortMax
  /\ exit_code \in {NoExit, 0, 1, 2, 64}
  /\ starts \in 0..MaxStarts

(***************************************************************************)
(* The command lines of the usage text: up to two endpoints, then --relay  *)
(* or not, then an endpoint for the relay or none, in which case there has *)
(* to be a next port.                                                      *)
(***************************************************************************)
IsEndpoint(x) ==
  \/ x.form = "unix" /\ x.path \notin TooLong
  \/ x.form = "tcp" /\ x.port \in 0..PortMax /\ x.address # "bad"
HasNextPort(a) == a = <<>> \/ (a[1].form = "tcp" /\ a[1].port < PortMax)

InGrammar(a) ==
  \E n \in 0..2 :
    /\ n <= Len(a)
    /\ \A i \in 1..n : IsEndpoint(a[i])
    /\ \/ Len(a) = n
       \/ Len(a) = n + 1 /\ a[n + 1].form = "relay" /\ HasNextPort(SubSeq(a, 1, n))
       \/ Len(a) = n + 2 /\ a[n + 1].form = "relay" /\ IsEndpoint(a[n + 2])

(***************************************************************************)
(* The process goes on to bind its endpoints only for the command lines    *)
(* that the usage text allows, and answers none of them with the usage     *)
(* text: no combination of counts, positions, a second --relay or a late   *)
(* --help is misread.                                                      *)
(***************************************************************************)
CommandLineIsGrammar ==
  [][pc = "parsing" =>
       /\ pc' = "game" => InGrammar(args)
       /\ exit_code' = 64 => ~InGrammar(args)]_vars

RelayDefaulted == has_relay(args) /\ relay_args(args) = <<>>

NextTo(relay, game) == relay.address = game.address /\ relay.port = game.port + 1

(***************************************************************************)
(* "When --relay is provided without an argument, the relay binds to the   *)
(* same address as the game server on the next port number"                *)
(* (source/main.cpp:81), for a game server with a port of its own: the     *)
(* largest port has no next one, and the server does not start instead of  *)
(* binding the relay elsewhere.                                            *)
(***************************************************************************)
RelayIsNextToFixedPort ==
  pc = "running" /\ RelayDefaulted /\ endpoint["game"].port # 0 =>
    NextTo(acceptor["relay"], acceptor["game"])

(***************************************************************************)
(* What earlier processes left at a path, whether they stopped, failed     *)
(* half way or were killed, keeps no later one from binding it: a UNIX     *)
(* endpoint is refused only where a file was that cannot be removed.       *)
(***************************************************************************)
LeftoversDoNotBlock ==
  [][\A r \in Role :
       pc = r /\ exit_code' # NoExit /\ endpoint[r].kind = "unix" =>
         endpoint[r].path \in Blocked]_vars

\* The path of role r leads to the socket r listens on, with its permissions.
Reachable(r) ==
  files[acceptor[r].path] = Socket(r, starts, acceptor[r].perms)

(***************************************************************************)
(* While the server runs, the path of each UNIX endpoint leads to its own  *)
(* socket, with the permissions asked for, if no two of its endpoints      *)
(* share a path.                                                           *)
(***************************************************************************)
DistinctPathsAreReachable ==
  pc = "running" =>
    \A r \in Role : acceptor[r].kind = "unix" =>
      \/ Reachable(r)
      \/ \E q \in Role \ {r} : acceptor[q].kind = "unix" /\ acceptor[q].path = acceptor[r].path

=============================================================================
