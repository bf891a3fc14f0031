# A TLA+ model of adhoc-ng

adhoc-ng is a server for PSP ad-hoc games: a *lobby*, where clients log in to a
game, join groups and chat, and a *relay*, which forwards the datagrams (PDP)
and streams (PTP) of their games. This directory holds a model of it, the TLC
configurations that check the model on small instances, and TLAPS proofs.

## The system

Everything runs on one thread (`io_context{1}` in `main.cpp`) as C++20
coroutines. A coroutine gives up control only at a `co_await`, so data races do
not exist; what is hard is what happens *between* two resumptions:

* An operation completes, its result waits in the io_context's queue, and other
  coroutines run before the one that awaits it is resumed. Cancelling an
  operation (`close()`, `expires_after()`, `cancel()`) reaches pending
  operations, not queued results: a read that succeeded or a timer that fired is
  still delivered as such.
* Objects are connected by raw pointers (lobby) and by name (relay), and the
  order in which sessions go away is up to the clients.
* Coroutines are spawned detached: an exception ends one of them silently.

| Component | State | Operations | Interacts with |
| --- | --- | --- | --- |
| Lobby registry (`registry.cpp`) | games, groups, member lists, `connection_count_` | `try_open_connection`, `handle_login`/`connect`/`disconnect`/`scan`/`chat`, `close_connection`, `broadcast_shutdown` | called by readers and the accept loop; sends to other sessions; looks up the database |
| Game session (`session.cpp`) | `closed_`, two timers, write queue, rx buffer | coroutines `reader`, `writer`, `watchdog`; `send_bytes`, `close` | the socket; the registry |
| Game server (`game_server.cpp`) | none | accept loops (TCP, UNIX) | takes a slot, starts sessions |
| Product database (`database.cpp`) | SQLite tables `productids`, `crosslinks` | `apply_crosslink`, `record_unknown_product`, `display_name_for` | called by `handle_login`; throws on every SQLite error |
| Relay (`relay_server.cpp`) | sessions by name, waiters, active count; per session flags and a bounded queue | `run` (init, PTP handshake, `forward_loop`, `finish`), `writer` | other relay sessions, by name; the directory |
| Relay directory (`relay_server.cpp`) | listed ports per MAC address | `add`, `remove`, `find` | written by relay sessions, read by the status page |
| Status server (`status_server.cpp`) | one coroutine per HTTP connection | `build_status_games`, `build_status_json` | reads registry, directory, database |
| Main (`main.cpp`) | endpoints, acceptors; socket files outlive the process | argument parsing, `to_acceptor`, stop signal, drain timer, exit codes | starts and stops everything |

What makes each part correct:

* **Registry.** No list holds a pointer to a session that is gone; no session
  points to a node that is gone; no node is left empty; slots are neither leaked
  nor oversubscribed; members know who is in their group.
* **Session.** Every queued buffer is noticed by the writer; `close()`, whoever
  calls it, ends all three coroutines; an idle client is closed and an active
  one is not; the session is reaped once, by its reader. What the handlers get
  does not depend on how the network splits and merges the client's bytes.
* **Relay.** A name leads to a live session; a superseded session does no harm
  to its successor; a waiting connect is woken and never stranded; both ends of a
  stream end together; the directory shows no port nobody has open, and its
  sorted lists behave as a set of ports.
* **Status server.** A page shows the lobby and the ports as they are when it is
  built, although it is put together from the sessions' own pointers.
* **Main.** The command line means what the usage text says, and a server starts
  whatever its predecessor left behind.

## Modules

| Module | Models |
| --- | --- |
| `ProductDb` | the product tables, a missing database, SQLite errors |
| `Registry` | `registry.cpp`: one operator per handler |
| `GameServer` | `Registry` composed with the accept loops, the packet dispatch of the reader and the stop signal; the lobby's properties |
| `Lobby` | abstract specification: each session's place, changed only by its own steps |
| `Session` | the three coroutines of one `session_impl` |
| `SessionLife` | abstract specification: open, closed, reaped or orphaned |
| `RxFraming` | the rx buffer of `session_impl` and how `reader` cuts packets from the byte stream |
| `Relay` | relay registry, relay sessions, directory and acceptor |
| `RelayDirectory` | `relay_directory`: a map of sorted port lists |
| `PortList` | abstract specification: a set of listed ports, as `Relay` uses it |
| `StatusServer` | `GameServer` and `RelayDirectory` composed with the status server that reads them |
| `Startup` | the process of `main.cpp`: command line, binding, stop, crash and restart |
| `MCGameServer`, `MCRelay`, `MCRxFraming`, `MCStatusServer`, `MCStartup` | constants for TLC |
| `ListLemmas` | lemmas on `Append`, `RemoveFirst`, `ToSet` and least numbers |
| `GameServerProofs`, `SessionProofs`, `RxFramingProofs`, `RelayProofs`, `RelayDirectoryProofs`, `StatusServerProofs`, `StartupProofs` | theorems about the module of that name |

**ProductDb, Registry, GameServer.** An action is one packet handled by a reader
from its read to its next one: the handler, and, when it refuses, the close and
the reaping that follow without giving up control. A read may bring several
packets at once; handling them one by one allows more interleavings than the
code has, so what holds here holds for it. A `game_node` is named by its product
code, a `group_node` by game code and group name (the keys of the maps that own
them); a pointer is such a key and dangles when the key is gone. `life` is each
session's stage as the registry can tell it. `close` is the step of a watchdog or
writer that closes a session, which stays listed until `ReadAborted`, its
reader's resumption. `told`, `bssid` and `founder` are history variables: what a
member was sent since it joined, and who created a group. `on_stop_signal`
includes `broadcast_shutdown` (a chat message to every group member, which only
fills write queues) and leaves an accept that had completed before to be
delivered (`"last_accept"`). MAC addresses and nicknames are the session's own
and are represented by it; IP addresses are not, because DISCONNECT carries
nothing else and several sessions may share one.

**Session.** Each coroutine has a state that says which operation it awaits or
which result waits for it. `ReaderHandles(n)` is a read's whole batch that
queues `n` buffers for the session itself; how the batch is cut from the buffer
is `RxFraming`'s subject. `life` of this module is the refinement mapping to
`SessionLife`, and `GameServer` uses the lives in the same sense.

**RxFraming.** `stream` is all that the client sends, `got` how much of it reads
have brought, `rx_` the used part of the buffer (`rxpos_` is its length). A read
brings any number of bytes that fits. The packet loop is one step per packet,
with the handlers' verdict: refused, accepted, or an opcode the session's state
does not allow. `handled` is the history of packets with their place in the
stream. The sizes 144, 9 and 65 and the buffer's 1024 bytes are constants of
which only the order is assumed. A login that throws is left to `Session`.

**Relay.** A step is the run of a session's `run()` from one `co_await` to the
next, with all it does to other sessions: superseding, waking, sending, and
closing those whose queue overflows. A MAC address and port are one `Address`;
`data_queue_size_limit` counts buffers instead of bytes. The writer is the same
code as the game session's, which `Session` has in full, so here it only takes
buffers, completes or fails. The name-based lookups are kept as they are: a
block goes to, and a finished end closes, whoever has the peer's name then. The
directory is a set here; `RelayDirectory` has the map of two sorted vectors per
MAC address that implements it (`ImplementsPortList`, with `PortList` in between).

**StatusServer.** `LobbyStep` is any step of `GameServer`, `RelayStep` any change
of the directory; status connections are accepted, ask for the page or for
something else, are kept alive or not, and fail. A page is built in one step (the
code has no `co_await` there): `snapshot_for_status` in an arbitrary order of the
games, then `build_status_games` as a fold over the users with the two indexes,
then the ports of each user's MAC address. `page` is that value, kept for one
step. A display name is represented by its code and whether it comes from a row
of the table. A lookup that throws ends the connection's coroutine.

**Startup.** An argument is what `parse_endpoint` can tell of its text. `Start`
takes any command line; `Parse`, `ExitWithUsage` and `ParseThrows` are the ways
out of the parsing; then the three acceptors are made in turn, the database is
opened and the server runs until it is stopped and drained, or is killed at any
point (`Killed`). `files` is what is at each path: binding a UNIX endpoint first
removes what is there and then makes a socket file, which outlives the process.
TCP ports taken by others, ephemeral ports, files that cannot be removed and
paths too long for a socket address are constants.

## Runs

| Run | Configuration | Result |
| --- | --- | --- |
| `game_server_safety` | 3 sessions (two at one address), 3 slots, 2 playable games (one crosslinked), 2 valid group names and an invalid one, SQLite may fail | passes, 177,968 states |
| `game_server_full` | the same with 2 slots | passes, 7,736 states |
| `session_life` | 1 session, 3 buffers, login may throw, with fairness | passes, 823 states |
| `rx_framing` | every stream of 5 bytes, alone and after a login, in every chunking; packets of 4, 3, 2 and 1 bytes, a buffer of 5; with fairness | passes, 1,283,975 states |
| `relay_safety` | 4 sessions of which 3 are admitted; a host that listens and accepts, a guest that connects and listens, PDP sockets on both | passes, about 189,000 states |
| `relay_liveness` | 3 sessions, with fairness, no symmetry | passes, about 103,000 states |
| `relay_directory` | 2 MAC addresses, 3 ports | passes, 8,192 states |
| `status_page` | 3 users, 2 games, one group name, one MAC address with a port, 1 status connection, SQLite may fail | passes, 630,272 states |
| `startup` | 3 starts; all command lines of up to 3 of 12 arguments, and of 4 of the usual ones; ports 0 to 4 | passes, 419,528 states |
| `no_database` | 2 sessions, no database file | violation: see Findings |
| `relay_accept`, `relay_replace` | 3 sessions | violations: see Findings |

**What the passing runs show.** `game_server_safety` checks the lobby's
invariants: good pointers both ways (`NoDanglingSession`,
`NodesListTheirSessions`), no empty nodes, `PeerViewMatchesGroup`
(CONNECTs minus DISCONNECTs queued to a member are, per address, the other
members), `FounderIsBssid` and `PlayedGamesAreRecorded`.
`game_server_full` has more clients than slots and checks that
`connection_count_` is exact and bounded (`SlotAccounting`), and the refinement of
`Lobby`. `session_life` checks the wake-up of the writer, that `close()` leaves
nothing pending, that a timeout is never premature (the timer may fire just
before data restarts it) and never missing, and the refinement of `SessionLife`.
The relay runs check names, superseding, waiters, bonds, directory and session
count, that a closed session waits for nothing any more
(`ClosedSessionsAreResumed`), and that every session that is being set up or was
closed settles.
`rx_framing` checks that the handlers get the stream cut at its own boundaries
(`PacketsAreTheStream`), that the reader never waits with a complete packet or a
full buffer (`BufferHoldsPartOfPacket`: the "buffer full" branch of
`session.cpp:98` cannot be reached), and that the packet loop never spins.
`relay_directory` checks that removals by key, in any order and of entries that
are gone, keep the lists sorted and unique and leave no empty address.
`status_page` compares each page with the registry's nodes (`PageShowsLobby`) and
with the directory (`PageShowsPorts`), while sessions that were closed are still
to be reaped. `startup` compares the argument handling with the grammar of the
usage text (`CommandLineIsGrammar`), and checks the relay's default port and that
UNIX endpoints can be bound and reached after every kind of end.

**Bounds.** Three lobby sessions are enough for a member that stays, one that
leaves and one that joins, in any order, and for two that share an address while
the third does not. With three slots all of them can be in
one group; with two the limit binds. Three relay
sessions at a time are a listener, a connect and an accept, or a pair and one that
replaces either of them, and with a fourth the limit on sessions binds; a session
that is gone may come back as another. Two buffers fill a relay queue.
A buffer one byte longer than the longest packet is the tightest the framing
allows, and five bytes hold a packet of each kind and part of the next. Three
users make a page whose users alternate between two groups of a game. Three
starts are one that leaves files, one that replaces them and one that finds
both; the longest command line of the usage text has four arguments.
`QueueBound` bounds the unbounded write queue of a game session: `send_bytes` is
not enabled above it; three buffers leave room for a batch queued while a write
is out. Symmetry is used in safety runs only, over sessions nothing tells apart.

**Fairness.** `RxFraming` assumes that the thread does not stop inside the packet
loop. `Session` and `Relay` assume that the io_context's thread delivers
every queued result, and that time passes, so that timers run out. Nothing is
assumed of clients: reads and writes may stay pending for ever, and no new
client need come. Both are weak fairness: a queued result stays queued, and a
running timer stays running until it fires or is cancelled. The idle timer is
restarted by each read, which is why `SilentClientIsClosed` speaks of a client
from which nothing more is delivered.

**Deadlock** is not checked for `Session` and `RxFraming` (a session ends), the
lobby, the status server and `Startup` (the process stops).

## Findings

* `no_database`: `database.cpp:92` says "product lookups will be no-ops" when
  the file is missing. The handle stays null, the first lookup of a valid login
  fails, `ckd_` throws, and the exception ends the detached reader:
  `close_connection` never runs. The watchdog later closes the socket, but the
  slot is lost. Any SQLite error at run time does the same (`SlotAccounting`
  counts such orphans as holders, and `SilentClientIsClosed` includes them).
* `relay_accept`: a listener and the accepts it leads to share MAC address, port
  and port kind, hence one directory entry. `register_self` of the accept is
  refused although its connect waits; `finish()` then closes that connect and
  removes the *listener's* entry, whereupon the next attempt succeeds.
* `relay_replace`: `add()` announces "replacing session" and supersedes the old
  one, whose directory entry is still there, so the new one is refused as well.

Further observations, not stated as violations: `finish()` removes the
directory entry by key even when the entry was made by another session, so an
open port can be missing from the status page (`DirectoryIsBacked` is one
direction only for this reason); once a founder leaves its group, later
joiners are told a different BSSID from the earlier ones; with game port 0 the
default relay port is 1 and not the one after the port the kernel chose
(`main.cpp:295`; `RelayIsNextToFixedPort` excludes port 0); and of two endpoints
with the same UNIX path the second removes the first one's socket file
(`main.cpp:200`), so that the first listens where nobody can connect
(`DistinctPathsAreReachable` excludes this).

## Proofs

All theorems hold for every value of the constants that satisfies the named
assumptions of the modules: any finite set of sessions, any games, groups,
crosslinks and slots, with or without a database; any byte stream; any relay
sessions, addresses and init packets; any ports; command lines of any length.
`Startup` assumes of a command line that it is a sequence of arguments whose ports
are numbers and whose paths are paths. There is one theorem per property. Where a property is not inductive, a theorem
`...Invariant` proves the stronger one first, and the others follow from it.

**Lobby** (`GameServerProofs`). The pointer properties are not inductive:
removing the first occurrence of a session from a list removes the session only if
it occurs once. `LobbyInv` says for games (`GamesInv`) and groups (`GroupsInv`)
that each live node's list has no duplicates, is not empty and lists exactly the
sessions that point to the node, and (`LivesInv`) that a session with a game is
open or closed. There is one lemma per handler (`LoginStep`, `ConnectStep`,
`DisconnectStep`, `ReapStep`); `StepCases` reduces `Next` to them.

* `LobbyInvariant`, and from it `LobbyTypes`, `ListedSessionsLive`,
  `PointersAreGood` and `NodesHaveMembers`.
* `SlotsAreAccounted`, with cardinality lemmas for adding and removing a holder.
* `GamesAreRecorded`: the row is made, in the same step, under the code that the
  session then plays.
* `FounderStaysInFront`: inductive on top of `LobbyInv`, for which a removal
  must keep the front of the list unless it removes it (`RemoveKeepsHead`).
* `ViewsMatchGroups`: what a member was told counts the others of each address.
  `NewcomerIsCounted` and `LeaverIsDiscounted` are the two cardinality steps; they
  hold for shared addresses because a DISCONNECT takes one count away, not all.
* `ServerImplementsLobby`: under `LobbyInv` the place read off the lists is the
  one the session's pointers give (`PlacesArePointers`), and each step then maps
  to a step of `Lobby` or to a stutter.
* `SessionsLiveAsPromised`: each session of the lobby's model lives as
  `SessionLife` says, which is what `Session` implements (`SessionRefinesLife`).
  The two models of a session meet in that specification.

**Session** (`SessionProofs`). `SessionInvariant` adds `NotStarted` (before
`start()` nothing is closed and no coroutine runs) to the invariants; from it
`SessionTypes`, `WakeupsAreKept`, `SessionSafety`, `ListedSessionIsHeld`, the
action property `TimeoutSafety` and the refinement `SessionRefinesLife`.

**Framing** (`RxFramingProofs`). `FramingTypes`, `FramingIsExact` and
`BufferNeverFull` are inductive together (`FramingInv`): the size of a packet is
read from the buffer, whose first byte is known to be the stream's byte at the
packet's place (`BufferPosition`). `ReadBytes` and `TakenBytes` say what a read
adds to the buffer and what `consume_rx` leaves. `RoundsMakeProgress` gives the
measure behind `PacketLoopEnds`: a round of the packet loop leaves it or lowers
`Work`, the bytes left and whether the session is still open.

**Relay** (`RelayProofs`). The invariants about names, waiters, bonds and the
directory need each other, and need `Stages`: what a session may have at each
stage of `run()`. A session that is not registered has nothing queued and is
neither closed nor superseded; only a connect waits; superseding closes. Without
it a step could start from a session that, say, is awaiting an accept under the
name of a listener. `RelayInv` is their conjunction. `RunMoves` and `RunKeeps`
say what one run of a session does to the others; there is one lemma per way in
which a run ends (`RefusedStep`, `FinishStep`, `ReadyStep`, `AwaitStep`...).

* `RelayInvariant`, and from it `RelayTypes`, `NamesAreGood`, `NamesAreUnique`,
  `ListenersAreNoticed`, `StreamsHaveTwoEnds` and `PortsAreBacked`.
  `StreamsHaveTwoEnds` rests on `PeerOfPeer`: the peer of a stream's peer is the
  stream, so the end that `finish()` closes by name is the one that was bonded.
* `PlacesAreCounted`: `active_count_` is the number of sessions that have not
  finished (`PlaceTaken`, `PlaceGivenBack`, `PlacesKept`).
* `ClosingEndsWaits`: inductive on top of `RelayInv`, which says that only
  registered sessions are ever closed. Whoever is closed by another's step has
  its result ready (`OthersAreResumed`), and a run begins a wait only with a
  session that this very step leaves open (`RunResumes`).

**Directory** (`RelayDirectoryProofs`). `LowerBound` shows that in a strictly
ascending vector there is a position as `std::lower_bound` promises it, from the
least-number principle (`LeastNumber`); `FoundAtLowerBound` that looking at that
position decides membership; `InsertedPort` and `ErasedPort` that the two edits
keep the order and change the set by one port. `DirectoryStaysTidy` and the
refinement `DirectoryImplementsPortList` follow with `PortSets`, the shape of the
map, as strengthening. The order is needed for the refinement: `add()` on an
unsorted vector could miss a port that is there.

**Status page** (`StatusServerProofs`). `PagesShowPorts` uses the directory's
lemmas through an instance of `RelayDirectoryProofs` (`SameDirectory` says the two
instances agree); the page is built in a step that leaves the directory alone.

`PagesShowLobby` compares what a loop over all users has collected with the
registry's nodes. The argument has four parts:

1. the snapshot lists every session that is in a game, once
   (`SnapshotListsPlayers`);
2. the loop adds the users of the snapshot one by one (`FoldSteps`), so that what
   each turn keeps holds of the page. This is an induction over the length of
   the list; it is done with a set of numbers (`NumberInduction` in
   `ListLemmas`), for this fold;
3. a turn adds its user to the game and the group it belongs to, makes either
   where it was missing, and changes no other (`GroupGetsUser`, `PageGetsUser`).
   Hence each game and each group is named once, and counts and lists just the
   users added so far (`PageShowsPlayers`);
4. by `LobbyInv` and `PlayedGamesAreRecorded` these are the users that the
   nodes list, under the name in the game's row (`MembersAreShown`,
   `LonersAreShown`, `ShownGamesMatch`).

The last part needs the lobby's invariants in the composition, where the status
server and the relay run too. `StatusServerOnlyReads` says that the composition
implements the game server's specification, so every theorem about the lobby
holds there.

**Start-up** (`StartupProofs`). `StartupInv` says which roles are bound when
(`BoundRoles`), that a bound acceptor is what the command line asked for
(`Listens`), that its path leads to it or is shared (`Led`), and that nothing else
is bound. From it `StartupTypes`, `DefaultRelayIsNextPort`,
`UnixPathsAreReachable` and `LeftoversAreReplaced`. `UsageTextIsExact` rests on
`UsageIsGrammar`, about any command line: the first `--relay` is where the
grammar has it (`SplitOfGrammar`), and the three endpoints are good just when
the arguments are in the grammar (`GrammarIffGoes`). It needs
`default_server_port` to be less than the largest port (it is 27312): otherwise
`--relay` alone would be in the grammar and be refused.

**Only model-checked.** Liveness under fairness (`ClosedSessionEnds`,
`SilentClientIsClosed`, `SessionsSettle`, `PacketLoopEnds`) is out of the
prover's reach. What is safety in it is proved: nothing stays pending on a closed
session (`SessionSafety` for the game server, `ClosingEndsWaits` for the relay),
and the packet loop has a measure (`RoundsMakeProgress`). The three violations
are counterexamples on instances. Every invariant, every action property and
every refinement that the passing runs check is also a theorem.

## Not modelled

* Text: HTTP and JSON with its escaping, the layout of the packets' fields, chat
  messages and scan answers, log messages, the regular expressions of
  `parse_endpoint`.
* At start-up: a failing `fs::permissions` and the moment between bind and
  chmod, a full standard output, an empty `argv`, console code pages.
* Stop of the relay acceptor (it only ends `Accept`, on which nothing relies).
* Memory exhaustion: the game session's write queue has no limit in the code.

## Plan

1. *(done)* `Registry`, `GameServer`, `Lobby`; `Session`, `SessionLife`; `Relay`.
2. *(done)* `RxFraming` with its proof; `RelayDirectory`; `StatusServer`; `Startup`.
3. *(done)* Proofs of every safety invariant, action property and refinement that
   the runs check.
4. The contents of a member's write queue, so that what a client is told can be
   compared with what the registry sent in order.
