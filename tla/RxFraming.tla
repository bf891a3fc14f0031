----------------------------- MODULE RxFraming -----------------------------
(***************************************************************************)
(* How session_impl::reader (source/session.cpp) cuts the byte stream of   *)
(* one client into packets: the buffer rx_ with its fill level rxpos_, the *)
(* outer loop that reads and the inner loop that takes packets off the     *)
(* front of the buffer, and the verdict of the registry's handlers.        *)
(*                                                                         *)
(* TCP keeps the order of the bytes and nothing else: a read may bring any *)
(* part of what was sent, so packets arrive split and merged.  `stream` is *)
(* what the client sends, from first byte to last; `got` is how much of it *)
(* the reads have brought so far.                                          *)
(***************************************************************************)
EXTENDS Integers, Sequences

CONSTANTS
  Stream,         \* the byte sequences a client may send
  RefusedLogin,   \* login packets that valid_login_packet refuses
  RefusedConnect, \* connect packets whose name valid_group_name refuses
  RxSize,         \* sizeof(rx_)
  LoginSize,      \* sizeof(login_packet_c2s)
  ConnectSize,    \* sizeof(connect_packet_c2s)
  ChatSize        \* sizeof(chat_packet_c2s)

OPCODE_PING == 0
OPCODE_LOGIN == 1
OPCODE_CONNECT == 2
OPCODE_DISCONNECT == 3
OPCODE_SCAN == 4
OPCODE_CHAT == 7

(***************************************************************************)
(* The sizes the static_asserts of protocol.hpp give are 9, 65 and 144,    *)
(* and rx_ has 1024 bytes: their order is all that the framing needs.      *)
(***************************************************************************)
ASSUME FramingAssumption ==
  /\ RxSize \in Nat /\ LoginSize \in Nat /\ ConnectSize \in Nat /\ ChatSize \in Nat
  /\ 1 < ConnectSize /\ ConnectSize <= ChatSize
  /\ ChatSize <= LoginSize /\ LoginSize < RxSize
  /\ Stream \subseteq Seq(0..255)

VARIABLES
  stream,   \* history: all that the client sends
  got,      \* how many bytes of it the reads have brought
  rx_,      \* the first rxpos_ bytes of the buffer
  game,     \* session.game # nullptr
  group,    \* session.group # nullptr
  closed_,
  reader,   \* "reading", "parsing" (inside the packet loop) or "done"
  handled   \* history: the packets taken, and the stream position of each

vars == <<stream, got, rx_, game, group, closed_, reader, handled>>

rxpos_ == Len(rx_)

Init ==
  /\ stream \in Stream
  /\ got = 0
  /\ rx_ = <<>>
  /\ game = FALSE
  /\ group = FALSE
  /\ closed_ = FALSE
  /\ reader = "reading"
  /\ handled = <<>>

\* What a packet that begins with this byte occupies.
SizeOf(op) ==
  CASE op = OPCODE_LOGIN -> LoginSize
    [] op = OPCODE_CONNECT -> ConnectSize
    [] op = OPCODE_CHAT -> ChatSize
    [] OTHER -> 1
-----------------------------------------------------------------------------
\* Mutant: the whole buffer is offered again, not its free part.
ReadSomeOver(n) ==
  /\ reader = "reading"
  /\ n <= RxSize
  /\ rx_' = rx_ \o SubSeq(stream, got + 1, got + n)
  /\ got' = got + n
  /\ reader' = "parsing"
  /\ UNCHANGED <<stream, game, group, closed_, handled>>

(***************************************************************************)
(* async_read_some is offered the free part of the buffer and completes    *)
(* with some of the bytes that have come.                                  *)
(***************************************************************************)
ReadSome(n) ==
  /\ reader = "reading"
  /\ n <= RxSize - rxpos_
  /\ rx_' = rx_ \o SubSeq(stream, got + 1, got + n)
  /\ got' = got + n
  /\ reader' = "parsing"
  /\ UNCHANGED <<stream, game, group, closed_, handled>>

(***************************************************************************)
(* The client hangs up, the read fails or is aborted, or the buffer is     *)
(* full, which the code tests and BufferHoldsPartOfPacket excludes.        *)
(***************************************************************************)
ReadFails ==
  /\ reader = "reading"
  /\ closed_' = TRUE
  /\ reader' = "done"
  /\ UNCHANGED <<stream, got, rx_, game, group, handled>>

\* The watchdog or the writer closes while the reader waits.
CloseElsewhere ==
  /\ reader = "reading"
  /\ ~closed_
  /\ closed_' = TRUE
  /\ UNCHANGED <<stream, got, rx_, game, group, reader, handled>>
-----------------------------------------------------------------------------
(***************************************************************************)
(* The packet loop, one packet per step; nothing else runs in between.     *)
(***************************************************************************)
op == Head(rx_)

IncompleteIfExact == rxpos_ <= SizeOf(op)  \* mutant: <= for <
Incomplete == rxpos_ < SizeOf(op)

\* An opcode the loop knows in the session's state.
Expected ==
  IF game
  THEN op \in {OPCODE_PING, OPCODE_CONNECT, OPCODE_DISCONNECT, OPCODE_SCAN, OPCODE_CHAT}
  ELSE op = OPCODE_LOGIN

\* Mutant: the bytes behind the packet go with it.
consume_all(n) == rx_' = <<>>
\* memmove of the rest to the front; n is cut to what there is.
consume_rx(n) == rx_' = SubSeq(rx_, (IF n > rxpos_ THEN rxpos_ ELSE n) + 1, rxpos_)

\* The registry's verdict on the packet at the front: see Registry.
Accepted(pkt) ==
  CASE op = OPCODE_LOGIN -> pkt \notin RefusedLogin
    [] op = OPCODE_CONNECT -> pkt \notin RefusedConnect /\ ~group
    [] op = OPCODE_SCAN -> ~group
    [] op = OPCODE_DISCONNECT -> group
    [] op = OPCODE_CHAT -> group
    [] OTHER -> TRUE

TakePacket ==
  LET n == SizeOf(op)
      pkt == SubSeq(rx_, 1, n)
  IN /\ reader = "parsing" /\ rxpos_ > 0 /\ ~closed_
     /\ Expected /\ ~Incomplete
     /\ consume_rx(n)
     /\ handled' = Append(handled, [at |-> got - rxpos_, packet |-> pkt])
     /\ closed_' = ~Accepted(pkt)
     /\ game' = (game \/ (op = OPCODE_LOGIN /\ Accepted(pkt)))
     /\ group' = CASE op = OPCODE_CONNECT /\ Accepted(pkt) -> TRUE
                   [] op = OPCODE_DISCONNECT /\ Accepted(pkt) -> FALSE
                   [] OTHER -> group
     /\ UNCHANGED <<stream, got, reader>>

\* Anything but LOGIN before the login, and unknown opcodes after it.
RefuseOpcode ==
  /\ reader = "parsing" /\ rxpos_ > 0 /\ ~closed_
  /\ ~Expected
  /\ closed_' = TRUE
  /\ UNCHANGED <<stream, got, rx_, game, group, reader, handled>>

\* Mutant: need_more is not set.
LoopSpins == rxpos_ > 0 /\ ~closed_
\* The condition of the packet loop; need_more is set by an incomplete packet.
LoopGoesOn == rxpos_ > 0 /\ ~closed_ /\ ~(Expected /\ Incomplete)

\* Back to while (!closed_): read again, or close() and close_connection.
LeaveLoop ==
  /\ reader = "parsing"
  /\ ~LoopGoesOn
  /\ reader' = IF closed_ THEN "done" ELSE "reading"
  /\ UNCHANGED <<stream, got, rx_, game, group, closed_, handled>>

ReaderRuns == TakePacket \/ RefuseOpcode \/ LeaveLoop

Next ==
  \/ \E n \in 1..(Len(stream) - got) : ReadSome(n)
  \/ ReadFails
  \/ CloseElsewhere
  \/ ReaderRuns

Spec == Init /\ [][Next]_vars

\* The thread that runs the packet loop does not stop in the middle of it.
FairSpec == Spec /\ WF_vars(ReaderRuns)
-----------------------------------------------------------------------------
TypeOK ==
  /\ stream \in Seq(0..255)
  /\ got \in 0..Len(stream)
  /\ rx_ \in Seq(0..255)
  /\ rxpos_ <= RxSize
  /\ game \in BOOLEAN
  /\ group \in BOOLEAN
  /\ closed_ \in BOOLEAN
  /\ reader \in {"reading", "parsing", "done"}
  /\ handled \in Seq([at : Nat, packet : Seq(0..255)])

\* s is the part of the received stream that follows its first `at` bytes.
InStream(s, at) ==
  /\ at + Len(s) <= got
  /\ \A j \in 1..Len(s) : s[j] = stream[at + j]

EndOf(h) == h.at + Len(h.packet)

(***************************************************************************)
(* However the reads split and merge the stream, the packets the handlers  *)
(* get are the stream cut at its own packet boundaries: the first begins   *)
(* at the first byte, each next one where the one before ends, each has    *)
(* the size its first byte says and the stream's bytes; and the buffer     *)
(* holds just the received bytes that follow the last one.                 *)
(***************************************************************************)
PacketsAreTheStream ==
  /\ \A i \in 1..Len(handled) :
       /\ InStream(handled[i].packet, handled[i].at)
       /\ Len(handled[i].packet) = SizeOf(stream[handled[i].at + 1])
       /\ handled[i].at = IF i = 1 THEN 0 ELSE EndOf(handled[i - 1])
  /\ InStream(rx_, got - rxpos_)
  /\ got - rxpos_ = IF handled = <<>> THEN 0 ELSE EndOf(handled[Len(handled)])

(***************************************************************************)
(* When the reader of an open session waits for more, the buffer holds no  *)
(* complete packet that was overlooked, nothing that could not become one, *)
(* and is not full: the read is never offered zero bytes, which would end  *)
(* the session as if the client had hung up.                               *)
(***************************************************************************)
BufferHoldsPartOfPacket ==
  reader = "reading" /\ ~closed_ =>
    /\ rx_ # <<>> => Expected /\ rxpos_ < SizeOf(op)
    /\ rxpos_ < RxSize

(***************************************************************************)
(* The packet loop ends: each round takes a packet or leaves, so a client  *)
(* cannot keep the only thread busy with a part of a packet.               *)
(***************************************************************************)
PacketLoopEnds == reader = "parsing" ~> reader # "parsing"

=============================================================================
