---------------------------- MODULE MCRxFraming ----------------------------
(***************************************************************************)
(* Small packets in a small buffer: a login of 4 bytes, a connect of 2, a  *)
(* chat of 3, a buffer of 5.  Every stream of TailLen bytes is tried on    *)
(* its own and after a login; payload bytes look like opcodes.             *)
(***************************************************************************)
EXTENDS RxFraming

CONSTANT TailLen  \* bound: bytes after the login

\* One byte for each handler and one, 9, that has none; 9 also marks a bad payload.
Byte == {OPCODE_PING, OPCODE_LOGIN, OPCODE_CONNECT, OPCODE_DISCONNECT, OPCODE_SCAN,
         OPCODE_CHAT, 9}

Tails == [1..TailLen -> Byte]
GoodLogin == <<OPCODE_LOGIN, 1, 2, 3>>
BadLogin == <<OPCODE_LOGIN, 1, 2, 9>>
MCStream == Tails \cup {GoodLogin \o t : t \in Tails} \cup {BadLogin \o GoodLogin}
MCRefusedLogin == {BadLogin}
MCRefusedConnect == {<<OPCODE_CONNECT, 9>>}

=============================================================================
