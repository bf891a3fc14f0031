----------------------------- MODULE MCStartup -----------------------------
(***************************************************************************)
(* Small ports: 0..4, and 5 for a number that is too large.                *)
(***************************************************************************)
EXTENDS Startup

TcpArg(address, port) == [form |-> "tcp", address |-> address, port |-> port]
UnixArg(path, perms) == [form |-> "unix", path |-> path, perms |-> perms]
Word(form) == [form |-> form]

\* Endpoints that start, or not, depending on what is there.
GoodArgs == {Word("relay"), UnixArg("a", "none"), UnixArg("b", "770"), TcpArg("lo", 2)}

\* Everything parse_endpoint tells apart.
AllArgs == GoodArgs \cup
  {Word("help"), Word("junk"), UnixArg("long", "770"), UnixArg("busy", "none"),
   TcpArg("any", 0), TcpArg("lo", PortMax), TcpArg("any", PortMax + 1), TcpArg("bad", 1)}

\* The longest command line of the usage text has four arguments.
MCCommandLines == SeqOf(AllArgs, 3) \cup [1..4 -> GoodArgs]

MCTaken == {[address |-> "any", port |-> PortMax]}

=============================================================================
