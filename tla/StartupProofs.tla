--------------------------- MODULE StartupProofs ---------------------------
(***************************************************************************)
(* The command line and the endpoints of source/main.cpp, for any command  *)
(* lines, any port numbers, any number of starts, and whatever was at the  *)
(* paths before the first.                                                 *)
(***************************************************************************)
EXTENDS Startup, ListLemmas, TLAPS

LEMMA RoleIs == Role = {"game", "status", "relay"}
BY DEF Role, Roles, ToSet

\* The alternatives of an endpoint, and what tells them apart.
LEMMA EndpointFields ==
  /\ None.kind = "none"
  /\ Closed.kind = "none"
  /\ \A ec : Error(ec).kind = "error"
  /\ \A a, p : Tcp(a, p).kind = "tcp" /\ Tcp(a, p).address = a /\ Tcp(a, p).port = p
  /\ \A p, m : Unix(p, m).kind = "unix" /\ Unix(p, m).path = p /\ Unix(p, m).perms = m
BY DEF None, Closed, Error, Tcp, Unix
-----------------------------------------------------------------------------
(***************************************************************************)
(* The command line                                                        *)
(***************************************************************************)
\* What an argument is known to be.
IsArg(x) ==
  /\ x.form = "tcp" => x.port \in Nat
  /\ x.form = "unix" => x.path \in Path

LEMMA ArgsAreTyped ==
  ASSUME NEW a \in CommandLines \cup {<<>>}
  PROVE  a \in Seq(ToSet(a)) /\ \A x \in ToSet(a) : IsArg(x)
<1>1. CASE a \in CommandLines
  BY <1>1, StartupAssumption DEF IsArg
<1>2. CASE a = <<>>
  <2>1. ToSet(a) = {} /\ a \in Seq({})
    BY <1>2, EmptySeq DEF ToSet
  <2> QED
    BY <2>1
<1> QED
  BY <1>1, <1>2

\* parse_endpoint, argument by argument.
LEMMA ParseEndpoint ==
  ASSUME NEW x, IsArg(x)
  PROVE  \/ /\ x.form = "unix"
            /\ parse_endpoint(x) = Unix(x.path, x.perms)
         \/ /\ x.form = "tcp" /\ x.port \in 0..PortMax /\ x.address # "bad"
            /\ parse_endpoint(x) = Tcp(x.address, x.port)
         \/ /\ x.form # "unix"
            /\ ~(x.form = "tcp" /\ x.port \in 0..PortMax /\ x.address # "bad")
            /\ parse_endpoint(x).kind = "error"
<1>1. CASE x.form = "unix"
  <2>1. parse_endpoint(x) = Unix(x.path, x.perms)
    BY <1>1, Zenon DEF parse_endpoint
  <2> QED
    BY <1>1, <2>1
<1>2. CASE x.form = "tcp" /\ x.port > PortMax
  <2>1. ~(x.port <= PortMax) /\ ~(x.port \in 0..PortMax)
    BY <1>2, StartupAssumption DEF IsArg
  <2>2. parse_endpoint(x) = Error("value_too_large")
    BY <1>2, <2>1, Zenon DEF parse_endpoint
  <2> QED
    BY <1>2, <2>1, <2>2, EndpointFields
<1>3. CASE x.form = "tcp" /\ x.port <= PortMax /\ x.address = "bad"
  <2>1. ~(x.port > PortMax)
    BY <1>3, StartupAssumption DEF IsArg
  <2>2. parse_endpoint(x) = Error("invalid_argument")
    BY <1>3, <2>1, Zenon DEF parse_endpoint
  <2> QED
    BY <1>3, <2>2, EndpointFields
<1>4. CASE x.form = "tcp" /\ x.port <= PortMax /\ x.address # "bad"
  <2>1. ~(x.port > PortMax) /\ x.port \in 0..PortMax
    BY <1>4, StartupAssumption DEF IsArg
  <2>2. parse_endpoint(x) = Tcp(x.address, x.port)
    BY <1>4, <2>1, Zenon DEF parse_endpoint
  <2> QED
    BY <1>4, <2>1, <2>2
<1>5. CASE x.form # "unix" /\ x.form # "tcp"
  <2>1. parse_endpoint(x) = Error("invalid_argument")
    BY <1>5, Zenon DEF parse_endpoint
  <2> QED
    BY <1>5, <2>1, EndpointFields
<1>6. x.form = "tcp" => x.port > PortMax \/ x.port <= PortMax
  BY StartupAssumption DEF IsArg
<1> QED
  BY <1>1, <1>2, <1>3, <1>4, <1>5, <1>6

\* next_port, endpoint by endpoint.
LEMMA NextPort ==
  ASSUME NEW e
  PROVE  \/ /\ e.kind = "tcp" /\ e.port # PortMax
            /\ next_port(e) = Tcp(e.address, e.port + 1)
         \/ /\ ~(e.kind = "tcp" /\ e.port # PortMax)
            /\ next_port(e).kind = "error"
<1>1. CASE e.kind = "tcp" /\ e.port # PortMax
  <2>1. next_port(e) = Tcp(e.address, e.port + 1)
    BY <1>1, Zenon DEF next_port
  <2> QED
    BY <1>1, <2>1
<1>2. CASE e.kind = "tcp" /\ e.port = PortMax
  <2>1. next_port(e) = Error("value_too_large")
    BY <1>2, Zenon DEF next_port
  <2> QED
    BY <1>2, <2>1, EndpointFields
<1>3. CASE e.kind # "tcp"
  <2>1. next_port(e) = Error("invalid_argument")
    BY <1>3, Zenon DEF next_port
  <2> QED
    BY <1>3, <2>1, EndpointFields
<1> QED
  BY <1>1, <1>2, <1>3

LEMMA EndpointsAre ==
  ASSUME NEW a
  PROVE  /\ Endpoints(a)["game"] = game_endpoint(a)
         /\ Endpoints(a)["status"] = status_endpoint(a)
         /\ Endpoints(a)["relay"] = relay_endpoint(a)
BY RoleIs, Zenon DEF Endpoints

\* relay_index is the first --relay, or 0 where there is none.
LEMMA RelayIndex ==
  ASSUME NEW S, NEW a \in Seq(S)
  PROVE  \/ /\ relay_index(a) = 0
            /\ \A i \in 1..Len(a) : a[i].form # "relay"
         \/ /\ relay_index(a) \in 1..Len(a)
            /\ a[relay_index(a)].form = "relay"
            /\ \A i \in 1..(relay_index(a) - 1) : a[i].form # "relay"
<1> DEFINE N == {i \in 1..Len(a) : a[i].form = "relay"}
<1>1. Len(a) \in Nat
  BY LenProperties
<1>2. relay_index(a) = IF N = {} THEN 0 ELSE Min(N)
  BY DEF relay_index, SelectInSeq
<1>3. CASE N = {}
  BY <1>2, <1>3
<1>4. CASE N # {}
  <2>1. N \in SUBSET Nat
    BY <1>1
  <2>2. \E n \in N : \A m \in N : n <= m
    <3> HIDE DEF N
    <3> QED
      BY <1>4, <2>1, LeastNumber
  <2>3. Min(N) \in N /\ \A m \in N : Min(N) <= m
    <3> HIDE DEF N
    <3> QED
      BY <2>2 DEF Min
  <2>4. PICK k \in N : k = relay_index(a) /\ \A m \in N : k <= m
    <3> HIDE DEF N
    <3> QED
      BY <1>2, <1>4, <2>3
  <2>5. ASSUME NEW i \in 1..(k - 1) PROVE a[i].form # "relay"
    <3>1. i \in 1..Len(a) /\ ~(k <= i)
      BY <1>1
    <3> QED
      BY <2>4, <3>1
  <2> QED
    BY <2>4, <2>5
<1> QED
  BY <1>3, <1>4

\* The two halves of the arguments, index by index.
LEMMA Halves ==
  ASSUME NEW S, NEW a \in Seq(S)
  PROVE  /\ server_args(a) \in Seq(S)
         /\ Len(server_args(a)) = IF has_relay(a) THEN relay_index(a) - 1 ELSE Len(a)
         /\ \A i \in 1..Len(server_args(a)) : server_args(a)[i] = a[i]
         /\ relay_args(a) \in Seq(S)
         /\ Len(relay_args(a)) = IF has_relay(a) THEN Len(a) - relay_index(a) ELSE 0
         /\ \A i \in 1..Len(relay_args(a)) : relay_args(a)[i] = a[relay_index(a) + i]
<1>1. Len(a) \in Nat /\ \A i \in 1..Len(a) : a[i] \in S
  BY LenProperties, ElementOfSeq
<1>2. CASE ~has_relay(a)
  <2>1. server_args(a) = a /\ relay_args(a) = <<>>
    BY <1>2 DEF server_args, relay_args
  <2>2. <<>> \in Seq(S) /\ Len(<<>>) = 0
    BY EmptySeq
  <2> QED
    BY <1>1, <1>2, <2>1, <2>2
<1>3. CASE has_relay(a)
  <2>1. PICK k \in 1..Len(a) : k = relay_index(a)
    BY <1>3, RelayIndex DEF has_relay
  <2>2. /\ server_args(a) = SubSeq(a, 1, k - 1)
        /\ relay_args(a) = SubSeq(a, k + 1, Len(a))
    BY <1>3, <2>1 DEF server_args, relay_args
  <2>3. /\ \A i \in 1..(k - 1) : a[i] \in S
        /\ \A i \in (k + 1)..Len(a) : a[i] \in S
    BY <1>1
  <2>4. /\ SubSeq(a, 1, k - 1) \in Seq(S)
        /\ Len(SubSeq(a, 1, k - 1)) = IF 1 <= k - 1 THEN (k - 1) - 1 + 1 ELSE 0
        /\ \A i \in 1..((k - 1) - 1 + 1) : SubSeq(a, 1, k - 1)[i] = a[1 + i - 1]
    BY <1>1, <2>3, SubSeqProperties
  <2>5. /\ SubSeq(a, k + 1, Len(a)) \in Seq(S)
        /\ Len(SubSeq(a, k + 1, Len(a))) = IF k + 1 <= Len(a) THEN Len(a) - (k + 1) + 1 ELSE 0
        /\ \A i \in 1..(Len(a) - (k + 1) + 1) :
             SubSeq(a, k + 1, Len(a))[i] = a[(k + 1) + i - 1]
    BY <1>1, <2>3, SubSeqProperties
  <2>6. /\ Len(server_args(a)) = k - 1
        /\ Len(relay_args(a)) = Len(a) - k
    BY <1>1, <2>2, <2>4, <2>5
  <2>7. ASSUME NEW i \in 1..(k - 1) PROVE server_args(a)[i] = a[i]
    BY <1>1, <2>2, <2>4, <2>7
  <2>8. ASSUME NEW i \in 1..(Len(a) - k) PROVE relay_args(a)[i] = a[k + i]
    <3>1. (k + 1) + i - 1 = k + i /\ i \in 1..(Len(a) - (k + 1) + 1)
      BY <1>1
    <3> QED
      BY <2>2, <2>5, <3>1
  <2> QED
    BY <1>3, <2>1, <2>2, <2>4, <2>5, <2>6, <2>7, <2>8
<1> QED
  BY <1>2, <1>3

\* The arguments that the three endpoints are parsed from.
LEMMA ParsedArguments ==
  ASSUME NEW a \in CommandLines \cup {<<>>}
  PROVE  /\ server_args(a) # <<>> => IsArg(server_args(a)[1])
         /\ ~(Len(server_args(a)) < 2) => IsArg(server_args(a)[2])
         /\ relay_args(a) # <<>> => IsArg(relay_args(a)[1])
<1>1. a \in Seq(ToSet(a)) /\ \A x \in ToSet(a) : IsArg(x)
  BY ArgsAreTyped
<1>2. server_args(a) \in Seq(ToSet(a)) /\ relay_args(a) \in Seq(ToSet(a))
  BY <1>1, Halves
<1>3. ASSUME NEW v \in Seq(ToSet(a)), NEW i \in 1..Len(v) PROVE IsArg(v[i])
  BY <1>1, ElementOfSeq
<1>4. ASSUME NEW v \in Seq(ToSet(a))
      PROVE  /\ v # <<>> => 1 \in 1..Len(v)
             /\ ~(Len(v) < 2) => 2 \in 1..Len(v)
  BY EmptySeq, LenProperties
<1> QED
  BY <1>2, <1>3, <1>4

\* An endpoint that was parsed from an argument, or taken over as a default.
IsParsed(e) ==
  /\ e.kind \in {"none", "tcp", "unix", "error"}
  /\ e.kind = "tcp" => e.port \in 0..PortMax
  /\ e.kind = "unix" => e.path \in Path

LEMMA EndpointsAreParsed ==
  ASSUME NEW a \in CommandLines \cup {<<>>}, NEW r \in Role
  PROVE  IsParsed(Endpoints(a)[r])
<1>1. ASSUME NEW x, IsArg(x) PROVE IsParsed(parse_endpoint(x))
  <2>1. x.form = "unix" => x.path \in Path
    BY <1>1 DEF IsArg
  <2> QED
    BY <1>1, <2>1, ParseEndpoint, EndpointFields DEF IsParsed
<1>2. IsParsed(None)
  BY EndpointFields DEF IsParsed
<1>3. IsParsed(game_endpoint(a))
  <2>1. CASE server_args(a) = <<>>
    <3>1. game_endpoint(a) = Tcp("any", default_server_port)
      BY <2>1 DEF game_endpoint
    <3>2. default_server_port \in 0..PortMax
      BY StartupAssumption
    <3> QED
      BY <3>1, <3>2, EndpointFields DEF IsParsed
  <2>2. CASE server_args(a) # <<>>
    BY <1>1, <2>2, ParsedArguments DEF game_endpoint
  <2> QED
    BY <2>1, <2>2
<1>4. IsParsed(status_endpoint(a))
  BY <1>1, <1>2, ParsedArguments DEF status_endpoint
<1>5. IsParsed(relay_endpoint(a))
  <2>1. CASE ~has_relay(a)
    BY <1>2, <2>1 DEF relay_endpoint
  <2>2. CASE has_relay(a) /\ relay_args(a) # <<>>
    BY <1>1, <2>2, ParsedArguments DEF relay_endpoint
  <2>3. CASE has_relay(a) /\ relay_args(a) = <<>>
    <3>1. PICK e : e = game_endpoint(a)
      OBVIOUS
    <3>2. relay_endpoint(a) = next_port(e) /\ IsParsed(e)
      BY <1>3, <2>3, <3>1 DEF relay_endpoint
    <3>3. CASE e.kind = "tcp" /\ e.port # PortMax
      <4>1. next_port(e) = Tcp(e.address, e.port + 1)
        BY <3>3, NextPort
      <4>2. e.port \in 0..PortMax
        BY <3>2, <3>3 DEF IsParsed
      <4>3. e.port + 1 \in 0..PortMax
        BY <3>3, <4>2, StartupAssumption
      <4> QED
        BY <3>2, <4>1, <4>3, EndpointFields DEF IsParsed
    <3>4. CASE ~(e.kind = "tcp" /\ e.port # PortMax)
      <4>1. next_port(e).kind = "error"
        BY <3>4, NextPort
      <4> QED
        BY <3>2, <4>1 DEF IsParsed
    <3> QED
      BY <3>3, <3>4
  <2> QED
    BY <2>1, <2>2, <2>3
<1> QED
  BY <1>3, <1>4, <1>5, RoleIs, EndpointsAre

\* The process goes on with these endpoints: none is wrong, none throws.
Goes(e) == e.kind # "error" /\ ~(e.kind = "unix" /\ e.path \in TooLong)

LEMMA GoesIffEndpoint ==
  ASSUME NEW x, IsArg(x)
  PROVE  Goes(parse_endpoint(x)) <=> IsEndpoint(x)
BY ParseEndpoint, EndpointFields DEF Goes, IsEndpoint, IsArg

\* InGrammar, with n endpoints before --relay.
GrammarAt(a, n) ==
  /\ n <= Len(a)
  /\ \A i \in 1..n : IsEndpoint(a[i])
  /\ \/ Len(a) = n
     \/ Len(a) = n + 1 /\ a[n + 1].form = "relay" /\ HasNextPort(SubSeq(a, 1, n))
     \/ Len(a) = n + 2 /\ a[n + 1].form = "relay" /\ IsEndpoint(a[n + 2])

\* The grammar's place for --relay is where the code finds it.
LEMMA SplitOfGrammar ==
  ASSUME NEW S, NEW a \in Seq(S), NEW n \in 0..2, GrammarAt(a, n)
  PROVE  /\ has_relay(a) <=> Len(a) # n
         /\ has_relay(a) => relay_index(a) = n + 1
         /\ ~has_help_argument(a)
         /\ ~too_many(a)
<1>1. Len(a) \in Nat /\ Len(a) \in {n, n + 1, n + 2}
  BY LenProperties DEF GrammarAt
<1>2. \A i \in 1..n : a[i].form # "relay" /\ a[i].form # "help"
  BY DEF GrammarAt, IsEndpoint
<1>3. Len(a) # n => a[n + 1].form = "relay"
  BY DEF GrammarAt
<1>4. ASSUME relay_index(a) = 0 PROVE ~has_relay(a) /\ Len(a) = n
  <2>1. \A i \in 1..Len(a) : a[i].form # "relay"
    BY <1>1, <1>4, RelayIndex
  <2>2. Len(a) # n => n + 1 \in 1..Len(a)
    BY <1>1
  <2>3. Len(a) = n
    BY <1>3, <2>1, <2>2
  <2> QED
    BY <1>4, <2>3 DEF has_relay
<1>5. ASSUME relay_index(a) # 0 PROVE has_relay(a) /\ Len(a) # n /\ relay_index(a) = n + 1
  <2>1. PICK k \in 1..Len(a) : /\ k = relay_index(a)
                               /\ a[k].form = "relay"
                               /\ \A i \in 1..(k - 1) : a[i].form # "relay"
    BY <1>5, RelayIndex
  <2>2. ~(k \in 1..n)
    BY <1>2, <2>1
  <2>3. Len(a) # n /\ k >= n + 1
    BY <1>1, <2>1, <2>2
  <2>4. ~(n + 1 \in 1..(k - 1))
    BY <1>3, <2>1, <2>3
  <2>5. k = n + 1
    BY <1>1, <2>3, <2>4
  <2> QED
    BY <1>5, <2>1, <2>3, <2>5 DEF has_relay
<1>6. has_relay(a) <=> Len(a) # n
  BY <1>4, <1>5
<1>7. has_relay(a) => relay_index(a) = n + 1
  BY <1>4, <1>5
<1>8. ~has_help_argument(a)
  <2> SUFFICES ASSUME a # <<>> PROVE a[1].form # "help"
    BY DEF has_help_argument
  <2>1. Len(a) # 0
    BY EmptySeq
  <2>2. CASE n = 0
    <3>1. a[n + 1].form = "relay" /\ n + 1 = 1
      BY <1>1, <1>3, <2>1, <2>2
    <3> QED
      BY <3>1
  <2>3. CASE n # 0
    <3>1. 1 \in 1..n
      BY <2>3
    <3> QED
      BY <1>2, <3>1
  <2> QED
    BY <2>2, <2>3
<1>9. ~too_many(a)
  <2>1. /\ Len(server_args(a)) = IF has_relay(a) THEN relay_index(a) - 1 ELSE Len(a)
        /\ Len(relay_args(a)) = IF has_relay(a) THEN Len(a) - relay_index(a) ELSE 0
    BY Halves
  <2>2. Len(server_args(a)) = n /\ Len(relay_args(a)) <= 1
    BY <1>1, <1>6, <1>7, <2>1
  <2>3. ~(n > 2) /\ ~(Len(relay_args(a)) > 1)
    <3>1. Len(relay_args(a)) \in Int
      BY <1>1, <1>6, <1>7, <2>1
    <3> QED
      BY <2>2, <3>1
  <2> QED
    BY <2>2, <2>3 DEF too_many
<1> QED
  BY <1>6, <1>7, <1>8, <1>9

\* The three endpoints go on just when the arguments are in the grammar.
LEMMA GrammarIffGoes ==
  ASSUME NEW a \in CommandLines \cup {<<>>}, ~too_many(a)
  PROVE  InGrammar(a) <=> \A r \in Role : Goes(Endpoints(a)[r])
<1>1. a \in Seq(ToSet(a)) /\ \A x \in ToSet(a) : IsArg(x)
  BY ArgsAreTyped
<1>2. Len(a) \in Nat /\ \A i \in 1..Len(a) : IsArg(a[i])
  BY <1>1, LenProperties, ElementOfSeq
<1> DEFINE k == relay_index(a)
           n == Len(server_args(a))
           m == Len(relay_args(a))
<1>3. /\ n = IF has_relay(a) THEN k - 1 ELSE Len(a)
      /\ \A i \in 1..n : server_args(a)[i] = a[i]
      /\ m = IF has_relay(a) THEN Len(a) - k ELSE 0
      /\ \A i \in 1..m : relay_args(a)[i] = a[k + i]
      /\ n = 0 <=> server_args(a) = <<>>
      /\ m = 0 <=> relay_args(a) = <<>>
  <2>1. server_args(a) \in Seq(ToSet(a)) /\ relay_args(a) \in Seq(ToSet(a))
    BY <1>1, Halves
  <2>2. \A v \in Seq(ToSet(a)) : Len(v) = 0 <=> v = <<>>
    BY EmptySeq
  <2> QED
    BY <1>1, <2>1, <2>2, Halves
<1>4. \/ /\ ~has_relay(a)
         /\ \A i \in 1..Len(a) : a[i].form # "relay"
      \/ /\ has_relay(a)
         /\ k \in 1..Len(a)
         /\ a[k].form = "relay"
         /\ \A i \in 1..(k - 1) : a[i].form # "relay"
  BY <1>1, <1>2, RelayIndex DEF has_relay
<1>5. n <= 2 /\ m <= 1 /\ n \in Nat /\ m \in Nat
  BY <1>1, <1>2, <1>3, <1>4 DEF too_many
<1>6. Goes(game_endpoint(a)) <=> (n = 0 \/ IsEndpoint(a[1]))
  <2>1. CASE n = 0
    <3>1. game_endpoint(a) = Tcp("any", default_server_port)
      BY <1>3, <2>1 DEF game_endpoint
    <3> QED
      BY <2>1, <3>1, EndpointFields DEF Goes
  <2>2. CASE n # 0
    <3>1. game_endpoint(a) = parse_endpoint(a[1]) /\ IsArg(a[1])
      BY <1>2, <1>3, <1>4, <1>5, <2>2 DEF game_endpoint
    <3> QED
      BY <2>2, <3>1, GoesIffEndpoint
  <2> QED
    BY <2>1, <2>2
<1>7. Goes(status_endpoint(a)) <=> (n < 2 \/ IsEndpoint(a[2]))
  <2>1. CASE n < 2
    <3>1. status_endpoint(a) = None
      BY <2>1 DEF status_endpoint
    <3> QED
      BY <2>1, <3>1, EndpointFields DEF Goes
  <2>2. CASE ~(n < 2)
    <3>1. status_endpoint(a) = parse_endpoint(a[2]) /\ IsArg(a[2])
      BY <1>2, <1>3, <1>4, <1>5, <2>2 DEF status_endpoint
    <3> QED
      BY <2>2, <3>1, GoesIffEndpoint
  <2> QED
    BY <2>1, <2>2
<1>8. has_relay(a) /\ m = 1 => (Goes(relay_endpoint(a)) <=> IsEndpoint(a[k + 1]))
  <2> SUFFICES ASSUME has_relay(a), m = 1
               PROVE  Goes(relay_endpoint(a)) <=> IsEndpoint(a[k + 1])
    OBVIOUS
  <2>1. relay_endpoint(a) = parse_endpoint(a[k + 1]) /\ IsArg(a[k + 1])
    BY <1>2, <1>3, <1>4 DEF relay_endpoint
  <2> QED
    BY <2>1, GoesIffEndpoint
<1>9. ~has_relay(a) => Goes(relay_endpoint(a))
  BY EndpointFields DEF relay_endpoint, Goes
<1>10. has_relay(a) /\ m = 0 /\ Goes(game_endpoint(a)) =>
         (Goes(relay_endpoint(a)) <=> (n = 0 \/ (a[1].form = "tcp" /\ a[1].port < PortMax)))
  <2> SUFFICES ASSUME has_relay(a), m = 0, Goes(game_endpoint(a))
               PROVE  Goes(relay_endpoint(a)) <=>
                        (n = 0 \/ (a[1].form = "tcp" /\ a[1].port < PortMax))
    OBVIOUS
  <2>1. relay_endpoint(a) = next_port(game_endpoint(a))
    BY <1>3 DEF relay_endpoint
  <2>2. Goes(relay_endpoint(a)) <=> (game_endpoint(a).kind = "tcp" /\ game_endpoint(a).port # PortMax)
    BY <2>1, NextPort, EndpointFields DEF Goes
  <2>3. CASE n = 0
    <3>1. game_endpoint(a) = Tcp("any", default_server_port)
      BY <1>3, <2>3 DEF game_endpoint
    <3>2. default_server_port # PortMax
      BY StartupAssumption
    <3> QED
      BY <2>2, <2>3, <3>1, <3>2, EndpointFields
  <2>4. CASE n # 0
    <3>1. game_endpoint(a) = parse_endpoint(a[1]) /\ IsArg(a[1])
      BY <1>2, <1>3, <1>4, <1>5, <2>4 DEF game_endpoint
    <3>2. parse_endpoint(a[1]).kind # "error"
      BY <3>1 DEF Goes
    <3>3. CASE a[1].form = "unix"
      <4>1. game_endpoint(a).kind = "unix"
        BY <3>1, <3>3, ParseEndpoint, EndpointFields
      <4> QED
        BY <2>2, <2>4, <3>3, <4>1
    <3>4. CASE a[1].form # "unix"
      <4>1. /\ a[1].form = "tcp" /\ a[1].port \in 0..PortMax
            /\ game_endpoint(a).kind = "tcp" /\ game_endpoint(a).port = a[1].port
        BY <3>1, <3>2, <3>4, ParseEndpoint, EndpointFields
      <4>2. a[1].port # PortMax <=> a[1].port < PortMax
        BY <4>1, StartupAssumption
      <4> QED
        BY <2>2, <2>4, <4>1, <4>2
    <3> QED
      BY <3>3, <3>4
  <2> QED
    BY <2>3, <2>4
<1>11. (\A r \in Role : Goes(Endpoints(a)[r])) <=>
         Goes(game_endpoint(a)) /\ Goes(status_endpoint(a)) /\ Goes(relay_endpoint(a))
  BY RoleIs, EndpointsAre
<1> HIDE DEF k, n, m
<1>12. n <= Len(a) /\ (has_relay(a) => n + 1 = k /\ Len(a) = n + 1 + m)
                   /\ (~has_relay(a) => Len(a) = n)
  BY <1>2, <1>3, <1>4, <1>5
<1>13. HasNextPort(SubSeq(a, 1, n)) <=> (n = 0 \/ (a[1].form = "tcp" /\ a[1].port < PortMax))
  <2>1. CASE n = 0
    <3>1. SubSeq(a, 1, n) = <<>>
      BY <2>1, SubSeqEmpty
    <3> QED
      BY <2>1, <3>1 DEF HasNextPort
  <2>2. CASE n # 0
    <3>1. \A i \in 1..n : a[i] \in ToSet(a)
      BY <1>1, <1>2, <1>5, <1>12, ElementOfSeq
    <3>2. /\ SubSeq(a, 1, n) \in Seq(ToSet(a))
          /\ Len(SubSeq(a, 1, n)) = IF 1 <= n THEN n - 1 + 1 ELSE 0
          /\ \A i \in 1..(n - 1 + 1) : SubSeq(a, 1, n)[i] = a[1 + i - 1]
      BY <1>5, <3>1, SubSeqProperties
    <3>3. SubSeq(a, 1, n)[1] = a[1]
      BY <1>5, <2>2, <3>2
    <3>4. SubSeq(a, 1, n) # <<>>
      <4>1. Len(SubSeq(a, 1, n)) # 0
        BY <1>5, <2>2, <3>2
      <4> QED
        BY <4>1, EmptySeq
    <3> QED
      BY <2>2, <3>3, <3>4 DEF HasNextPort
  <2> QED
    BY <2>1, <2>2
<1>14. (n = 0 \/ IsEndpoint(a[1])) /\ (n < 2 \/ IsEndpoint(a[2])) <=>
         \A i \in 1..n : IsEndpoint(a[i])
  <2>1. n \in {0, 1, 2}
    BY <1>5
  <2>2. (n = 0 => 1..n = {}) /\ (n = 1 => 1..n = {1}) /\ (n = 2 => 1..n = {1, 2})
    OBVIOUS
  <2> QED
    BY <2>1, <2>2
<1>15. GrammarAt(a, n) <=>
         /\ \A i \in 1..n : IsEndpoint(a[i])
         /\ has_relay(a) /\ m = 1 => IsEndpoint(a[k + 1])
         /\ has_relay(a) /\ m = 0 => HasNextPort(SubSeq(a, 1, n))
  <2>1. CASE ~has_relay(a)
    <3>1. Len(a) = n /\ n <= Len(a)
      BY <1>12, <2>1
    <3> QED
      BY <2>1, <3>1 DEF GrammarAt
  <2>2. CASE has_relay(a)
    <3>1. a[n + 1].form = "relay" /\ n <= Len(a)
      BY <1>4, <1>12, <2>2
    <3>2. CASE m = 0
      <4>1. Len(a) = n + 1 /\ Len(a) # n /\ Len(a) # n + 2
        BY <1>5, <1>12, <2>2, <3>2
      <4>2. m # 1
        BY <3>2
      <4> QED
        BY <2>2, <3>1, <3>2, <4>1, <4>2 DEF GrammarAt
    <3>3. CASE m = 1
      <4>1. Len(a) = n + 2 /\ Len(a) # n /\ Len(a) # n + 1 /\ k + 1 = n + 2
        BY <1>5, <1>12, <2>2, <3>3
      <4>2. m # 0
        BY <3>3
      <4> QED
        BY <2>2, <3>1, <3>3, <4>1, <4>2 DEF GrammarAt
    <3> QED
      BY <1>5, <3>2, <3>3
  <2> QED
    BY <2>1, <2>2
<1>16. InGrammar(a) <=> GrammarAt(a, n)
  <2>1. InGrammar(a) <=> \E i \in 0..2 : GrammarAt(a, i)
    BY DEF InGrammar, GrammarAt
  <2>2. n \in 0..2
    BY <1>5
  <2>3. ASSUME NEW i \in 0..2, GrammarAt(a, i) PROVE i = n
    <3>1. (has_relay(a) <=> Len(a) # i) /\ (has_relay(a) => k = i + 1)
      BY <1>1, <2>3, SplitOfGrammar DEF k
    <3> QED
      BY <1>2, <1>5, <1>12, <3>1
  <2> QED
    BY <2>1, <2>2, <2>3
<1>17. (\A r \in Role : Goes(Endpoints(a)[r])) <=> GrammarAt(a, n)
  <2>1. CASE ~has_relay(a)
    BY <1>6, <1>7, <1>9, <1>11, <1>14, <1>15, <2>1
  <2>2. CASE has_relay(a) /\ m = 1
    <3>1. m # 0
      BY <2>2
    <3> QED
      BY <1>6, <1>7, <1>8, <1>11, <1>14, <1>15, <2>2, <3>1
  <2>3. CASE has_relay(a) /\ m = 0
    <3>1. m # 1
      BY <2>3
    <3> QED
      BY <1>6, <1>7, <1>10, <1>11, <1>13, <1>14, <1>15, <2>3, <3>1
  <2> QED
    BY <1>5, <2>1, <2>2, <2>3
<1> QED
  BY <1>16, <1>17

\* What main() decides about a command line, and what the usage text says of it.
LEMMA UsageIsGrammar ==
  ASSUME NEW a \in CommandLines \cup {<<>>}
  PROVE  /\ ~Usage(a) /\ ~ParsingThrows(a) => InGrammar(a)
         /\ Usage(a) => ~InGrammar(a)
<1>1. ~had_parsing_error(a) /\ ~ParsingThrows(a) <=> \A r \in Role : Goes(Endpoints(a)[r])
  BY DEF had_parsing_error, ParsingThrows, Goes
<1>2. ~Usage(a) /\ ~ParsingThrows(a) => ~too_many(a) /\ ~had_parsing_error(a)
  BY DEF Usage
<1>3. InGrammar(a) => ~has_help_argument(a) /\ ~too_many(a)
  <2> SUFFICES ASSUME InGrammar(a) PROVE ~has_help_argument(a) /\ ~too_many(a)
    OBVIOUS
  <2>1. PICK n \in 0..2 : GrammarAt(a, n)
    BY DEF InGrammar, GrammarAt
  <2>2. a \in Seq(ToSet(a))
    BY ArgsAreTyped
  <2> QED
    BY <2>1, <2>2, SplitOfGrammar
<1>4. InGrammar(a) => ~had_parsing_error(a)
  BY <1>1, <1>3, GrammarIffGoes
<1> QED
  BY <1>1, <1>2, <1>3, <1>4, GrammarIffGoes DEF Usage
-----------------------------------------------------------------------------
(***************************************************************************)
(* The inductive invariant                                                 *)
(***************************************************************************)
\* The roles whose to_acceptor has returned.
BoundRoles ==
  IF pc = "status" THEN {"game"}
  ELSE IF pc = "relay" THEN {"game", "status"}
  ELSE IF pc \in {"database", "running"} THEN Role
  ELSE {}

\* The acceptor of r, once it is bound, is what the command line asked for.
Listens(r) ==
  /\ endpoint[r].kind = "none" => acceptor[r].kind = "none"
  /\ endpoint[r].kind = "tcp" =>
       /\ acceptor[r].kind = "tcp"
       /\ acceptor[r].address = endpoint[r].address
       /\ endpoint[r].port # 0 => acceptor[r].port = endpoint[r].port
  /\ endpoint[r].kind = "unix" => acceptor[r] = endpoint[r]

\* The path of r leads to r, or another role has bound it too.
Led(r) ==
  acceptor[r].kind = "unix" =>
    \/ Reachable(r)
    \/ \E q \in Role \ {r} : acceptor[q].kind = "unix" /\ acceptor[q].path = acceptor[r].path

Tables ==
  /\ acceptor = [r \in Role |-> acceptor[r]]
  /\ files = [p \in Path |-> files[p]]

\* Until the signal, the endpoints are those of the command line.
FromCommandLine ==
  pc \in Role \cup {"database", "running"} => endpoint = Endpoints(args)

PathsAreKnown == \A r \in Role : endpoint[r].kind = "unix" => endpoint[r].path \in Path

StartupInv ==
  /\ TypeOK
  /\ Tables
  /\ pc # "down" => exit_code = NoExit
  /\ FromCommandLine
  /\ PathsAreKnown
  /\ \A r \in Role : IF r \in BoundRoles THEN Listens(r) /\ Led(r) ELSE acceptor[r] = Closed

\* No process: nothing is bound and nothing is read.
LEMMA GoneStep ==
  ASSUME StartupInv, Gone, exit_code' \in {NoExit, 0, 1, 2, 64}
  PROVE  StartupInv'
<1>1. TypeOK /\ Tables
  BY DEF StartupInv
<1>2. /\ pc' = "down"
      /\ args' = <<>>
      /\ endpoint' = [r \in Role |-> None]
      /\ acceptor' = [r \in Role |-> Closed]
      /\ files' = files
      /\ starts' = starts
  BY DEF Gone
<1>3. \A r \in Role : endpoint'[r].kind = "none" /\ acceptor'[r].kind = "none"
  BY <1>2, EndpointFields
<1>4. TypeOK'
  BY <1>1, <1>2, <1>3 DEF TypeOK
<1>5. Tables'
  BY <1>1, <1>2 DEF Tables
<1>6. FromCommandLine' /\ PathsAreKnown'
  BY <1>2, <1>3, RoleIs DEF FromCommandLine, PathsAreKnown
<1>7. BoundRoles' = {}
  BY <1>2 DEF BoundRoles
<1> QED
  BY <1>2, <1>4, <1>5, <1>6, <1>7 DEF StartupInv

\* A message that cannot be written changes the exit code to 2.
LEMMA ExitStep ==
  ASSUME StartupInv, NEW code \in {1, 64}, Exit(code)
  PROVE  StartupInv'
<1>1. exit_code' \in {code} \cup {2}
  BY DEF Exit
<1> QED
  BY <1>1, GoneStep DEF Exit

\* The three endpoints are read at once.
LEMMA ParseStep ==
  ASSUME StartupInv, Parse
  PROVE  StartupInv'
<1>1. TypeOK /\ Tables
  BY DEF StartupInv
<1>2. /\ pc = "parsing" /\ pc' = "game"
      /\ endpoint' = Endpoints(args)
      /\ UNCHANGED <<args, acceptor, files, exit_code, starts>>
      /\ ~had_parsing_error(args)
  BY DEF Parse, Usage
<1>3. args \in CommandLines \cup {<<>>}
  BY <1>1 DEF TypeOK
<1>4. \A r \in Role : IsParsed(Endpoints(args)[r]) /\ Endpoints(args)[r].kind # "error"
  BY <1>2, <1>3, EndpointsAreParsed DEF had_parsing_error
<1>5. ASSUME NEW r \in Role
      PROVE  /\ endpoint'[r].kind \in {"none", "tcp", "unix"}
             /\ endpoint'[r].kind = "tcp" => endpoint'[r].port \in 0..PortMax
             /\ endpoint'[r].kind = "unix" => endpoint'[r].path \in Path
  BY <1>2, <1>4 DEF IsParsed
<1>6. TypeOK'
  BY <1>1, <1>2, <1>5, RoleIs DEF TypeOK
<1>7. BoundRoles = {} /\ BoundRoles' = {}
  BY <1>2 DEF BoundRoles
<1>8. \A r \in Role : acceptor'[r] = Closed
  BY <1>2, <1>7 DEF StartupInv
<1>9. Tables' /\ FromCommandLine' /\ PathsAreKnown' /\ exit_code' = NoExit
  BY <1>1, <1>2, <1>5 DEF Tables, FromCommandLine, PathsAreKnown, StartupInv
<1> QED
  BY <1>6, <1>7, <1>8, <1>9 DEF StartupInv

\* The order of the roles.
LEMMA AfterBind ==
  ASSUME NEW r \in Role, pc = r, pc' = After(r)
  PROVE  /\ pc' \in Role \cup {"database"}
         /\ r \notin BoundRoles
         /\ BoundRoles' = BoundRoles \cup {r}
<1>1. CASE r = "game"
  <2>1. After(r) = "status"
    BY <1>1, Zenon DEF After
  <2> QED
    BY <1>1, <2>1, RoleIs DEF BoundRoles
<1>2. CASE r = "status"
  <2>1. After(r) = "relay"
    BY <1>2, Zenon DEF After
  <2> QED
    BY <1>2, <2>1, RoleIs DEF BoundRoles
<1>3. CASE r = "relay"
  <2>1. After(r) = "database"
    BY <1>3, Zenon DEF After
  <2> QED
    BY <1>3, <2>1, RoleIs DEF BoundRoles
<1> QED
  BY <1>1, <1>2, <1>3, RoleIs

\* What the three ways to bind have in common: one acceptor is set, the others stay led.
LEMMA BindStep ==
  ASSUME StartupInv, NEW r \in Role, pc = r, pc' = After(r), NEW e,
         UNCHANGED <<args, endpoint, exit_code, starts>>,
         acceptor' = [acceptor EXCEPT ![r] = e],
         files' = [p \in Path |-> files'[p]],
         e.kind = "tcp" => e.port \in 1..PortMax,
         Listens(r)',
         Led(r)',
         \A q \in Role \ {r} : acceptor[q].kind = "unix" =>
           \/ files'[acceptor[q].path] = files[acceptor[q].path]
           \/ e.kind = "unix" /\ e.path = acceptor[q].path
  PROVE  StartupInv'
<1>1. TypeOK /\ Tables /\ FromCommandLine /\ PathsAreKnown
  BY DEF StartupInv
<1>2. /\ pc' \in Role \cup {"database"}
      /\ r \notin BoundRoles
      /\ BoundRoles' = BoundRoles \cup {r}
  BY AfterBind
<1>3. /\ acceptor' = [q \in Role |-> acceptor'[q]]
      /\ acceptor'[r] = e
      /\ \A q \in Role \ {r} : acceptor'[q] = acceptor[q]
  BY <1>1 DEF Tables
<1>4. TypeOK'
  <2>1. \A q \in Role : acceptor'[q].kind = "tcp" => acceptor'[q].port \in 1..PortMax
    BY <1>1, <1>3 DEF TypeOK
  <2> QED
    BY <1>1, <1>2, <2>1 DEF TypeOK
<1>5. Tables' /\ FromCommandLine' /\ PathsAreKnown'
  <2>1. pc \in Role
    OBVIOUS
  <2> QED
    BY <1>1, <1>3, <2>1 DEF Tables, FromCommandLine, PathsAreKnown
<1>6. exit_code' = NoExit
  <2>1. pc # "down"
    BY RoleIs
  <2> QED
    BY <2>1 DEF StartupInv
<1>7. ASSUME NEW q \in Role
      PROVE  IF q \in BoundRoles' THEN Listens(q)' /\ Led(q)' ELSE acceptor'[q] = Closed
  <2>1. CASE q = r
    BY <1>2, <2>1
  <2>2. CASE q # r /\ q \notin BoundRoles
    BY <1>2, <1>3, <2>2 DEF StartupInv
  <2>3. CASE q # r /\ q \in BoundRoles
    <3>1. Listens(q) /\ Led(q)
      BY <2>3 DEF StartupInv
    <3>2. Listens(q)'
      BY <1>3, <2>3, <3>1 DEF Listens
    <3>3. Led(q)'
      <4> SUFFICES ASSUME acceptor[q].kind = "unix"
                   PROVE  \/ Reachable(q)'
                          \/ \E p \in Role \ {q} : /\ acceptor'[p].kind = "unix"
                                                   /\ acceptor'[p].path = acceptor'[q].path
        BY <1>3, <2>3 DEF Led
      <4>1. CASE e.kind = "unix" /\ e.path = acceptor[q].path
        BY <1>3, <2>3, <4>1
      <4>2. CASE files'[acceptor[q].path] = files[acceptor[q].path]
        <5>1. CASE Reachable(q)
          BY <1>3, <2>3, <4>2, <5>1 DEF Reachable
        <5>2. CASE ~Reachable(q)
          <6>1. PICK p \in Role \ {q} : /\ acceptor[p].kind = "unix"
                                        /\ acceptor[p].path = acceptor[q].path
            BY <3>1, <5>2 DEF Led
          <6>2. acceptor[r].kind # "unix"
            BY <1>2, EndpointFields DEF StartupInv
          <6>3. p # r
            BY <6>1, <6>2
          <6> QED
            BY <1>3, <2>3, <6>1, <6>3
        <5> QED
          BY <5>1, <5>2
      <4> QED
        BY <2>3, <4>1, <4>2
    <3> QED
      BY <1>2, <2>3, <3>2, <3>3
  <2> QED
    BY <2>1, <2>2, <2>3
<1> QED
  BY <1>4, <1>5, <1>6, <1>7 DEF StartupInv

\* An endpoint that is not asked for.
LEMMA BindNoneStep ==
  ASSUME StartupInv, NEW r \in Role, BindNone(r)
  PROVE  StartupInv'
<1>1. Tables
  BY DEF StartupInv
<1>2. /\ pc = r /\ pc' = After(r)
      /\ endpoint[r].kind = "none"
      /\ UNCHANGED <<args, endpoint, acceptor, files, exit_code, starts>>
  BY DEF BindNone
<1>3. acceptor[r] = Closed
  BY <1>2, AfterBind DEF StartupInv
<1>4. acceptor' = [acceptor EXCEPT ![r] = Closed]
  BY <1>1, <1>2, <1>3 DEF Tables
<1>5. files' = [p \in Path |-> files'[p]]
  BY <1>1, <1>2 DEF Tables
<1>6. Listens(r)' /\ Led(r)'
  BY <1>2, <1>3, EndpointFields DEF Listens, Led
<1> QED
  BY <1>2, <1>4, <1>5, <1>6, EndpointFields, BindStep

\* A TCP endpoint: bind chooses a port where the command line leaves it open.
LEMMA BindTcpStep ==
  ASSUME StartupInv, NEW r \in Role, BindTcp(r)
  PROVE  StartupInv'
<1>1. TypeOK /\ Tables
  BY DEF StartupInv
<1>2. /\ pc = r /\ pc' = After(r)
      /\ endpoint[r].kind = "tcp"
      /\ UNCHANGED <<args, endpoint, files, exit_code, starts>>
  BY DEF BindTcp
<1>3. PICK e \in Bound(endpoint[r]) : acceptor' = [acceptor EXCEPT ![r] = e]
  BY DEF BindTcp
<1>4. PICK p \in IF endpoint[r].port = 0 THEN Ephemeral ELSE {endpoint[r].port} :
        e = Tcp(endpoint[r].address, p)
  BY <1>3 DEF Bound
<1>5. p \in 1..PortMax
  <2>1. endpoint[r].port \in 0..PortMax
    BY <1>1, <1>2 DEF TypeOK
  <2>2. CASE endpoint[r].port = 0
    BY <1>4, <2>2, StartupAssumption
  <2>3. CASE endpoint[r].port # 0
    BY <1>4, <2>1, <2>3, StartupAssumption
  <2> QED
    BY <2>2, <2>3
<1>6. e.kind = "tcp" /\ e.address = endpoint[r].address /\ e.port = p
  BY <1>4, EndpointFields
<1>7. acceptor'[r] = e
  BY <1>1, <1>3 DEF Tables
<1>8. files' = [q \in Path |-> files'[q]]
  BY <1>1, <1>2 DEF Tables
<1>9. Listens(r)'
  BY <1>2, <1>4, <1>6, <1>7 DEF Listens
<1>10. Led(r)'
  BY <1>6, <1>7 DEF Led
<1> QED
  BY <1>2, <1>3, <1>5, <1>6, <1>8, <1>9, <1>10, BindStep

\* A UNIX endpoint: what was at its path is replaced by its socket.
LEMMA BindUnixStep ==
  ASSUME StartupInv, NEW r \in Role, BindUnix(r)
  PROVE  StartupInv'
<1>1. TypeOK /\ Tables /\ PathsAreKnown
  BY DEF StartupInv
<1>2. PICK e : e = endpoint[r]
  OBVIOUS
<1>3. /\ pc = r /\ pc' = After(r)
      /\ e.kind = "unix"
      /\ files' = [files EXCEPT ![e.path] = Socket(r, starts, e.perms)]
      /\ acceptor' = [acceptor EXCEPT ![r] = e]
      /\ UNCHANGED <<args, endpoint, exit_code, starts>>
  BY <1>2 DEF BindUnix, UnixSocket
<1>4. e.path \in Path
  BY <1>1, <1>2, <1>3 DEF PathsAreKnown
<1>5. /\ files' = [p \in Path |-> files'[p]]
      /\ files'[e.path] = Socket(r, starts, e.perms)
      /\ \A p : p # e.path => files'[p] = files[p]
  <2>1. files = [p \in Path |-> files[p]]
    BY <1>1 DEF Tables
  <2> QED
    BY <1>3, <1>4, <2>1
<1>6. acceptor'[r] = e
  BY <1>1, <1>3 DEF Tables
<1>7. Listens(r)'
  BY <1>2, <1>3, <1>6 DEF Listens
<1>8. Led(r)'
  BY <1>3, <1>5, <1>6 DEF Led, Reachable
<1>9. \A q \in Role \ {r} : \/ files'[acceptor[q].path] = files[acceptor[q].path]
                            \/ e.kind = "unix" /\ e.path = acceptor[q].path
  BY <1>3, <1>5
<1> QED
  BY <1>3, <1>5, <1>7, <1>8, <1>9, BindStep

LEMMA InitStartupInv ==
  ASSUME Init
  PROVE  StartupInv
<1>1. \A r \in Role : endpoint[r].kind = "none" /\ acceptor[r].kind = "none"
  BY EndpointFields DEF Init
<1>2. TypeOK
  BY <1>1, StartupAssumption DEF Init, TypeOK
<1>3. Tables
  BY DEF Init, Tables
<1>4. FromCommandLine /\ PathsAreKnown
  BY <1>1, RoleIs DEF Init, FromCommandLine, PathsAreKnown
<1>5. BoundRoles = {}
  BY DEF Init, BoundRoles
<1> QED
  BY <1>2, <1>3, <1>4, <1>5 DEF Init, StartupInv

LEMMA StartupInvStep ==
  ASSUME StartupInv, [Next]_vars
  PROVE  StartupInv'
<1>1. TypeOK /\ Tables /\ FromCommandLine /\ PathsAreKnown
  BY DEF StartupInv
<1>2. ASSUME NEW a \in CommandLines, Start(a) PROVE StartupInv'
  <2>1. /\ pc = "down" /\ pc' = "parsing"
        /\ args' = a
        /\ exit_code' = NoExit
        /\ starts < MaxStarts /\ starts' = starts + 1
        /\ UNCHANGED <<endpoint, acceptor, files>>
    BY <1>2 DEF Start
  <2>2. starts' \in 0..MaxStarts
    BY <1>1, <2>1, StartupAssumption DEF TypeOK
  <2>3. TypeOK'
    BY <1>1, <2>1, <2>2 DEF TypeOK
  <2>4. Tables' /\ FromCommandLine' /\ PathsAreKnown'
    BY <1>1, <2>1, RoleIs DEF Tables, FromCommandLine, PathsAreKnown
  <2>5. BoundRoles = {} /\ BoundRoles' = {}
    BY <2>1 DEF BoundRoles
  <2>6. \A r \in Role : acceptor'[r] = Closed
    BY <2>1, <2>5 DEF StartupInv
  <2> QED
    BY <2>1, <2>3, <2>4, <2>5, <2>6 DEF StartupInv
<1>3. CASE ExitWithUsage
  BY <1>3, ExitStep DEF ExitWithUsage
<1>4. CASE ParseThrows
  BY <1>4, ExitStep DEF ParseThrows
<1>5. CASE Parse
  BY <1>5, ParseStep
<1>6. ASSUME NEW r \in Role, BindThrows(r) PROVE StartupInv'
  BY <1>6, ExitStep DEF BindThrows
<1>7. CASE OpenDatabase
  <2>1. /\ pc = "database" /\ pc' = "running"
        /\ UNCHANGED <<args, endpoint, acceptor, files, exit_code, starts>>
    BY <1>7 DEF OpenDatabase
  <2>2. TypeOK' /\ Tables' /\ FromCommandLine' /\ PathsAreKnown'
    BY <1>1, <2>1 DEF TypeOK, Tables, FromCommandLine, PathsAreKnown
  <2>3. BoundRoles = Role /\ BoundRoles' = Role
    BY <2>1 DEF BoundRoles
  <2>4. ASSUME NEW r \in Role PROVE Listens(r)' /\ Led(r)'
    <3>1. Listens(r) /\ Led(r)
      BY <2>3 DEF StartupInv
    <3> QED
      BY <2>1, <3>1 DEF Listens, Led, Reachable
  <2> QED
    BY <2>1, <2>2, <2>3, <2>4 DEF StartupInv
<1>8. CASE OpenDatabaseThrows
  BY <1>8, ExitStep DEF OpenDatabaseThrows
<1>9. CASE on_stop_signal
  <2>1. /\ pc = "running" /\ pc' = "draining"
        /\ acceptor' = [r \in Role |-> Closed]
        /\ UNCHANGED <<args, endpoint, files, exit_code, starts>>
    BY <1>9 DEF on_stop_signal
  <2>2. \A r \in Role : acceptor'[r].kind = "none"
    BY <2>1, EndpointFields
  <2>3. TypeOK'
    BY <1>1, <2>1, <2>2 DEF TypeOK
  <2>4. Tables' /\ FromCommandLine' /\ PathsAreKnown'
    BY <1>1, <2>1, RoleIs DEF Tables, FromCommandLine, PathsAreKnown
  <2>5. BoundRoles' = {}
    BY <2>1 DEF BoundRoles
  <2> QED
    BY <2>1, <2>3, <2>4, <2>5 DEF StartupInv
<1>10. CASE on_drained
  BY <1>10, GoneStep DEF on_drained
<1>11. CASE Killed
  <2>1. exit_code' \in {NoExit, 0, 1, 2, 64}
    BY <1>1, <1>11 DEF Killed, TypeOK
  <2> QED
    BY <1>11, <2>1, GoneStep DEF Killed
<1>12. CASE UNCHANGED vars
  <2>1. UNCHANGED <<pc, args, endpoint, acceptor, files, exit_code, starts>>
    BY <1>12 DEF vars
  <2>2. TypeOK' /\ Tables' /\ FromCommandLine' /\ PathsAreKnown' /\ BoundRoles' = BoundRoles
    BY <1>1, <2>1 DEF TypeOK, Tables, FromCommandLine, PathsAreKnown, BoundRoles
  <2>3. \A r \in Role : Listens(r)' = Listens(r) /\ Led(r)' = Led(r)
    BY <2>1 DEF Listens, Led, Reachable
  <2> QED
    BY <2>1, <2>2, <2>3 DEF StartupInv
<1> QED
  BY <1>2, <1>3, <1>4, <1>5, <1>6, <1>7, <1>8, <1>9, <1>10, <1>11, <1>12,
     BindNoneStep, BindTcpStep, BindUnixStep DEF Next
-----------------------------------------------------------------------------
(***************************************************************************)
(* The invariant of the process of main(): as to_acceptor returns for the  *)
(* three roles in turn, each acceptor is what the command line asked for.  *)
(***************************************************************************)
THEOREM StartupInvariant == Spec => []StartupInv
<1>1. Init => StartupInv
  BY InitStartupInv
<1>2. StartupInv /\ [Next]_vars => StartupInv'
  BY StartupInvStep
<1> QED
  BY <1>1, <1>2, PTL DEF Spec

(***************************************************************************)
(* Every port that main() binds is one, the relay's computed port          *)
(* included, and no parsing error reaches an endpoint.                     *)
(***************************************************************************)
THEOREM StartupTypes == Spec => []TypeOK
<1>1. StartupInv => TypeOK
  BY DEF StartupInv
<1> QED
  BY <1>1, StartupInvariant, PTL

(***************************************************************************)
(* A defaulted relay listens on the game server's address, one port up,    *)
(* for every command line with a port of its own: next_port neither wraps  *)
(* around nor falls back.                                                  *)
(***************************************************************************)
THEOREM DefaultRelayIsNextPort == Spec => []RelayIsNextToFixedPort
<1>1. StartupInv => RelayIsNextToFixedPort
  <2> SUFFICES ASSUME StartupInv, pc = "running", RelayDefaulted, endpoint["game"].port # 0
               PROVE  NextTo(acceptor["relay"], acceptor["game"])
    BY DEF RelayIsNextToFixedPort
  <2>1. BoundRoles = Role /\ "game" \in Role /\ "relay" \in Role
    BY RoleIs DEF BoundRoles
  <2>2. Listens("game") /\ Listens("relay")
    BY <2>1 DEF StartupInv
  <2>3. endpoint = Endpoints(args)
    BY DEF StartupInv, FromCommandLine
  <2>4. endpoint["relay"] = next_port(endpoint["game"])
    BY <2>3, EndpointsAre DEF RelayDefaulted, relay_endpoint
  <2>5. /\ endpoint["relay"].kind # "error"
        /\ endpoint["game"].kind = "tcp" => endpoint["game"].port \in 0..PortMax
    BY <2>1 DEF StartupInv, TypeOK
  <2>6. /\ endpoint["game"].kind = "tcp"
        /\ endpoint["relay"] = Tcp(endpoint["game"].address, endpoint["game"].port + 1)
    BY <2>4, <2>5, NextPort
  <2>7. /\ endpoint["relay"].kind = "tcp"
        /\ endpoint["relay"].address = endpoint["game"].address
        /\ endpoint["relay"].port = endpoint["game"].port + 1
    BY <2>6, EndpointFields
  <2>8. endpoint["relay"].port # 0
    BY <2>5, <2>6, <2>7, StartupAssumption
  <2> QED
    BY <2>2, <2>6, <2>7, <2>8 DEF Listens, NextTo
<1> QED
  BY <1>1, StartupInvariant, PTL

(***************************************************************************)
(* While the server runs, a UNIX endpoint whose path no other role shares  *)
(* is reached through it, whatever was there before and however the        *)
(* processes before it ended.                                              *)
(***************************************************************************)
THEOREM UnixPathsAreReachable == Spec => []DistinctPathsAreReachable
<1>1. StartupInv => DistinctPathsAreReachable
  <2> SUFFICES ASSUME StartupInv, pc = "running", NEW r \in Role
               PROVE  Led(r)
    BY DEF DistinctPathsAreReachable, Led
  <2>1. BoundRoles = Role
    BY DEF BoundRoles
  <2> QED
    BY <2>1 DEF StartupInv
<1> QED
  BY <1>1, StartupInvariant, PTL

(***************************************************************************)
(* main() accepts just the command lines of its usage text, of any length, *)
(* as an action property.                                                  *)
(***************************************************************************)
THEOREM UsageTextIsExact == Spec => CommandLineIsGrammar
<1>1. StartupInv /\ [Next]_vars =>
        [pc = "parsing" =>
           /\ pc' = "game" => InGrammar(args)
           /\ exit_code' = 64 => ~InGrammar(args)]_vars
  <2> SUFFICES ASSUME StartupInv, Next, pc = "parsing"
               PROVE  /\ pc' = "game" => InGrammar(args)
                      /\ exit_code' = 64 => ~InGrammar(args)
    OBVIOUS
  <2>1. args \in CommandLines \cup {<<>>} /\ exit_code = NoExit /\ NoExit # 64
    BY DEF StartupInv, TypeOK, NoExit
  <2>2. CASE ExitWithUsage
    BY <2>1, <2>2, UsageIsGrammar DEF ExitWithUsage, Exit, Gone
  <2>3. CASE ParseThrows
    <3>1. pc' = "down" /\ exit_code' \in {1, 2}
      BY <2>3 DEF ParseThrows, Exit, Gone
    <3> QED
      BY <3>1
  <2>4. CASE Parse
    BY <2>1, <2>4, UsageIsGrammar DEF Parse
  <2>5. CASE Killed
    BY <2>1, <2>5 DEF Killed, Gone
  <2>6. ExitWithUsage \/ ParseThrows \/ Parse \/ Killed
    BY RoleIs DEF Next, Start, BindNone, BindTcp, BindUnix, BindThrows, OpenDatabase,
                  OpenDatabaseThrows, on_stop_signal, on_drained
  <2> QED
    BY <2>2, <2>3, <2>4, <2>5, <2>6
<1> QED
  BY <1>1, StartupInvariant, PTL DEF Spec, CommandLineIsGrammar

(***************************************************************************)
(* to_acceptor fails for a UNIX endpoint only where a file cannot be       *)
(* removed: a socket that an earlier process left is no obstacle.          *)
(***************************************************************************)
THEOREM LeftoversAreReplaced == Spec => LeftoversDoNotBlock
<1>1. StartupInv /\ [Next]_vars =>
        [\A r \in Role :
           pc = r /\ exit_code' # NoExit /\ endpoint[r].kind = "unix" =>
             endpoint[r].path \in Blocked]_vars
  <2> SUFFICES ASSUME StartupInv, Next, NEW r \in Role, pc = r,
                      exit_code' # NoExit, endpoint[r].kind = "unix"
               PROVE  endpoint[r].path \in Blocked
    OBVIOUS
  <2>1. pc # "down" /\ exit_code = NoExit
    BY RoleIs DEF StartupInv
  <2>2. exit_code' # exit_code
    BY <2>1
  <2>3. \E q \in Role : BindThrows(q)
    BY <2>1, <2>2, RoleIs DEF Next, Start, ExitWithUsage, ParseThrows, Parse, BindNone, BindTcp,
                  BindUnix, OpenDatabase, OpenDatabaseThrows, on_stop_signal, on_drained, Killed
  <2>4. BindThrows(r)
    BY <2>3 DEF BindThrows
  <2>5. Removed(endpoint[r].path) # Absent
    BY <2>4 DEF BindThrows
  <2> QED
    BY <2>5 DEF Removed
<1> QED
  BY <1>1, StartupInvariant, PTL DEF Spec, LeftoversDoNotBlock

=============================================================================
