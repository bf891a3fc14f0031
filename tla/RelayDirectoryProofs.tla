------------------------ MODULE RelayDirectoryProofs ------------------------
(***************************************************************************)
(* The sorted vectors of relay_directory, for any number of addresses and  *)
(* ports: they stay sorted, and they are the set of ports that module      *)
(* Relay works with.                                                       *)
(***************************************************************************)
EXTENDS RelayDirectory, ListLemmas, TLAPS

(***************************************************************************)
(* A sorted vector                                                         *)
(***************************************************************************)
\* lower_bound finds its position in a sorted vector, whatever the port.
LEMMA LowerBound ==
  ASSUME NEW v \in Seq(Port), StrictlyAscending(v), NEW port \in Port
  PROVE  /\ lower_bound(v, port) \in 1..(Len(v) + 1)
         /\ \A j \in 1..(lower_bound(v, port) - 1) : v[j] < port
         /\ \A j \in lower_bound(v, port)..Len(v) : v[j] >= port
<1>1. /\ Len(v) \in Nat
      /\ port \in Nat
      /\ \A j \in 1..Len(v) : v[j] \in Nat
  BY LenProperties, ElementOfSeq, DirectoryAssumption
<1> DEFINE Splits(i) == /\ \A j \in 1..(i - 1) : v[j] < port
                        /\ \A j \in i..Len(v) : v[j] >= port
           N == {j \in 1..(Len(v) + 1) : j <= Len(v) => v[j] >= port}
<1>2. N \in SUBSET Nat /\ Len(v) + 1 \in N
  BY <1>1
<1>3. PICK i \in N : \A m \in N : i <= m
  <2> HIDE DEF N
  <2> QED
    BY <1>2, LeastNumber
<1>4. i \in 1..(Len(v) + 1)
  OBVIOUS
<1>5. ASSUME NEW j \in 1..(i - 1) PROVE v[j] < port
  <2>1. j \in 1..Len(v) /\ ~(i <= j)
    BY <1>1, <1>4
  <2>2. j \notin N
    BY <1>3, <2>1
  <2>3. ~(v[j] >= port)
    BY <1>1, <2>1, <2>2
  <2> QED
    BY <1>1, <2>1, <2>3
<1>6. ASSUME NEW j \in i..Len(v) PROVE v[j] >= port
  <2>1. i \in 1..Len(v) /\ j \in 1..Len(v) /\ v[i] >= port
    BY <1>1, <1>4
  <2>2. CASE i = j
    BY <2>1, <2>2
  <2>3. CASE i < j
    <3>1. v[i] < v[j]
      BY <2>1, <2>3 DEF StrictlyAscending
    <3> QED
      BY <1>1, <2>1, <3>1
  <2> QED
    BY <1>4, <2>1, <2>2, <2>3
<1>7. \E k \in 1..(Len(v) + 1) : Splits(k)
  BY <1>4, <1>5, <1>6
<1>8. lower_bound(v, port) = CHOOSE k \in 1..(Len(v) + 1) : Splits(k)
  BY DEF lower_bound
<1> QED
  BY <1>7, <1>8

\* add()'s look at the element at lower_bound tells whether the port is there.
LEMMA FoundAtLowerBound ==
  ASSUME NEW v \in Seq(Port), StrictlyAscending(v), NEW port \in Port
  PROVE  port \in ToSet(v) <=>
           /\ lower_bound(v, port) <= Len(v)
           /\ v[lower_bound(v, port)] = port
<1> DEFINE b == lower_bound(v, port)
<1>1. /\ b \in 1..(Len(v) + 1)
      /\ \A j \in 1..(b - 1) : v[j] < port
      /\ \A j \in b..Len(v) : v[j] >= port
  BY LowerBound
<1>2. /\ Len(v) \in Nat
      /\ DOMAIN v = 1..Len(v)
      /\ port \in Nat
      /\ \A j \in 1..Len(v) : v[j] \in Nat
  BY LenProperties, ElementOfSeq, DirectoryAssumption
<1> HIDE DEF b
<1>3. ASSUME port \in ToSet(v) PROVE b <= Len(v) /\ v[b] = port
  <2>1. PICK k \in 1..Len(v) : v[k] = port
    BY <1>2, <1>3 DEF ToSet
  <2>2. ~(k \in 1..(b - 1))
    BY <1>1, <1>2, <2>1
  <2>3. b <= k /\ b \in 1..Len(v)
    BY <1>1, <1>2, <2>2
  <2>4. v[b] >= port
    BY <1>1, <1>2, <2>3
  <2>5. b < k => v[b] < v[k]
    BY <2>3 DEF StrictlyAscending
  <2> QED
    BY <1>2, <2>1, <2>3, <2>4, <2>5
<1>4. ASSUME b <= Len(v), v[b] = port PROVE port \in ToSet(v)
  <2>1. b \in DOMAIN v
    BY <1>1, <1>2, <1>4
  <2> QED
    BY <1>4, <2>1 DEF ToSet
<1> QED
  BY <1>3, <1>4 DEF b

\* vector::insert, element by element.
LEMMA InsertAtProperties ==
  ASSUME NEW S, NEW v \in Seq(S), NEW i \in 1..(Len(v) + 1), NEW e \in S
  PROVE  /\ InsertAt(v, i, e) \in Seq(S)
         /\ Len(InsertAt(v, i, e)) = Len(v) + 1
         /\ \A j \in 1..(Len(v) + 1) :
              InsertAt(v, i, e)[j] = IF j < i THEN v[j] ELSE IF j = i THEN e ELSE v[j - 1]
<1>1. Len(v) \in Nat /\ \A j \in 1..Len(v) : v[j] \in S
  BY LenProperties, ElementOfSeq
<1> DEFINE a == SubSeq(v, 1, i - 1)
           b == SubSeq(v, i, Len(v))
           m == <<e>>
<1>2. /\ a \in Seq(S)
      /\ Len(a) = i - 1
      /\ \A j \in 1..(i - 1) : a[j] = v[j]
  <2>1. \A j \in 1..(i - 1) : v[j] \in S
    BY <1>1
  <2>2. /\ SubSeq(v, 1, i - 1) \in Seq(S)
        /\ Len(SubSeq(v, 1, i - 1)) = IF 1 <= i - 1 THEN (i - 1) - 1 + 1 ELSE 0
        /\ \A j \in 1..((i - 1) - 1 + 1) : SubSeq(v, 1, i - 1)[j] = v[1 + j - 1]
    BY <1>1, <2>1, SubSeqProperties
  <2> QED
    BY <1>1, <2>2
<1>3. /\ b \in Seq(S)
      /\ Len(b) = Len(v) - i + 1
      /\ \A j \in 1..(Len(v) - i + 1) : b[j] = v[i + j - 1]
  <2>1. \A j \in i..Len(v) : v[j] \in S
    BY <1>1
  <2>2. /\ SubSeq(v, i, Len(v)) \in Seq(S)
        /\ Len(SubSeq(v, i, Len(v))) = IF i <= Len(v) THEN Len(v) - i + 1 ELSE 0
        /\ \A j \in 1..(Len(v) - i + 1) : SubSeq(v, i, Len(v))[j] = v[i + j - 1]
    BY <1>1, <2>1, SubSeqProperties
  <2> QED
    BY <1>1, <2>2
<1>4. m \in Seq(S) /\ Len(m) = 1 /\ m[1] = e
  OBVIOUS
<1> HIDE DEF a, b, m
<1> DEFINE am == a \o m
<1>5. /\ am \in Seq(S)
      /\ Len(am) = i
      /\ \A j \in 1..i : am[j] = IF j < i THEN v[j] ELSE e
  <2>1. /\ a \o m \in Seq(S)
        /\ Len(a \o m) = Len(a) + Len(m)
        /\ \A j \in 1..(Len(a) + Len(m)) :
             (a \o m)[j] = IF j <= Len(a) THEN a[j] ELSE m[j - Len(a)]
    BY <1>2, <1>4, ConcatProperties
  <2>2. Len(a) + Len(m) = i
    BY <1>1, <1>2, <1>4
  <2>3. ASSUME NEW j \in 1..i PROVE am[j] = IF j < i THEN v[j] ELSE e
    <3>1. am[j] = IF j <= Len(a) THEN a[j] ELSE m[j - Len(a)]
      BY <2>1, <2>2
    <3>2. CASE j < i
      <4>1. j \in 1..(i - 1) /\ j <= Len(a)
        BY <1>1, <1>2, <3>2
      <4>2. am[j] = a[j] /\ a[j] = v[j]
        BY <1>2, <3>1, <4>1
      <4> QED
        BY <3>2, <4>2
    <3>3. CASE j = i
      <4>1. ~(j <= Len(a)) /\ j - Len(a) = 1
        BY <1>1, <1>2, <3>3
      <4>2. am[j] = m[j - Len(a)]
        BY <3>1, <4>1
      <4>3. am[j] = e /\ ~(j < i)
        BY <1>4, <3>3, <4>1, <4>2
      <4> QED
        BY <4>3
    <3>4. j < i \/ j = i
      BY <1>1
    <3> QED
      BY <3>2, <3>3, <3>4
  <2> QED
    BY <2>1, <2>2, <2>3
<1> HIDE DEF am
<1>6. /\ am \o b \in Seq(S)
      /\ Len(am \o b) = Len(am) + Len(b)
      /\ \A j \in 1..(Len(am) + Len(b)) :
           (am \o b)[j] = IF j <= Len(am) THEN am[j] ELSE b[j - Len(am)]
  BY <1>3, <1>5, ConcatProperties
<1>7. InsertAt(v, i, e) = am \o b
  BY DEF InsertAt, a, b, m, am
<1>8. Len(am \o b) = Len(v) + 1 /\ Len(am) + Len(b) = Len(v) + 1
  BY <1>1, <1>3, <1>5, <1>6
<1>9. ASSUME NEW j \in 1..(Len(v) + 1)
      PROVE  (am \o b)[j] = IF j < i THEN v[j] ELSE IF j = i THEN e ELSE v[j - 1]
  <2>1. (am \o b)[j] = IF j <= i THEN am[j] ELSE b[j - i]
    BY <1>5, <1>6, <1>8
  <2>2. CASE j <= i
    <3>1. j \in 1..i /\ (am \o b)[j] = am[j]
      BY <1>1, <2>1, <2>2
    <3> QED
      BY <1>1, <1>5, <2>2, <3>1
  <2>3. CASE ~(j <= i)
    <3>1. j - i \in 1..(Len(v) - i + 1) /\ i + (j - i) - 1 = j - 1
      BY <1>1, <2>3
    <3>2. b[j - i] = v[i + (j - i) - 1]
      BY <1>3, <3>1
    <3> QED
      BY <1>1, <2>1, <2>3, <3>1, <3>2
  <2> QED
    BY <2>2, <2>3
<1> QED
  BY <1>6, <1>7, <1>8, <1>9

\* add() puts a port that is not there at its place.
LEMMA InsertedPort ==
  ASSUME NEW v \in Seq(Port), StrictlyAscending(v), NEW port \in Port, port \notin ToSet(v)
  PROVE  /\ Inserted(v, port) \in Seq(Port)
         /\ StrictlyAscending(Inserted(v, port))
         /\ ToSet(Inserted(v, port)) = ToSet(v) \cup {port}
<1> DEFINE b == lower_bound(v, port)
           w == InsertAt(v, b, port)
<1>1. /\ b \in 1..(Len(v) + 1)
      /\ \A j \in 1..(b - 1) : v[j] < port
      /\ \A j \in b..Len(v) : v[j] >= port
  BY LowerBound
<1>2. /\ Len(v) \in Nat
      /\ DOMAIN v = 1..Len(v)
      /\ port \in Nat
      /\ \A j \in 1..Len(v) : v[j] \in Nat
  BY LenProperties, ElementOfSeq, DirectoryAssumption
<1> HIDE DEF b
<1>3. /\ w \in Seq(Port)
      /\ Len(w) = Len(v) + 1
      /\ \A j \in 1..(Len(v) + 1) :
           w[j] = IF j < b THEN v[j] ELSE IF j = b THEN port ELSE v[j - 1]
  BY <1>1, InsertAtProperties
<1> HIDE DEF w
<1>4. DOMAIN w = 1..(Len(v) + 1)
  BY <1>3, LenProperties
<1>5. \A j \in 1..Len(v) : v[j] # port
  BY <1>2 DEF ToSet
<1>6. StrictlyAscending(w)
  <2> SUFFICES ASSUME NEW i \in 1..(Len(v) + 1), NEW j \in 1..(Len(v) + 1), i < j
               PROVE  w[i] < w[j]
    BY <1>3 DEF StrictlyAscending
  <2>1. CASE j < b
    <3>1. i \in 1..Len(v) /\ j \in 1..Len(v) /\ w[i] = v[i] /\ w[j] = v[j]
      BY <1>1, <1>2, <1>3, <2>1
    <3> QED
      BY <3>1 DEF StrictlyAscending
  <2>2. CASE j = b
    <3>1. i \in 1..(b - 1) /\ w[i] = v[i] /\ w[j] = port
      BY <1>1, <1>2, <1>3, <2>2
    <3> QED
      BY <1>1, <3>1
  <2>3. CASE b < j
    <3>1. j - 1 \in b..Len(v) /\ j - 1 \in 1..Len(v) /\ w[j] = v[j - 1]
      BY <1>1, <1>2, <1>3, <2>3
    <3>2. port < v[j - 1]
      <4>1. v[j - 1] >= port /\ v[j - 1] # port /\ v[j - 1] \in Nat
        BY <1>1, <1>2, <1>5, <3>1
      <4> QED
        BY <1>2, <4>1
    <3>3. CASE i < b
      <4>1. i \in 1..Len(v) /\ w[i] = v[i] /\ i < j - 1
        BY <1>1, <1>2, <1>3, <2>3, <3>3
      <4> QED
        BY <3>1, <4>1 DEF StrictlyAscending
    <3>4. CASE i = b
      <4>1. w[i] = port
        BY <1>3, <3>4
      <4> QED
        BY <3>1, <3>2, <4>1
    <3>5. CASE b < i
      <4>1. i - 1 \in 1..Len(v) /\ w[i] = v[i - 1] /\ i - 1 < j - 1
        BY <1>1, <1>2, <1>3, <3>5
      <4> QED
        BY <3>1, <4>1 DEF StrictlyAscending
    <3> QED
      BY <1>1, <3>3, <3>4, <3>5
  <2> QED
    BY <1>1, <2>1, <2>2, <2>3
<1>7. ASSUME NEW x \in ToSet(w) PROVE x \in ToSet(v) \cup {port}
  <2>1. PICK j \in 1..(Len(v) + 1) : x = w[j]
    BY <1>4 DEF ToSet
  <2>2. CASE j < b
    <3>1. j \in DOMAIN v /\ x = v[j]
      BY <1>1, <1>2, <1>3, <2>1, <2>2
    <3> QED
      BY <3>1 DEF ToSet
  <2>3. CASE j = b
    BY <1>3, <2>1, <2>3
  <2>4. CASE b < j
    <3>1. j - 1 \in DOMAIN v /\ x = v[j - 1]
      BY <1>1, <1>2, <1>3, <2>1, <2>4
    <3> QED
      BY <3>1 DEF ToSet
  <2> QED
    BY <1>1, <2>2, <2>3, <2>4
<1>8. ASSUME NEW x \in ToSet(v) PROVE x \in ToSet(w)
  <2>1. PICK k \in 1..Len(v) : x = v[k]
    BY <1>2 DEF ToSet
  <2>2. CASE k < b
    <3>1. k \in DOMAIN w /\ w[k] = x
      BY <1>1, <1>2, <1>3, <1>4, <2>1, <2>2
    <3> QED
      BY <3>1 DEF ToSet
  <2>3. CASE ~(k < b)
    <3>1. k + 1 \in DOMAIN w /\ w[k + 1] = x
      <4>1. k + 1 \in 1..(Len(v) + 1) /\ ~(k + 1 < b) /\ k + 1 # b /\ (k + 1) - 1 = k
        BY <1>1, <1>2, <2>3
      <4> QED
        BY <1>3, <1>4, <2>1, <4>1
    <3> QED
      BY <3>1 DEF ToSet
  <2> QED
    BY <2>2, <2>3
<1>9. port \in ToSet(w)
  <2>1. b \in DOMAIN w /\ w[b] = port
    BY <1>1, <1>2, <1>3, <1>4
  <2> QED
    BY <2>1 DEF ToSet
<1> QED
  BY <1>3, <1>6, <1>7, <1>8, <1>9 DEF Inserted, w, b

\* A sorted vector without repetitions stays one when a port is erased.
LEMMA ErasedPort ==
  ASSUME NEW v \in Seq(Port), StrictlyAscending(v), NEW port \in Port
  PROVE  /\ RemoveFirst(v, port) \in Seq(Port)
         /\ StrictlyAscending(RemoveFirst(v, port))
         /\ ToSet(RemoveFirst(v, port)) = ToSet(v) \ {port}
<1>1. /\ Len(v) \in Nat
      /\ DOMAIN v = 1..Len(v)
      /\ \A j \in 1..Len(v) : v[j] \in Nat
  BY LenProperties, ElementOfSeq, DirectoryAssumption
<1>2. Distinct(v)
  <2> SUFFICES ASSUME NEW i \in 1..Len(v), NEW j \in 1..Len(v), v[i] = v[j], i < j
               PROVE  FALSE
    BY <1>1 DEF Distinct
  <2>1. v[i] < v[j]
    BY DEF StrictlyAscending
  <2> QED
    BY <1>1, <2>1
<1>3. /\ RemoveFirst(v, port) \in Seq(Port)
      /\ ToSet(RemoveFirst(v, port)) = ToSet(v) \ {port}
  BY <1>2, RemoveFromList
<1>4. StrictlyAscending(RemoveFirst(v, port))
  <2>1. CASE port \notin ToSet(v)
    <3>1. RemoveFirst(v, port) = v
      BY <1>1, <2>1 DEF RemoveFirst, ToSet
    <3> QED
      BY <3>1
  <2>2. CASE port \in ToSet(v)
    <3>1. PICK k \in 1..Len(v) : v[k] = port
      BY <1>1, <2>2 DEF ToSet
    <3> DEFINE w == RemoveAt(v, k)
    <3>2. RemoveFirst(v, port) = w
      BY <1>2, <3>1, RemoveFirstIndex
    <3>3. /\ Len(w) = Len(v) - 1
          /\ \A j \in 1..(Len(v) - 1) : w[j] = IF j < k THEN v[j] ELSE v[j + 1]
      BY RemoveAtProperties
    <3> HIDE DEF w
    <3>4. ASSUME NEW i \in 1..(Len(v) - 1), NEW j \in 1..(Len(v) - 1), i < j
          PROVE  w[i] < w[j]
      <4>1. PICK p \in 1..Len(v) : w[i] = v[p] /\ p = IF i < k THEN i ELSE i + 1
        BY <1>1, <3>3
      <4>2. PICK q \in 1..Len(v) : w[j] = v[q] /\ q = IF j < k THEN j ELSE j + 1
        BY <1>1, <3>3
      <4>3. p < q
        BY <1>1, <3>4, <4>1, <4>2
      <4> QED
        BY <4>1, <4>2, <4>3 DEF StrictlyAscending
    <3> QED
      BY <3>2, <3>3, <3>4 DEF StrictlyAscending
  <2> QED
    BY <2>1, <2>2
<1> QED
  BY <1>3, <1>4

-----------------------------------------------------------------------------
(***************************************************************************)
(* The map                                                                 *)
(***************************************************************************)
\* Keys are addresses, and each has a vector of ports of each kind.
PortSets ==
  /\ DOMAIN by_mac_ \subseteq Mac
  /\ by_mac_ = [mac \in DOMAIN by_mac_ |-> by_mac_[mac]]
  /\ \A mac \in DOMAIN by_mac_ : by_mac_[mac] \in [Kind -> Seq(Port)]

DirectoryInv == PortSets /\ DirectoryIsTidy

\* What find() hands out, for an address that is a key and for one that is not.
LEMMA FindIs ==
  ASSUME DirectoryInv, NEW mac
  PROVE  /\ find(mac) \in [Kind -> Seq(Port)]
         /\ \A kind \in Kind : StrictlyAscending(find(mac)[kind])
<1>1. CASE mac \in DOMAIN by_mac_
  BY <1>1 DEF DirectoryInv, PortSets, DirectoryIsTidy, find
<1>2. CASE mac \notin DOMAIN by_mac_
  <2>1. <<>> \in Seq(Port) /\ StrictlyAscending(<<>>)
    BY EmptySeq DEF StrictlyAscending
  <2> QED
    BY <1>2, <2>1 DEF find, NoPorts
<1> QED
  BY <1>1, <1>2

\* add()'s test, as a question about the set of listed ports.
LEMMA PresentIs ==
  ASSUME DirectoryInv, NEW mac \in Mac, NEW kind \in Kind, NEW port \in Port
  PROVE  present(mac, kind, port) <=> port \in ToSet(find(mac)[kind])
<1>1. find(mac)[kind] \in Seq(Port) /\ StrictlyAscending(find(mac)[kind])
  BY FindIs
<1> QED
  BY <1>1, FoundAtLowerBound DEF present

\* The port_set that add() leaves behind for its address.
LEMMA AddedSet ==
  ASSUME DirectoryInv, NEW mac \in Mac, NEW kind \in Kind, NEW port \in Port
  PROVE  \E set \in [Kind -> Seq(Port)] :
           /\ Added(mac, kind, port) = With(mac, set)
           /\ \A k \in Kind : StrictlyAscending(set[k])
           /\ ToSet(set[kind]) = ToSet(find(mac)[kind]) \cup {port}
           /\ \A k \in Kind \ {kind} : set[k] = find(mac)[k]
<1>1. /\ find(mac) \in [Kind -> Seq(Port)]
      /\ \A k \in Kind : StrictlyAscending(find(mac)[k])
  BY FindIs
<1>2. CASE present(mac, kind, port)
  <2>1. port \in ToSet(find(mac)[kind])
    BY <1>2, PresentIs
  <2>2. Added(mac, kind, port) = With(mac, find(mac))
    BY <1>2 DEF Added
  <2> QED
    BY <1>1, <2>1, <2>2
<1>3. CASE ~present(mac, kind, port)
  <2> DEFINE set == [find(mac) EXCEPT ![kind] = Inserted(@, port)]
  <2>1. port \notin ToSet(find(mac)[kind])
    BY <1>3, PresentIs
  <2>2. /\ Inserted(find(mac)[kind], port) \in Seq(Port)
        /\ StrictlyAscending(Inserted(find(mac)[kind], port))
        /\ ToSet(Inserted(find(mac)[kind], port)) = ToSet(find(mac)[kind]) \cup {port}
    BY <1>1, <2>1, InsertedPort
  <2>3. Added(mac, kind, port) = With(mac, set)
    BY <1>3 DEF Added
  <2>4. /\ set \in [Kind -> Seq(Port)]
        /\ set[kind] = Inserted(find(mac)[kind], port)
        /\ \A k \in Kind \ {kind} : set[k] = find(mac)[k]
    BY <1>1, <2>2
  <2> HIDE DEF set
  <2> QED
    BY <1>1, <2>2, <2>3, <2>4
<1> QED
  BY <1>2, <1>3

\* What remove() makes of the map, given the new port_set of its address.
Put(mac, set) ==
  IF mac \notin DOMAIN by_mac_ THEN by_mac_
  ELSE IF \A k \in Kind : set[k] = <<>> THEN Without(mac)
  ELSE With(mac, set)

Erased(mac, kind, port, set) ==
  /\ set \in [Kind -> Seq(Port)]
  /\ Removed(mac, kind, port) = Put(mac, set)
  /\ \A k \in Kind : StrictlyAscending(set[k])
  /\ ToSet(set[kind]) = ToSet(find(mac)[kind]) \ {port}
  /\ \A k \in Kind \ {kind} : set[k] = find(mac)[k]

\* The port_set that remove() works out for its address.
LEMMA RemovedSet ==
  ASSUME DirectoryInv, NEW mac \in Mac, NEW kind \in Kind, NEW port \in Port
  PROVE  \E set : Erased(mac, kind, port, set)
<1>1. /\ find(mac) \in [Kind -> Seq(Port)]
      /\ \A k \in Kind : StrictlyAscending(find(mac)[k])
  BY FindIs
<1> DEFINE set == [find(mac) EXCEPT ![kind] = RemoveFirst(@, port)]
<1>2. /\ RemoveFirst(find(mac)[kind], port) \in Seq(Port)
      /\ StrictlyAscending(RemoveFirst(find(mac)[kind], port))
      /\ ToSet(RemoveFirst(find(mac)[kind], port)) = ToSet(find(mac)[kind]) \ {port}
  BY <1>1, ErasedPort
<1>3. /\ set \in [Kind -> Seq(Port)]
      /\ set[kind] = RemoveFirst(find(mac)[kind], port)
      /\ \A k \in Kind \ {kind} : set[k] = find(mac)[k]
  BY <1>1, <1>2
<1>4. Removed(mac, kind, port) = Put(mac, set)
  BY DEF Removed, Put, Empty
<1> HIDE DEF set
<1>5. \A k \in Kind : StrictlyAscending(set[k])
  BY <1>1, <1>2, <1>3
<1>6. Erased(mac, kind, port, set)
  BY <1>2, <1>3, <1>4, <1>5 DEF Erased
<1> QED
  BY <1>6

\* The keys and the entries of the map after With and Without.
LEMMA MapStep ==
  ASSUME NEW mac, NEW set
  PROVE  /\ DOMAIN With(mac, set) = DOMAIN by_mac_ \cup {mac}
         /\ With(mac, set)[mac] = set
         /\ \A m \in DOMAIN by_mac_ \ {mac} : With(mac, set)[m] = by_mac_[m]
         /\ DOMAIN Without(mac) = DOMAIN by_mac_ \ {mac}
         /\ \A m \in DOMAIN by_mac_ \ {mac} : Without(mac)[m] = by_mac_[m]
BY DEF With, Without

\* Both operations keep the vectors sorted and no empty port_set.
LEMMA DirectoryStep ==
  ASSUME DirectoryInv, NEW mac \in Mac, NEW kind \in Kind, NEW port \in Port,
         by_mac_' = Added(mac, kind, port) \/ by_mac_' = Removed(mac, kind, port)
  PROVE  DirectoryInv'
<1>2. PortSets /\ DirectoryIsTidy
  BY DEF DirectoryInv
<1>3. ASSUME NEW set \in [Kind -> Seq(Port)], by_mac_' = With(mac, set),
             \A k \in Kind : StrictlyAscending(set[k]),
             \E k \in Kind : set[k] # <<>>
      PROVE  DirectoryInv'
  <2>1. PortSets'
    BY <1>2, <1>3, MapStep DEF PortSets, With
  <2>2. ASSUME NEW m \in DOMAIN by_mac_'
        PROVE  /\ \A k \in Kind : StrictlyAscending(by_mac_'[m][k])
               /\ \E k \in Kind : by_mac_'[m][k] # <<>>
    <3>1. CASE m = mac
      <4>1. by_mac_'[m] = set
        BY <1>3, <3>1, MapStep
      <4> QED
        BY <1>3, <4>1
    <3>2. CASE m # mac
      <4>1. m \in DOMAIN by_mac_ /\ by_mac_'[m] = by_mac_[m]
        <5>1. /\ DOMAIN by_mac_' = DOMAIN by_mac_ \cup {mac}
              /\ \A n \in DOMAIN by_mac_ \ {mac} : by_mac_'[n] = by_mac_[n]
          BY <1>3 DEF With
        <5> QED
          BY <2>2, <3>2, <5>1
      <4> QED
        BY <1>2, <4>1 DEF DirectoryIsTidy
    <3> QED
      BY <3>1, <3>2
  <2> QED
    BY <2>1, <2>2 DEF DirectoryInv, DirectoryIsTidy
<1>4. CASE by_mac_' = Added(mac, kind, port)
  <2>1. PICK set \in [Kind -> Seq(Port)] :
          /\ Added(mac, kind, port) = With(mac, set)
          /\ \A k \in Kind : StrictlyAscending(set[k])
          /\ ToSet(set[kind]) = ToSet(find(mac)[kind]) \cup {port}
          /\ \A k \in Kind \ {kind} : set[k] = find(mac)[k]
    BY AddedSet
  <2>2. set[kind] # <<>>
    <3>1. set[kind] \in Seq(Port) /\ ToSet(set[kind]) # {}
      BY <2>1
    <3> QED
      BY <3>1, EmptyList
  <2> QED
    BY <1>3, <1>4, <2>1, <2>2
<1>5. CASE by_mac_' = Removed(mac, kind, port)
  <2>0. PICK set : Erased(mac, kind, port, set)
    BY RemovedSet
  <2>1. /\ set \in [Kind -> Seq(Port)]
        /\ Removed(mac, kind, port) = Put(mac, set)
        /\ \A k \in Kind : StrictlyAscending(set[k])
        /\ ToSet(set[kind]) = ToSet(find(mac)[kind]) \ {port}
        /\ \A k \in Kind \ {kind} : set[k] = find(mac)[k]
    BY <2>0 DEF Erased
  <2>2. CASE mac \notin DOMAIN by_mac_
    <3>1. by_mac_' = by_mac_
      BY <1>5, <2>1, <2>2 DEF Put
    <3> QED
      BY <1>2, <3>1 DEF DirectoryInv, PortSets, DirectoryIsTidy
  <2>3. CASE mac \in DOMAIN by_mac_ /\ \A k \in Kind : set[k] = <<>>
    <3>1. by_mac_' = Without(mac)
      BY <1>5, <2>1, <2>3 DEF Put
    <3>2. PortSets'
      BY <1>2, <3>1, MapStep DEF PortSets, Without
    <3>3. ASSUME NEW m \in DOMAIN by_mac_'
          PROVE  m \in DOMAIN by_mac_ /\ by_mac_'[m] = by_mac_[m]
      BY <3>1, <3>3, MapStep
    <3>4. DirectoryIsTidy'
      BY <1>2, <3>3 DEF DirectoryIsTidy
    <3> QED
      BY <3>2, <3>4 DEF DirectoryInv
  <2>4. CASE mac \in DOMAIN by_mac_ /\ \E k \in Kind : set[k] # <<>>
    <3>1. by_mac_' = With(mac, set)
      BY <1>5, <2>1, <2>4 DEF Put
    <3> QED
      BY <1>3, <2>1, <2>4, <3>1
  <2> QED
    BY <2>2, <2>3, <2>4
<1> QED
  BY <1>4, <1>5

(***************************************************************************)
(* The inductive invariant: what lower_bound relies on is kept by every    *)
(* add() and remove(), also by a remove() of what is not there.            *)
(***************************************************************************)
THEOREM DirectoryInvariant == Spec => []DirectoryInv
<1>1. Init => DirectoryInv
  BY DEF Init, DirectoryInv, PortSets, DirectoryIsTidy
<1>2. DirectoryInv /\ [Next]_vars => DirectoryInv'
  <2> SUFFICES ASSUME DirectoryInv, [Next]_vars PROVE DirectoryInv'
    OBVIOUS
  <2>1. CASE Next
    <3>1. PICK mac \in Mac, kind \in Kind, port \in Port :
            add(mac, kind, port) \/ remove(mac, kind, port)
      BY <2>1 DEF Next
    <3> QED
      BY <3>1, DirectoryStep DEF add, remove
  <2>2. CASE UNCHANGED vars
    BY <2>2 DEF vars, DirectoryInv, PortSets, DirectoryIsTidy
  <2> QED
    BY <2>1, <2>2
<1> QED
  BY <1>1, <1>2, PTL DEF Spec

(***************************************************************************)
(* In relay_directory, each vector of an address stays sorted and free of  *)
(* duplicates, and an address without ports is no key, whatever the order  *)
(* of add() and remove() and for any number of addresses and ports.        *)
(***************************************************************************)
THEOREM DirectoryStaysTidy == Spec => []DirectoryIsTidy
<1>1. DirectoryInv => DirectoryIsTidy
  BY DEF DirectoryInv
<1> QED
  BY <1>1, DirectoryInvariant, PTL
-----------------------------------------------------------------------------
(***************************************************************************)
(* The set of listed ports                                                 *)
(***************************************************************************)
\* One vector changes, so the listed ports of its address and kind do.
LEMMA ListedStep ==
  ASSUME NEW mac \in Mac, NEW kind \in Kind, NEW set,
         find(mac)' = set,
         \A k \in Kind \ {kind} : set[k] = find(mac)[k],
         \A m \in Mac \ {mac} : find(m)' = find(m)
  PROVE  \A e \in Mac \X Kind \X Port :
           e \in Listed' <=> IF e[1] = mac /\ e[2] = kind THEN e[3] \in ToSet(set[kind])
                            ELSE e \in Listed
<1> SUFFICES ASSUME NEW m \in Mac, NEW k \in Kind, NEW p \in Port
             PROVE  <<m, k, p>> \in Listed' <=>
                      IF m = mac /\ k = kind THEN p \in ToSet(set[kind]) ELSE <<m, k, p>> \in Listed
  OBVIOUS
<1>1. <<m, k, p>> \in Listed <=> p \in ToSet(find(m)[k])
  BY DEF Listed
<1>2. <<m, k, p>> \in Listed' <=> p \in ToSet(find(m)'[k])
  BY DEF Listed
<1>3. CASE m = mac
  BY <1>1, <1>2, <1>3
<1>4. CASE m # mac
  BY <1>1, <1>2, <1>4
<1> QED
  BY <1>3, <1>4

\* What find() returns after the map has changed.
LEMMA FindStep ==
  ASSUME NEW mac \in Mac, NEW set
  PROVE  /\ by_mac_' = With(mac, set) =>
              find(mac)' = set /\ \A m \in Mac \ {mac} : find(m)' = find(m)
         /\ by_mac_' = Without(mac) =>
              find(mac)' = NoPorts /\ \A m \in Mac \ {mac} : find(m)' = find(m)
<1>1. ASSUME by_mac_' = With(mac, set)
      PROVE  find(mac)' = set /\ \A m \in Mac \ {mac} : find(m)' = find(m)
  <2>1. /\ DOMAIN by_mac_' = DOMAIN by_mac_ \cup {mac}
        /\ by_mac_'[mac] = set
        /\ \A m \in DOMAIN by_mac_ \ {mac} : by_mac_'[m] = by_mac_[m]
    BY <1>1 DEF With
  <2> QED
    BY <2>1 DEF find
<1>2. ASSUME by_mac_' = Without(mac)
      PROVE  find(mac)' = NoPorts /\ \A m \in Mac \ {mac} : find(m)' = find(m)
  <2>1. /\ DOMAIN by_mac_' = DOMAIN by_mac_ \ {mac}
        /\ \A m \in DOMAIN by_mac_ \ {mac} : by_mac_'[m] = by_mac_[m]
    BY <1>2, MapStep
  <2> QED
    BY <2>1 DEF find, NoPorts
<1> QED
  BY <1>1, <1>2

\* add() of the vectors is Add of the set.
LEMMA AddStep ==
  ASSUME DirectoryInv, NEW mac \in Mac, NEW kind \in Kind, NEW port \in Port,
         add(mac, kind, port)
  PROVE  P!Add(<<mac, kind, port>>)
<1>1. PICK set \in [Kind -> Seq(Port)] :
        /\ Added(mac, kind, port) = With(mac, set)
        /\ \A k \in Kind : StrictlyAscending(set[k])
        /\ ToSet(set[kind]) = ToSet(find(mac)[kind]) \cup {port}
        /\ \A k \in Kind \ {kind} : set[k] = find(mac)[k]
  BY AddedSet
<1>2. find(mac)' = set /\ \A m \in Mac \ {mac} : find(m)' = find(m)
  BY <1>1, FindStep DEF add
<1>3. ASSUME NEW e \in Mac \X Kind \X Port
      PROVE  e \in Listed' <=> e \in Listed \cup {<<mac, kind, port>>}
  <2>1. e \in Listed' <=>
          IF e[1] = mac /\ e[2] = kind THEN e[3] \in ToSet(set[kind])
          ELSE e \in Listed
    BY <1>1, <1>2, ListedStep
  <2>2. e[1] = mac /\ e[2] = kind => (e \in Listed <=> e[3] \in ToSet(find(mac)[kind]))
    BY DEF Listed
  <2> QED
    BY <1>1, <2>1, <2>2
<1>4. Listed' = Listed \cup {<<mac, kind, port>>}
  BY <1>3 DEF Listed
<1>5. added' = (<<mac, kind, port>> \notin Listed)
  <2>1. <<mac, kind, port>> \in Listed <=> port \in ToSet(find(mac)[kind])
    BY DEF Listed
  <2> QED
    BY <2>1, PresentIs DEF add
<1> QED
  BY <1>4, <1>5 DEF P!Add

\* remove() of the vectors is Remove of the set, whether the port is there or not.
LEMMA RemoveStep ==
  ASSUME DirectoryInv, NEW mac \in Mac, NEW kind \in Kind, NEW port \in Port,
         remove(mac, kind, port)
  PROVE  P!Remove(<<mac, kind, port>>)
<1>0. PICK set : Erased(mac, kind, port, set)
  BY RemovedSet
<1>1. /\ set \in [Kind -> Seq(Port)]
      /\ Removed(mac, kind, port) = Put(mac, set)
      /\ \A k \in Kind : StrictlyAscending(set[k])
      /\ ToSet(set[kind]) = ToSet(find(mac)[kind]) \ {port}
      /\ \A k \in Kind \ {kind} : set[k] = find(mac)[k]
  BY <1>0 DEF Erased
<1>2. by_mac_' = Removed(mac, kind, port) /\ added' = added
  BY DEF remove
<1>3. CASE mac \notin DOMAIN by_mac_
  <2>1. Listed' = Listed
    BY <1>1, <1>2, <1>3 DEF Put, Listed, find
  <2>2. <<mac, kind, port>> \notin Listed
    <3>1. find(mac)[kind] = <<>> /\ ToSet(<<>>) = {}
      BY <1>3 DEF find, NoPorts, ToSet
    <3> QED
      BY <3>1 DEF Listed
  <2> QED
    BY <1>2, <2>1, <2>2 DEF P!Remove
<1>4. CASE mac \in DOMAIN by_mac_
  <2>1. find(mac)' = set /\ \A m \in Mac \ {mac} : find(m)' = find(m)
    <3>1. CASE \A k \in Kind : set[k] = <<>>
      <4>1. set = NoPorts
        BY <1>1, <3>1 DEF NoPorts
      <4> QED
        BY <1>1, <1>2, <1>4, <3>1, <4>1, FindStep DEF Put
    <3>2. CASE ~\A k \in Kind : set[k] = <<>>
      BY <1>1, <1>2, <1>4, <3>2, FindStep DEF Put
    <3> QED
      BY <3>1, <3>2
  <2>2. ASSUME NEW e \in Mac \X Kind \X Port
        PROVE  e \in Listed' <=> e \in Listed \ {<<mac, kind, port>>}
    <3>1. e \in Listed' <=>
            IF e[1] = mac /\ e[2] = kind THEN e[3] \in ToSet(set[kind])
            ELSE e \in Listed
      BY <1>1, <2>1, ListedStep
    <3>2. e[1] = mac /\ e[2] = kind => (e \in Listed <=> e[3] \in ToSet(find(mac)[kind]))
      BY DEF Listed
    <3> QED
      BY <1>1, <3>1, <3>2
  <2>3. Listed' = Listed \ {<<mac, kind, port>>}
    BY <2>2 DEF Listed
  <2> QED
    BY <1>2, <2>3 DEF P!Remove
<1> QED
  BY <1>3, <1>4

(***************************************************************************)
(* relay_directory behaves as the set of ports of module Relay: add()      *)
(* returns true just when the port was free, and neither operation touches *)
(* another port, address or kind.                                          *)
(***************************************************************************)
THEOREM DirectoryImplementsPortList == Spec => ImplementsPortList
<1>1. Init => P!Init
  <2> SUFFICES ASSUME Init PROVE Listed = {} /\ added = FALSE
    BY DEF P!Init
  <2>1. \A m \in Mac, k \in Kind : ToSet(find(m)[k]) = {}
    BY DEF Init, find, NoPorts, ToSet
  <2> QED
    BY <2>1 DEF Init, Listed
<1>2. DirectoryInv /\ [Next]_vars => [P!Next]_(P!vars)
  <2> SUFFICES ASSUME DirectoryInv, [Next]_vars PROVE [P!Next]_(P!vars)
    OBVIOUS
  <2>1. CASE Next
    <3>1. PICK mac \in Mac, kind \in Kind, port \in Port :
            add(mac, kind, port) \/ remove(mac, kind, port)
      BY <2>1 DEF Next
    <3>2. <<mac, kind, port>> \in Mac \X Kind \X Port
      OBVIOUS
    <3>3. P!Add(<<mac, kind, port>>) \/ P!Remove(<<mac, kind, port>>)
      BY <3>1, AddStep, RemoveStep
    <3> QED
      BY <3>2, <3>3 DEF P!Next
  <2>2. CASE UNCHANGED vars
    BY <2>2 DEF vars, P!vars, Listed, find
  <2> QED
    BY <2>1, <2>2
<1> QED
  BY <1>1, <1>2, DirectoryInvariant, PTL DEF Spec, ImplementsPortList, P!Spec

=============================================================================
