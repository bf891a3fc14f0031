----------------------------- MODULE ListLemmas -----------------------------
(***************************************************************************)
(* What the operations on a vector, push_back and vector_remove, do to the *)
(* set of its elements, and the least index at which something is found.   *)
(* Induction on numbers is stated for sets, since no prover here can use   *)
(* the library's theorem, whose parameter is a predicate.                  *)
(***************************************************************************)
EXTENDS Integers, SequencesExt, SequenceTheorems, FiniteSetTheorems, FunctionTheorems,
        WellFoundedInduction, TLAPS

\* A non-empty set of numbers has a least one.
LEMMA LeastNumber ==
  ASSUME NEW N \in SUBSET Nat, N # {}
  PROVE  \E n \in N : \A m \in N : n <= m
<1> DEFINE R == {p \in Nat \X Nat : p[1] < p[2]}
<1>1. IsWellFoundedOn(R, Nat)
  BY NatLessThanWellFounded DEF OpToRel
<1>2. \A m, n \in Nat : m < n => <<m, n>> \in R
  OBVIOUS
<1> HIDE DEF R
<1>3. PICK n \in N : \A m \in N : ~(<<m, n>> \in R)
  BY <1>1, WFMin
<1>4. ASSUME NEW m \in N PROVE n <= m
  <2>1. m \in Nat /\ n \in Nat /\ ~(m < n)
    BY <1>2, <1>3
  <2> QED
    BY <2>1
<1> QED
  BY <1>4

\* Induction on numbers, for a set in the place of a predicate.
LEMMA NumberInduction ==
  ASSUME NEW N \in SUBSET Nat, 0 \in N, \A n \in N : n + 1 \in N
  PROVE  N = Nat
<1> SUFFICES ASSUME Nat \ N # {} PROVE FALSE
  OBVIOUS
<1>1. PICK n \in Nat \ N : \A m \in Nat \ N : n <= m
  <2>1. Nat \ N \in SUBSET Nat
    OBVIOUS
  <2> QED
    BY <2>1, LeastNumber
<1>2. n # 0 /\ n - 1 \in Nat
  BY <1>1
<1>3. n - 1 \in N
  BY <1>1, <1>2
<1> QED
  BY <1>1, <1>2, <1>3

\* The greatest of some of the first n numbers is one of them.
LEMMA GreatestNumber ==
  ASSUME NEW n \in Nat, NEW S \in SUBSET (1..n), S # {}
  PROVE  Max(S) \in S /\ \A m \in S : Max(S) >= m
<1> DEFINE N == {d \in Nat : n - d \in S}
<1>1. PICK e \in S : TRUE
  OBVIOUS
<1>2. n - e \in N
  BY <1>1
<1>3. PICK d \in N : \A c \in N : d <= c
  BY <1>2, LeastNumber
<1>4. \A m \in S : n - d >= m
  <2> SUFFICES ASSUME NEW m \in S PROVE n - d >= m
    OBVIOUS
  <2>1. n - m \in N
    OBVIOUS
  <2>2. d <= n - m
    BY <1>3, <2>1
  <2> QED
    BY <1>3, <2>2
<1>5. \E x \in S : \A y \in S : x >= y
  BY <1>3, <1>4
<1> QED
  BY <1>5, Zenon DEF Max

\* Nobody is listed twice.
Distinct(v) == \A i, j \in 1..Len(v) : v[i] = v[j] => i = j

\* A list without elements is the empty list.
LEMMA EmptyList ==
  ASSUME NEW S, NEW v \in Seq(S)
  PROVE  v = <<>> <=> ToSet(v) = {}
<1>1. DOMAIN v = 1..Len(v) /\ Len(v) \in Nat
  BY LenProperties
<1>2. ASSUME ToSet(v) = {} PROVE v = <<>>
  <2>1. Len(v) = 0
    <3>1. ASSUME Len(v) # 0 PROVE FALSE
      <4>1. 1 \in DOMAIN v
        BY <1>1, <3>1
      <4>2. v[1] \in ToSet(v)
        BY <4>1 DEF ToSet
      <4> QED
        BY <1>2, <4>2
    <3> QED
      BY <3>1
  <2> QED
    BY <2>1, EmptySeq
<1>3. ToSet(<<>>) = {}
  BY DEF ToSet
<1> QED
  BY <1>2, <1>3

\* push_back
LEMMA AppendToList ==
  ASSUME NEW S, NEW v \in Seq(S), NEW e \in S
  PROVE  /\ Append(v, e) \in Seq(S)
         /\ ToSet(Append(v, e)) = ToSet(v) \cup {e}
         /\ Distinct(v) /\ e \notin ToSet(v) => Distinct(Append(v, e))
         /\ v # <<>> => Head(Append(v, e)) = Head(v)
<1> DEFINE w == Append(v, e)
<1>1. /\ w \in Seq(S)
      /\ Len(w) = Len(v) + 1
      /\ \A i \in 1..Len(v) : w[i] = v[i]
      /\ w[Len(v) + 1] = e
  BY AppendProperties
<1>2. Len(v) \in Nat /\ DOMAIN v = 1..Len(v) /\ DOMAIN w = 1..Len(w)
  BY <1>1, LenProperties
<1> HIDE DEF w
<1>3. ToSet(w) = ToSet(v) \cup {e}
  BY <1>1, <1>2 DEF ToSet
<1>4. ASSUME Distinct(v), e \notin ToSet(v) PROVE Distinct(w)
  BY <1>1, <1>2, <1>4 DEF Distinct, ToSet
<1>5. v # <<>> => Head(w) = Head(v)
  <2> SUFFICES ASSUME v # <<>> PROVE w[1] = v[1]
    BY <1>1, <1>2, EmptySeq
  <2> QED
    BY <1>1, <1>2, EmptySeq
<1> QED
  BY <1>1, <1>3, <1>4, <1>5 DEF w

\* RemoveAt, element by element.
LEMMA RemoveAtProperties ==
  ASSUME NEW S, NEW v \in Seq(S), NEW i \in 1..Len(v)
  PROVE  /\ RemoveAt(v, i) \in Seq(S)
         /\ Len(RemoveAt(v, i)) = Len(v) - 1
         /\ \A j \in 1..(Len(v) - 1) :
              RemoveAt(v, i)[j] = IF j < i THEN v[j] ELSE v[j + 1]
<1>1. Len(v) \in Nat /\ \A j \in 1..Len(v) : v[j] \in S
  BY LenProperties, ElementOfSeq
<1> DEFINE a == SubSeq(v, 1, i - 1)
           b == SubSeq(v, i + 1, Len(v))
<1>2. /\ a \in Seq(S)
      /\ Len(a) = i - 1
      /\ \A j \in 1..(i - 1) : a[j] = v[j]
  <2>1. \A j \in 1..(i - 1) : v[j] \in S
    BY <1>1
  <2>2. /\ SubSeq(v, 1, i - 1) \in Seq(S)
        /\ Len(SubSeq(v, 1, i - 1)) = IF 1 <= i - 1 THEN (i - 1) - 1 + 1 ELSE 0
        /\ \A j \in 1..((i - 1) - 1 + 1) : SubSeq(v, 1, i - 1)[j] = v[1 + j - 1]
    BY <1>1, <2>1, SubSeqProperties
  <2> QED
    BY <1>1, <2>2
<1>3. /\ b \in Seq(S)
      /\ Len(b) = Len(v) - i
      /\ \A j \in 1..(Len(v) - i) : b[j] = v[i + j]
  <2>1. \A j \in (i + 1)..Len(v) : v[j] \in S
    BY <1>1
  <2>2. /\ SubSeq(v, i + 1, Len(v)) \in Seq(S)
        /\ Len(SubSeq(v, i + 1, Len(v))) = IF i + 1 <= Len(v) THEN Len(v) - (i + 1) + 1 ELSE 0
        /\ \A j \in 1..(Len(v) - (i + 1) + 1) :
             SubSeq(v, i + 1, Len(v))[j] = v[(i + 1) + j - 1]
    BY <1>1, <2>1, SubSeqProperties
  <2> QED
    BY <1>1, <2>2
<1> HIDE DEF a, b
<1>4. /\ a \o b \in Seq(S)
      /\ Len(a \o b) = Len(a) + Len(b)
      /\ \A j \in 1..(Len(a) + Len(b)) :
           (a \o b)[j] = IF j <= Len(a) THEN a[j] ELSE b[j - Len(a)]
  BY <1>2, <1>3, ConcatProperties
<1>5. RemoveAt(v, i) = a \o b
  BY DEF RemoveAt, a, b
<1>6. Len(a \o b) = Len(v) - 1
  BY <1>1, <1>2, <1>3, <1>4
<1>7. ASSUME NEW j \in 1..(Len(v) - 1)
      PROVE  (a \o b)[j] = IF j < i THEN v[j] ELSE v[j + 1]
  <2>1. (a \o b)[j] = IF j <= i - 1 THEN a[j] ELSE b[j - (i - 1)]
    BY <1>1, <1>2, <1>3, <1>4
  <2>2. CASE j < i
    BY <1>1, <1>2, <2>1, <2>2
  <2>3. CASE ~(j < i)
    <3>1. j - (i - 1) \in 1..(Len(v) - i) /\ i + (j - (i - 1)) = j + 1
      BY <1>1, <2>3
    <3>2. b[j - (i - 1)] = v[i + (j - (i - 1))]
      BY <1>3, <3>1
    <3> QED
      BY <1>1, <2>1, <2>3, <3>1, <3>2
  <2> QED
    BY <2>2, <2>3
<1> QED
  BY <1>4, <1>5, <1>6, <1>7

\* The index that RemoveFirst removes, in a list without repetitions.
LEMMA RemoveFirstIndex ==
  ASSUME NEW S, NEW v \in Seq(S), NEW k \in 1..Len(v), Distinct(v)
  PROVE  RemoveFirst(v, v[k]) = RemoveAt(v, k)
<1> DEFINE I == {i \in 1..Len(v) : v[i] = v[k]}
<1>1. I = {k}
  BY DEF Distinct
<1>2. k =< k
  BY LenProperties
<1>3. Min({k}) = k
  BY <1>2 DEF Min
<1>4. RemoveFirst(v, v[k]) = RemoveAt(v, Min(I))
  BY <1>1 DEF RemoveFirst, SelectInSeq
<1> QED
  BY <1>1, <1>3, <1>4

\* vector_remove, on a list without repetitions.
LEMMA RemoveFromList ==
  ASSUME NEW S, NEW v \in Seq(S), NEW e, Distinct(v)
  PROVE  /\ RemoveFirst(v, e) \in Seq(S)
         /\ ToSet(RemoveFirst(v, e)) = ToSet(v) \ {e}
         /\ Distinct(RemoveFirst(v, e))
<1>1. Len(v) \in Nat /\ DOMAIN v = 1..Len(v)
  BY LenProperties
<1>2. CASE e \notin ToSet(v)
  <2>1. RemoveFirst(v, e) = v
    BY <1>1, <1>2 DEF RemoveFirst, ToSet
  <2> QED
    BY <1>2, <2>1
<1>3. CASE e \in ToSet(v)
  <2>1. PICK i \in 1..Len(v) : v[i] = e
    BY <1>1, <1>3 DEF ToSet
  <2> DEFINE w == RemoveAt(v, i)
  <2>2. RemoveFirst(v, e) = w
    BY <2>1, RemoveFirstIndex
  <2>3. /\ w \in Seq(S)
        /\ Len(w) = Len(v) - 1
        /\ \A j \in 1..(Len(v) - 1) : w[j] = IF j < i THEN v[j] ELSE v[j + 1]
    BY <2>1, RemoveAtProperties
  <2> HIDE DEF w
  <2>4. DOMAIN w = 1..(Len(v) - 1)
    BY <2>3, LenProperties
  <2>5. ASSUME NEW x \in ToSet(w) PROVE x \in ToSet(v) \ {e}
    <3>1. PICK j \in 1..(Len(v) - 1) : x = w[j]
      BY <2>4 DEF ToSet
    <3>2. PICK k \in 1..Len(v) : k # i /\ x = v[k]
      <4>1. CASE j < i
        <5>1. j \in 1..Len(v) /\ j # i /\ x = v[j]
          BY <1>1, <2>3, <3>1, <4>1
        <5> QED
          BY <5>1
      <4>2. CASE ~(j < i)
        <5>1. j + 1 \in 1..Len(v) /\ j + 1 # i /\ x = v[j + 1]
          BY <1>1, <2>3, <3>1, <4>2
        <5> QED
          BY <5>1
      <4> QED
        BY <4>1, <4>2
    <3> QED
      BY <1>1, <2>1, <3>2 DEF ToSet, Distinct
  <2>6. ASSUME NEW x \in ToSet(v), x # e PROVE x \in ToSet(w)
    <3>1. PICK k \in 1..Len(v) : x = v[k]
      BY <1>1 DEF ToSet
    <3>2. k # i
      BY <2>1, <2>6, <3>1
    <3>3. CASE k < i
      <4>1. k \in 1..(Len(v) - 1) /\ w[k] = x
        BY <1>1, <2>1, <2>3, <3>1, <3>3
      <4> QED
        BY <2>4, <4>1 DEF ToSet
    <3>4. CASE k > i
      <4>1. k - 1 \in 1..(Len(v) - 1) /\ w[k - 1] = x
        BY <1>1, <2>1, <2>3, <3>1, <3>4
      <4> QED
        BY <2>4, <4>1 DEF ToSet
    <3> QED
      BY <1>1, <2>1, <3>2, <3>3, <3>4
  <2>7. Distinct(w)
    BY <1>1, <2>1, <2>3 DEF Distinct
  <2> QED
    BY <2>2, <2>3, <2>5, <2>6, <2>7
<1> QED
  BY <1>2, <1>3

\* The front of a list stays when another element is removed.
LEMMA RemoveKeepsHead ==
  ASSUME NEW S, NEW v \in Seq(S), NEW e, Distinct(v), v # <<>>, Head(v) # e
  PROVE  RemoveFirst(v, e) # <<>> /\ Head(RemoveFirst(v, e)) = Head(v)
<1>1. Len(v) \in Nat /\ DOMAIN v = 1..Len(v) /\ Len(v) # 0 /\ Head(v) = v[1]
  BY LenProperties, EmptySeq, HeadTailProperties
<1>2. CASE e \notin ToSet(v)
  BY <1>1, <1>2 DEF RemoveFirst, ToSet
<1>3. CASE e \in ToSet(v)
  <2>1. PICK i \in 1..Len(v) : v[i] = e
    BY <1>1, <1>3 DEF ToSet
  <2> DEFINE w == RemoveAt(v, i)
  <2>2. RemoveFirst(v, e) = w
    BY <2>1, RemoveFirstIndex
  <2>3. /\ w \in Seq(S)
        /\ Len(w) = Len(v) - 1
        /\ \A j \in 1..(Len(v) - 1) : w[j] = IF j < i THEN v[j] ELSE v[j + 1]
    BY <2>1, RemoveAtProperties
  <2> HIDE DEF w
  <2>4. 1 < i /\ 1 \in 1..(Len(v) - 1)
    BY <1>1, <2>1
  <2>5. w # <<>> /\ Head(w) = w[1]
    BY <2>3, <2>4, EmptySeq, HeadTailProperties
  <2> QED
    BY <1>1, <2>2, <2>3, <2>4, <2>5
<1> QED
  BY <1>2, <1>3

\* How many there are of something that is numbered without a repetition.
LEMMA Numbered ==
  ASSUME NEW n \in Nat, NEW T, NEW f \in [1..n -> T],
         \A i, j \in 1..n : f[i] = f[j] => i = j,
         \A x \in T : \E i \in 1..n : f[i] = x
  PROVE  Cardinality(T) = n
<1>1. f \in Bijection(1..n, T)
  BY Fun_IsBij
<1>2. ExistsBijection(1..n, T)
  BY <1>1 DEF ExistsBijection
<1>3. IsFiniteSet(1..n) /\ Cardinality(1..n) = n
  BY FS_Interval
<1> QED
  BY <1>2, <1>3, FS_Bijection

\* A list that has each element of a set once is as long as the set is large.
LEMMA DistinctLength ==
  ASSUME NEW S, NEW v \in Seq(S), Distinct(v)
  PROVE  Cardinality(ToSet(v)) = Len(v)
<1>1. Len(v) \in Nat /\ DOMAIN v = 1..Len(v)
  BY LenProperties
<1>2. v \in [1..Len(v) -> ToSet(v)]
  <2>1. v \in [1..Len(v) -> S]
    BY LenProperties
  <2> QED
    BY <1>1, <2>1 DEF ToSet
<1>3. \A i, j \in 1..Len(v) : v[i] = v[j] => i = j
  BY DEF Distinct
<1>4. \A x \in ToSet(v) : \E i \in 1..Len(v) : v[i] = x
  BY <1>1 DEF ToSet
<1> QED
  BY <1>1, <1>2, <1>3, <1>4, Numbered

\* One list after another.
LEMMA ConcatLists ==
  ASSUME NEW S, NEW v \in Seq(S), NEW w \in Seq(S)
  PROVE  /\ v \o w \in Seq(S)
         /\ ToSet(v \o w) = ToSet(v) \cup ToSet(w)
         /\ Distinct(v) /\ Distinct(w) /\ ToSet(v) \cap ToSet(w) = {} => Distinct(v \o w)
<1>1. /\ v \o w \in Seq(S)
      /\ Len(v \o w) = Len(v) + Len(w)
      /\ \A i \in 1..(Len(v) + Len(w)) :
           (v \o w)[i] = IF i <= Len(v) THEN v[i] ELSE w[i - Len(v)]
  BY ConcatProperties
<1>2. /\ Len(v) \in Nat /\ DOMAIN v = 1..Len(v)
      /\ Len(w) \in Nat /\ DOMAIN w = 1..Len(w)
  BY LenProperties
<1>3. DOMAIN (v \o w) = 1..Len(v \o w)
  BY <1>1, LenProperties
<1>4. PICK u : u = v \o w
  OBVIOUS
<1>5. /\ DOMAIN u = 1..(Len(v) + Len(w))
      /\ Len(u) = Len(v) + Len(w)
      /\ \A i \in 1..Len(v) : u[i] = v[i]
      /\ \A i \in 1..Len(w) : u[Len(v) + i] = w[i]
      /\ \A i \in 1..(Len(v) + Len(w)) :
           u[i] = IF i <= Len(v) THEN v[i] ELSE w[i - Len(v)]
  BY <1>1, <1>2, <1>3, <1>4
<1>6. \A i \in 1..(Len(v) + Len(w)) : i > Len(v) => i - Len(v) \in 1..Len(w)
  BY <1>2
<1>7. ASSUME NEW x \in ToSet(u) PROVE x \in ToSet(v) \cup ToSet(w)
  <2>1. PICK i \in 1..(Len(v) + Len(w)) : x = u[i]
    BY <1>5 DEF ToSet
  <2>2. CASE i <= Len(v)
    <3>1. i \in 1..Len(v) /\ x = v[i]
      BY <1>2, <1>5, <2>1, <2>2
    <3> QED
      BY <1>2, <3>1 DEF ToSet
  <2>3. CASE i > Len(v)
    <3>1. i - Len(v) \in 1..Len(w) /\ x = w[i - Len(v)]
      BY <1>2, <1>5, <1>6, <2>1, <2>3
    <3> QED
      BY <1>2, <3>1 DEF ToSet
  <2> QED
    BY <1>2, <2>2, <2>3
<1>8. ASSUME NEW x \in ToSet(v) PROVE x \in ToSet(u)
  <2>1. PICK i \in 1..Len(v) : x = v[i]
    BY <1>2 DEF ToSet
  <2>2. i \in DOMAIN u /\ u[i] = x
    BY <1>2, <1>5, <2>1
  <2> QED
    BY <2>2 DEF ToSet
<1>9. ASSUME NEW x \in ToSet(w) PROVE x \in ToSet(u)
  <2>1. PICK i \in 1..Len(w) : x = w[i]
    BY <1>2 DEF ToSet
  <2>2. Len(v) + i \in DOMAIN u /\ u[Len(v) + i] = x
    BY <1>2, <1>5, <2>1
  <2> QED
    BY <2>2 DEF ToSet
<1>10. ASSUME Distinct(v), Distinct(w), ToSet(v) \cap ToSet(w) = {} PROVE Distinct(u)
  <2> SUFFICES ASSUME NEW i \in 1..(Len(v) + Len(w)), NEW j \in 1..(Len(v) + Len(w)),
                      u[i] = u[j], i < j
               PROVE  FALSE
    BY <1>2, <1>5 DEF Distinct
  <2>1. CASE j <= Len(v)
    BY <1>2, <1>5, <1>10, <2>1 DEF Distinct
  <2>2. CASE i > Len(v)
    <3>1. i - Len(v) \in 1..Len(w) /\ j - Len(v) \in 1..Len(w)
      BY <1>2, <1>6, <2>2
    <3>2. w[i - Len(v)] = w[j - Len(v)]
      BY <1>2, <1>5, <2>2
    <3> QED
      BY <1>2, <1>10, <3>1, <3>2 DEF Distinct
  <2>3. CASE i <= Len(v) /\ j > Len(v)
    <3>1. i \in 1..Len(v) /\ j - Len(v) \in 1..Len(w)
      BY <1>2, <1>6, <2>3
    <3>2. v[i] = w[j - Len(v)]
      BY <1>2, <1>5, <2>3
    <3> QED
      BY <1>2, <1>10, <3>1, <3>2 DEF ToSet
  <2> QED
    BY <1>2, <2>1, <2>2, <2>3
<1> QED
  BY <1>1, <1>4, <1>7, <1>8, <1>9, <1>10

\* The recursion that FlattenSeq is defined by.
FlattenStep(seqs, it, i) == IF i = 1 THEN seqs[i] ELSE it[i - 1] \o seqs[i]

IsFlatten(seqs, n, it) == it = [i \in 1..n |-> FlattenStep(seqs, it, i)]

\* It has a solution, however many lists there are.
LEMMA FlattenExists ==
  ASSUME NEW seqs, NEW n \in Nat
  PROVE  \E it : IsFlatten(seqs, n, it)
<1> DEFINE N == {m \in Nat : \E it : IsFlatten(seqs, m, it)}
<1>1. 0 \in N
  <2>1. IsFlatten(seqs, 0, <<>>)
    BY DEF IsFlatten
  <2> QED
    BY <2>1
<1>2. ASSUME NEW m \in N PROVE m + 1 \in N
  <2>1. PICK it : IsFlatten(seqs, m, it)
    OBVIOUS
  <2> DEFINE next == [i \in 1..(m + 1) |-> IF i = m + 1 THEN FlattenStep(seqs, it, i) ELSE it[i]]
  <2>2. m \in Nat
    OBVIOUS
  <2>3. ASSUME NEW i \in 1..(m + 1) PROVE next[i] = FlattenStep(seqs, next, i)
    <3>1. i # 1 => next[i - 1] = it[i - 1]
      BY <2>2
    <3>2. next[i] = FlattenStep(seqs, it, i)
      <4>1. CASE i = m + 1
        BY <4>1
      <4>2. CASE i # m + 1
        <5>1. i \in 1..m /\ next[i] = it[i]
          BY <2>2, <4>2
        <5> HIDE DEF next
        <5>2. it[i] = FlattenStep(seqs, it, i)
          BY <2>1, <5>1, Zenon DEF IsFlatten
        <5> QED
          BY <5>1, <5>2
      <4> QED
        BY <4>1, <4>2
    <3> HIDE DEF next
    <3>3. FlattenStep(seqs, next, i) = FlattenStep(seqs, it, i)
      BY <3>1, Zenon DEF FlattenStep
    <3> QED
      BY <3>2, <3>3
  <2>4. next = [i \in 1..(m + 1) |-> next[i]]
    OBVIOUS
  <2> HIDE DEF next
  <2>5. IsFlatten(seqs, m + 1, next)
    BY <2>3, <2>4, Zenon DEF IsFlatten
  <2> QED
    BY <2>2, <2>5
<1>3. N = Nat
  <2> HIDE DEF N
  <2>1. N \in SUBSET Nat
    BY DEF N
  <2> QED
    BY <1>1, <1>2, <2>1, NumberInduction
<1> QED
  BY <1>3

\* FlattenSeq appends one list after the other.
LEMMA FlattenSteps ==
  ASSUME NEW seqs, Len(seqs) \in Nat \ {0}
  PROVE  \E after : /\ after[1] = seqs[1]
                    /\ \A i \in 1..(Len(seqs) - 1) : after[i + 1] = after[i] \o seqs[i + 1]
                    /\ FlattenSeq(seqs) = after[Len(seqs)]
<1> DEFINE after == CHOOSE it : IsFlatten(seqs, Len(seqs), it)
<1>1. IsFlatten(seqs, Len(seqs), after)
  BY FlattenExists, Zenon
<1>2. FlattenSeq(seqs) = after[Len(seqs)]
  <2>1. Len(seqs) # 0
    OBVIOUS
  <2> QED
    BY <2>1, Zenon DEF FlattenSeq, IsFlatten, FlattenStep
<1> HIDE DEF after
<1>3. \A i \in 1..Len(seqs) : after[i] = FlattenStep(seqs, after, i)
  BY <1>1, Zenon DEF IsFlatten
<1>4. after[1] = seqs[1]
  BY <1>3 DEF FlattenStep
<1>5. ASSUME NEW i \in 1..(Len(seqs) - 1) PROVE after[i + 1] = after[i] \o seqs[i + 1]
  <2>1. i + 1 \in 1..Len(seqs) /\ i + 1 # 1 /\ (i + 1) - 1 = i
    OBVIOUS
  <2>2. after[i + 1] = FlattenStep(seqs, after, i + 1)
    BY <1>3, <2>1
  <2> QED
    BY <2>1, <2>2, Zenon DEF FlattenStep
<1> QED
  BY <1>2, <1>4, <1>5

=============================================================================
