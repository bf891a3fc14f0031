-------------------------- MODULE RxFramingProofs --------------------------
(***************************************************************************)
(* Proofs about module RxFraming: for every stream of bytes, every size of *)
(* the packets in the order of FramingAssumption and every buffer larger   *)
(* than the longest packet, the packets do not depend on how bytes arrive. *)
(***************************************************************************)
EXTENDS RxFraming, SequenceTheorems, TLAPS

Byte == 0..255

\* The inductive invariant: the three invariants of the runs need each other.
FramingInv ==
  /\ TypeOK
  /\ PacketsAreTheStream
  /\ BufferHoldsPartOfPacket

\* A packet has at least one byte and fits into the buffer with room to spare.
LEMMA SizeBounds ==
  ASSUME NEW b
  PROVE  /\ SizeOf(b) \in Nat
         /\ 1 <= SizeOf(b)
         /\ SizeOf(b) < RxSize
  BY FramingAssumption DEF SizeOf

\* The bytes a read brings are those that follow the received ones.
LEMMA ReadBytes ==
  ASSUME TypeOK, NEW n \in 1..(Len(stream) - got)
  PROVE  LET new == SubSeq(stream, got + 1, got + n)
         IN /\ new \in Seq(Byte)
            /\ Len(new) = n
            /\ \A j \in 1..n : new[j] = stream[got + j]
            /\ rx_ \o new \in Seq(Byte)
            /\ Len(rx_ \o new) = rxpos_ + n
            /\ \A j \in 1..(rxpos_ + n) :
                 (rx_ \o new)[j] = IF j <= rxpos_ THEN rx_[j] ELSE stream[got + (j - rxpos_)]
<1> DEFINE new == SubSeq(stream, got + 1, got + n)
<1>1. /\ stream \in Seq(Byte) /\ rx_ \in Seq(Byte)
      /\ got \in Nat /\ n \in Nat /\ n > 0 /\ got + n <= Len(stream)
      /\ Len(stream) \in Nat /\ rxpos_ \in Nat
  BY LenProperties DEF TypeOK, Byte, rxpos_
<1>2. \A i \in (got + 1)..(got + n) : stream[i] \in Byte
  BY <1>1, ElementOfSeq
<1>3. /\ new \in Seq(Byte)
      /\ Len(new) = IF got + 1 <= got + n THEN (got + n) - (got + 1) + 1 ELSE 0
      /\ \A i \in 1..((got + n) - (got + 1) + 1) : new[i] = stream[(got + 1) + i - 1]
  <2>1. got + 1 \in Int /\ got + n \in Int
    BY <1>1
  <2> QED
    BY <1>2, <2>1, SubSeqProperties
<1>4. /\ Len(new) = n
      /\ \A j \in 1..n : new[j] = stream[got + j]
  <2> HIDE DEF new
  <2> QED
    BY <1>1, <1>3
<1>5. /\ rx_ \o new \in Seq(Byte)
      /\ Len(rx_ \o new) = Len(rx_) + Len(new)
      /\ \A i \in 1..(Len(rx_) + Len(new)) :
           (rx_ \o new)[i] = IF i <= Len(rx_) THEN rx_[i] ELSE new[i - Len(rx_)]
  <2> HIDE DEF new
  <2> QED
    BY <1>1, <1>3, ConcatProperties
<1>6. \A j \in 1..(rxpos_ + n) :
        (rx_ \o new)[j] = IF j <= rxpos_ THEN rx_[j] ELSE stream[got + (j - rxpos_)]
  <2> HIDE DEF new
  <2> QED
    BY <1>1, <1>4, <1>5 DEF rxpos_
<1> HIDE DEF new
<1>7. Len(rx_ \o new) = rxpos_ + n
  BY <1>4, <1>5 DEF rxpos_
<1> QED
  BY <1>3, <1>4, <1>5, <1>6, <1>7 DEF new

(***************************************************************************)
(* TakePacket's packet is the front of the buffer, and what consume_rx     *)
(* leaves is the rest of it.                                               *)
(***************************************************************************)
LEMMA TakenBytes ==
  ASSUME TypeOK, rxpos_ > 0, ~Incomplete
  PROVE  LET n == SizeOf(op)
             pkt == SubSeq(rx_, 1, n)
             rest == SubSeq(rx_, (IF n > rxpos_ THEN rxpos_ ELSE n) + 1, rxpos_)
         IN /\ n \in 1..rxpos_
            /\ op = rx_[1]
            /\ pkt \in Seq(Byte)
            /\ Len(pkt) = n
            /\ \A j \in 1..n : pkt[j] = rx_[j]
            /\ rest \in Seq(Byte)
            /\ Len(rest) = rxpos_ - n
            /\ \A j \in 1..(rxpos_ - n) : rest[j] = rx_[n + j]
<1> DEFINE n == SizeOf(op)
           pkt == SubSeq(rx_, 1, n)
           rest == SubSeq(rx_, n + 1, rxpos_)
<1>1. rx_ \in Seq(Byte) /\ rxpos_ \in Nat /\ rx_ # <<>>
  BY EmptySeq, LenProperties DEF TypeOK, Byte, rxpos_
<1>2. n \in Nat /\ 1 <= n /\ n <= rxpos_
  BY <1>1, SizeBounds DEF Incomplete
<1> HIDE DEF n
<1>3. op = rx_[1]
  BY <1>1 DEF op
<1>4. \A i \in 1..rxpos_ : rx_[i] \in Byte
  BY <1>1, ElementOfSeq DEF rxpos_
<1>5. /\ pkt \in Seq(Byte)
      /\ Len(pkt) = IF 1 <= n THEN n - 1 + 1 ELSE 0
      /\ \A i \in 1..(n - 1 + 1) : pkt[i] = rx_[1 + i - 1]
  <2>1. \A i \in 1..n : rx_[i] \in Byte
    BY <1>2, <1>1, <1>4
  <2>2. 1 \in Int /\ n \in Int
    BY <1>2
  <2> QED
    BY <2>1, <2>2, SubSeqProperties
<1>6. /\ rest \in Seq(Byte)
      /\ Len(rest) = IF n + 1 <= rxpos_ THEN rxpos_ - (n + 1) + 1 ELSE 0
      /\ \A i \in 1..(rxpos_ - (n + 1) + 1) : rest[i] = rx_[(n + 1) + i - 1]
  <2>1. \A i \in (n + 1)..rxpos_ : rx_[i] \in Byte
    BY <1>2, <1>1, <1>4
  <2>2. n + 1 \in Int /\ rxpos_ \in Int
    BY <1>1, <1>2
  <2> QED
    BY <2>1, <2>2, SubSeqProperties
<1>7. SubSeq(rx_, (IF n > rxpos_ THEN rxpos_ ELSE n) + 1, rxpos_) = rest
  BY <1>1, <1>2
<1> HIDE DEF pkt, rest
<1>8. /\ Len(pkt) = n
      /\ \A j \in 1..n : pkt[j] = rx_[j]
  BY <1>2, <1>5
<1>9. /\ Len(rest) = rxpos_ - n
      /\ \A j \in 1..(rxpos_ - n) : rest[j] = rx_[n + j]
  BY <1>1, <1>2, <1>6
<1>10. n \in 1..rxpos_
  BY <1>1, <1>2
<1> QED
  BY <1>3, <1>5, <1>6, <1>7, <1>8, <1>9, <1>10 DEF n, pkt, rest
-----------------------------------------------------------------------------
\* FramingInv holds when the session object is made.
LEMMA InitFramingInv == Init => FramingInv
<1> SUFFICES ASSUME Init PROVE FramingInv
  OBVIOUS
<1>1. stream \in Seq(0..255) /\ Len(stream) \in Nat
  BY FramingAssumption, LenProperties DEF Init
<1>0. rx_ = <<>> /\ handled = <<>> /\ got = 0 /\ Len(rx_) = 0 /\ Len(handled) = 0
  BY EmptySeq DEF Init
<1>2. TypeOK
  <2>1. rx_ \in Seq(0..255) /\ handled \in Seq([at : Nat, packet : Seq(0..255)])
    BY <1>0, EmptySeq
  <2>2. rxpos_ <= RxSize /\ got \in 0..Len(stream)
    BY <1>0, <1>1, FramingAssumption DEF rxpos_
  <2> QED
    BY <1>1, <2>1, <2>2, Zenon DEF Init, TypeOK
<1>3. PacketsAreTheStream
  <2>1. InStream(rx_, got - rxpos_) /\ got - rxpos_ = 0
    <3>0. got = 0 /\ rxpos_ = 0
      BY <1>0 DEF rxpos_
    <3>1. got - rxpos_ = 0
      BY <3>0
    <3>2. InStream(rx_, 0)
      BY <1>0 DEF InStream
    <3> QED
      BY <3>1, <3>2
  <2>2. 1..Len(handled) = {}
    BY <1>0
  <2> QED
    BY <1>0, <2>1, <2>2, Zenon DEF PacketsAreTheStream
<1>4. BufferHoldsPartOfPacket
  BY FramingAssumption DEF Init, BufferHoldsPartOfPacket, rxpos_
<1> QED
  BY <1>2, <1>3, <1>4 DEF FramingInv

\* Where the buffer begins in the stream.
LEMMA BufferPosition ==
  ASSUME FramingInv
  PROVE  /\ got \in Nat /\ rxpos_ \in Nat
         /\ got - rxpos_ \in Nat
         /\ \A j \in 1..rxpos_ : rx_[j] = stream[(got - rxpos_) + j]
<1>1. got \in Nat /\ rxpos_ \in Nat
  BY LenProperties DEF FramingInv, TypeOK, rxpos_
<1>2. InStream(rx_, got - rxpos_)
  BY DEF FramingInv, PacketsAreTheStream
<1>3. got - rxpos_ \in Nat
  <2>1. CASE handled = <<>>
    BY <2>1 DEF FramingInv, PacketsAreTheStream
  <2>2. CASE handled # <<>>
    <3>1. /\ handled \in Seq([at : Nat, packet : Seq(0..255)])
          /\ Len(handled) \in 1..Len(handled)
      BY <2>2, EmptySeq, LenProperties DEF FramingInv, TypeOK
    <3>2. handled[Len(handled)] \in [at : Nat, packet : Seq(0..255)]
      BY <3>1, ElementOfSeq
    <3>3. EndOf(handled[Len(handled)]) \in Nat
      BY <3>2, LenProperties DEF EndOf
    <3> QED
      BY <2>2, <3>3 DEF FramingInv, PacketsAreTheStream
  <2> QED
    BY <2>1, <2>2
<1> QED
  BY <1>1, <1>2, <1>3 DEF InStream, rxpos_

\* A read keeps the invariant.
LEMMA ReadStep ==
  ASSUME FramingInv, NEW n \in 1..(Len(stream) - got), ReadSome(n)
  PROVE  FramingInv'
<1> DEFINE new == SubSeq(stream, got + 1, got + n)
<1>1. TypeOK /\ PacketsAreTheStream
  BY DEF FramingInv
<1>2. /\ got \in Nat /\ rxpos_ \in Nat /\ got - rxpos_ \in Nat /\ n \in Nat
      /\ Len(stream) \in Nat /\ got + n <= Len(stream)
  BY <1>1, BufferPosition, LenProperties DEF TypeOK
<1>3. /\ rx_' \in Seq(Byte)
      /\ rxpos_' = rxpos_ + n
      /\ \A j \in 1..(rxpos_ + n) :
           rx_'[j] = IF j <= rxpos_ THEN rx_[j] ELSE stream[got + (j - rxpos_)]
  BY <1>1, ReadBytes DEF ReadSome, rxpos_
<1>4. TypeOK'
  <2>1. rxpos_' <= RxSize
    BY <1>2, <1>3, FramingAssumption DEF ReadSome
  <2>2. got' \in 0..Len(stream)
    BY <1>2 DEF ReadSome
  <2> QED
    BY <1>1, <1>3, <2>1, <2>2, Zenon DEF TypeOK, ReadSome, Byte
<1>5. PacketsAreTheStream'
  <2>1. got' - rxpos_' = got - rxpos_ /\ got' >= got /\ got' \in Nat
    BY <1>2, <1>3 DEF ReadSome
  <2>2. ASSUME NEW i \in 1..Len(handled)
        PROVE  InStream(handled[i].packet, handled[i].at)'
    <3>1. handled[i] \in [at : Nat, packet : Seq(0..255)]
      BY <1>1, ElementOfSeq DEF TypeOK
    <3>2. Len(handled[i].packet) \in Nat /\ handled[i].at \in Nat
      BY <3>1, LenProperties
    <3>3. InStream(handled[i].packet, handled[i].at)
      BY <1>1 DEF PacketsAreTheStream
    <3> QED
      BY <1>2, <2>1, <3>2, <3>3 DEF InStream, ReadSome
  <2>3. InStream(rx_, got - rxpos_)'
    <3>1. ASSUME NEW j \in 1..(rxpos_ + n)
          PROVE  rx_'[j] = stream[(got - rxpos_) + j]
      <4>1. CASE j <= rxpos_
        BY <1>2, <1>3, <4>1, BufferPosition
      <4>2. CASE j > rxpos_
        <5>1. got + (j - rxpos_) = (got - rxpos_) + j
          BY <1>2
        <5> QED
          BY <1>2, <1>3, <4>2, <5>1
      <4> QED
        BY <1>2, <4>1, <4>2
    <3>2. Len(rx_') = rxpos_ + n /\ stream' = stream
      BY <1>3 DEF rxpos_, ReadSome
    <3>3. got' - rxpos_' + Len(rx_') <= got'
      <4>1. got' - rxpos_' + Len(rx_') = (got - rxpos_) + (rxpos_ + n) /\ got' = got + n
        BY <2>1, <3>2 DEF ReadSome
      <4> QED
        BY <1>2, <4>1
    <3> QED
      BY <2>1, <3>1, <3>2, <3>3 DEF InStream
  <2> QED
    BY <1>1, <2>1, <2>2, <2>3 DEF PacketsAreTheStream, ReadSome, EndOf
<1>6. BufferHoldsPartOfPacket'
  BY DEF BufferHoldsPartOfPacket, ReadSome
<1> QED
  BY <1>4, <1>5, <1>6 DEF FramingInv

\* Taking a packet keeps the invariant.
LEMMA TakeStep ==
  ASSUME FramingInv, TakePacket
  PROVE  FramingInv'
<1> DEFINE n == SizeOf(op)
           pkt == SubSeq(rx_, 1, n)
           h == [at |-> got - rxpos_, packet |-> pkt]
<1>1. TypeOK /\ PacketsAreTheStream
  BY DEF FramingInv
<1>2. /\ n \in 1..rxpos_
      /\ op = rx_[1]
      /\ pkt \in Seq(Byte)
      /\ Len(pkt) = n
      /\ \A j \in 1..n : pkt[j] = rx_[j]
      /\ rx_' \in Seq(Byte)
      /\ rxpos_' = rxpos_ - n
      /\ \A j \in 1..(rxpos_ - n) : rx_'[j] = rx_[n + j]
  BY <1>1, TakenBytes DEF TakePacket, consume_rx, rxpos_
<1>3. handled' = Append(handled, h) /\ got' = got /\ stream' = stream /\ reader' = reader
      /\ reader = "parsing"
  BY DEF TakePacket
<1>4. /\ closed_' \in BOOLEAN /\ game' \in BOOLEAN /\ group' \in BOOLEAN
  BY <1>1, Zenon DEF TakePacket, TypeOK
<1>5. /\ got \in Nat /\ rxpos_ \in Nat /\ got - rxpos_ \in Nat
      /\ \A j \in 1..rxpos_ : rx_[j] = stream[(got - rxpos_) + j]
  BY BufferPosition
<1>6. op = stream[(got - rxpos_) + 1]
  BY <1>2, <1>5
<1> HIDE DEF n, pkt
<1>7. /\ h \in [at : Nat, packet : Seq(0..255)]
      /\ handled \in Seq([at : Nat, packet : Seq(0..255)])
      /\ h.at = got - rxpos_ /\ h.packet = pkt
  BY <1>1, <1>2, <1>5 DEF TypeOK, Byte
<1> HIDE DEF h
<1>8. /\ handled' \in Seq([at : Nat, packet : Seq(0..255)])
      /\ handled' # <<>>
      /\ Len(handled') = Len(handled) + 1
      /\ \A i \in 1..Len(handled) : handled'[i] = handled[i]
      /\ handled'[Len(handled) + 1] = h
      /\ Len(handled) \in Nat
  BY <1>3, <1>7, AppendProperties, LenProperties
<1>9. TypeOK'
  <2>1. rxpos_' <= RxSize
    BY <1>1, <1>2, <1>5, FramingAssumption DEF TypeOK
  <2>2. got' \in 0..Len(stream') /\ stream' \in Seq(0..255) /\ rx_' \in Seq(0..255)
    BY <1>1, <1>2, <1>3 DEF TypeOK, Byte
  <2>3. reader' \in {"reading", "parsing", "done"}
    BY <1>3
  <2> QED
    BY <1>4, <1>8, <2>1, <2>2, <2>3, Zenon DEF TypeOK
<1>10. PacketsAreTheStream'
  <2>1. ASSUME NEW i \in 1..Len(handled)
        PROVE  /\ InStream(handled[i].packet, handled[i].at)
               /\ Len(handled[i].packet) = SizeOf(stream[handled[i].at + 1])
               /\ handled[i].at = IF i = 1 THEN 0 ELSE EndOf(handled[i - 1])
    BY <1>1 DEF PacketsAreTheStream
  <2>2. InStream(h.packet, h.at)
    <3>1. h.at + Len(h.packet) <= got
      BY <1>2, <1>5, <1>7
    <3>2. \A j \in 1..n : pkt[j] = stream[(got - rxpos_) + j]
      BY <1>2, <1>5
    <3> QED
      BY <1>2, <1>7, <3>1, <3>2 DEF InStream
  <2>3. Len(h.packet) = SizeOf(stream[h.at + 1])
    BY <1>2, <1>6, <1>7 DEF n
  <2>4. h.at = IF Len(handled) + 1 = 1 THEN 0 ELSE EndOf(handled[Len(handled)])
    BY <1>1, <1>7, <1>8, EmptySeq DEF PacketsAreTheStream
  <2>5. got' - rxpos_' = EndOf(h)
    <3>1. EndOf(h) = (got - rxpos_) + n
      BY <1>2, <1>7 DEF EndOf
    <3> QED
      BY <1>2, <1>3, <1>5, <3>1
  <2>6. InStream(rx_, got - rxpos_)'
    <3>1. got' - rxpos_' = (got - rxpos_) + n /\ Len(rx_') = rxpos_ - n
      BY <1>2, <1>3, <1>5 DEF rxpos_
    <3>2. ASSUME NEW j \in 1..(rxpos_ - n)
          PROVE  rx_'[j] = stream[((got - rxpos_) + n) + j]
      <4>1. n + j \in 1..rxpos_ /\ (got - rxpos_) + (n + j) = ((got - rxpos_) + n) + j
        BY <1>2, <1>5
      <4> QED
        BY <1>2, <1>5, <4>1
    <3>3. (got - rxpos_) + n + (rxpos_ - n) <= got
      BY <1>2, <1>5
    <3> QED
      BY <1>3, <3>1, <3>2, <3>3 DEF InStream
  <2>7. ASSUME NEW i \in 1..Len(handled')
        PROVE  (/\ InStream(handled[i].packet, handled[i].at)
                /\ Len(handled[i].packet) = SizeOf(stream[handled[i].at + 1])
                /\ handled[i].at = IF i = 1 THEN 0 ELSE EndOf(handled[i - 1]))'
    <3>1. CASE i \in 1..Len(handled)
      <4>1. handled'[i] = handled[i]
        BY <1>8, <3>1
      <4>2. i # 1 => handled'[i - 1] = handled[i - 1]
        <5>1. i # 1 => i - 1 \in 1..Len(handled)
          BY <1>8, <3>1
        <5> QED
          BY <1>8, <5>1
      <4> QED
        <5>1. /\ InStream(handled[i].packet, handled[i].at)
              /\ Len(handled[i].packet) = SizeOf(stream[handled[i].at + 1])
              /\ handled[i].at = IF i = 1 THEN 0 ELSE EndOf(handled[i - 1])
          BY <2>1, <3>1
        <5> QED
          BY <1>3, <4>1, <4>2, <5>1, Zenon DEF InStream, SizeOf, EndOf
    <3>2. CASE i = Len(handled) + 1
      <4>1. handled'[i] = h
        BY <1>8, <3>2
      <4>2. i # 1 => handled'[i - 1] = handled[Len(handled)]
        <5>1. i # 1 => i - 1 = Len(handled) /\ Len(handled) \in 1..Len(handled)
          BY <1>8, <3>2
        <5> QED
          BY <1>8, <5>1
      <4> QED
        BY <1>3, <2>2, <2>3, <2>4, <3>2, <4>1, <4>2, Zenon DEF InStream, SizeOf, EndOf
    <3> QED
      BY <1>8, <3>1, <3>2
  <2>8. handled'[Len(handled')] = h
    BY <1>8
  <2> QED
    BY <1>8, <2>5, <2>6, <2>7, <2>8, Zenon DEF PacketsAreTheStream, EndOf
<1>11. BufferHoldsPartOfPacket'
  BY <1>3 DEF BufferHoldsPartOfPacket
<1> QED
  BY <1>9, <1>10, <1>11 DEF FramingInv

\* Steps that leave bytes and packets alone keep the invariant.
LEMMA QuietStep ==
  ASSUME FramingInv, ReadFails \/ CloseElsewhere \/ RefuseOpcode \/ LeaveLoop \/ UNCHANGED vars
  PROVE  FramingInv'
<1>1. UNCHANGED <<stream, got, rx_, handled>>
  BY DEF ReadFails, CloseElsewhere, RefuseOpcode, LeaveLoop, vars
<1>2. /\ closed_' \in BOOLEAN /\ game' \in BOOLEAN /\ group' \in BOOLEAN
      /\ reader' \in {"reading", "parsing", "done"}
  BY Zenon DEF FramingInv, TypeOK, ReadFails, CloseElsewhere, RefuseOpcode, LeaveLoop, vars
<1>3. TypeOK'
  BY <1>1, <1>2, Zenon DEF FramingInv, TypeOK, rxpos_
<1>4. PacketsAreTheStream'
  BY <1>1, Zenon DEF FramingInv, PacketsAreTheStream, InStream, rxpos_
<1>5. BufferHoldsPartOfPacket'
  <2>1. CASE ReadFails \/ CloseElsewhere \/ RefuseOpcode
    BY <2>1, Zenon DEF ReadFails, CloseElsewhere, RefuseOpcode, BufferHoldsPartOfPacket
  <2>2. CASE LeaveLoop /\ ~closed_
    <3>1. ~LoopGoesOn /\ UNCHANGED <<rx_, game>>
      BY <2>2 DEF LeaveLoop
    <3>2. rxpos_ \in Nat /\ RxSize \in Nat
      BY BufferPosition, FramingAssumption
    <3>3. rx_ # <<>> => rxpos_ > 0
      BY EmptySeq, <3>2 DEF FramingInv, TypeOK, rxpos_
    <3>4. /\ rx_ # <<>> => Expected /\ rxpos_ < SizeOf(op)
          /\ rxpos_ < RxSize
      <4>1. CASE rx_ = <<>>
        BY <4>1, <3>2, FramingAssumption DEF rxpos_
      <4>2. CASE rx_ # <<>>
        <5>1. Expected /\ Incomplete
          BY <2>2, <3>1, <3>3, <4>2 DEF LoopGoesOn
        <5> QED
          BY <5>1, <3>2, SizeBounds DEF Incomplete
      <4> QED
        BY <4>1, <4>2
    <3> QED
      BY <3>1, <3>4, Zenon DEF BufferHoldsPartOfPacket, Expected, op, rxpos_
  <2>3. CASE LeaveLoop /\ closed_
    BY <2>3 DEF LeaveLoop, BufferHoldsPartOfPacket
  <2>4. CASE UNCHANGED vars
    BY <2>4, Zenon DEF FramingInv, vars, BufferHoldsPartOfPacket, Expected, op, rxpos_
  <2> QED
    BY <2>1, <2>2, <2>3, <2>4
<1> QED
  BY <1>3, <1>4, <1>5 DEF FramingInv

\* Every step keeps the invariant, so it holds in every state of the reader.
THEOREM FramingInvariant == Spec => []FramingInv
<1>1. FramingInv /\ [Next]_vars => FramingInv'
  <2> SUFFICES ASSUME FramingInv, [Next]_vars PROVE FramingInv'
    OBVIOUS
  <2>1. ASSUME NEW n \in 1..(Len(stream) - got), ReadSome(n) PROVE FramingInv'
    BY <2>1, ReadStep
  <2>2. CASE TakePacket
    BY <2>2, TakeStep
  <2>3. CASE ReadFails \/ CloseElsewhere \/ RefuseOpcode \/ LeaveLoop \/ UNCHANGED vars
    BY <2>3, QuietStep
  <2> QED
    BY <2>1, <2>2, <2>3 DEF Next, ReaderRuns
<1> QED
  BY InitFramingInv, <1>1, PTL DEF Spec

\* The buffer and its counters keep their types; rxpos_ never passes the buffer.
THEOREM FramingTypes == Spec => []TypeOK
<1>1. FramingInv => TypeOK
  BY DEF FramingInv
<1> QED
  BY <1>1, FramingInvariant, PTL

(***************************************************************************)
(* The packets handed to the handlers are the packets of the stream, whole *)
(* and in order, however the bytes are cut into reads.                     *)
(***************************************************************************)
THEOREM FramingIsExact == Spec => []PacketsAreTheStream
<1>1. FramingInv => PacketsAreTheStream
  BY DEF FramingInv
<1> QED
  BY <1>1, FramingInvariant, PTL

(***************************************************************************)
(* A reader that waits for more bytes has part of one packet and room for  *)
(* the rest: a read never gets an empty buffer.                            *)
(***************************************************************************)
THEOREM BufferNeverFull == Spec => []BufferHoldsPartOfPacket
<1>1. FramingInv => BufferHoldsPartOfPacket
  BY DEF FramingInv
<1> QED
  BY <1>1, FramingInvariant, PTL

\* What the packet loop has left to do: bytes, and the test of closed_.
Work == rxpos_ + (IF closed_ THEN 0 ELSE 1)

(***************************************************************************)
(* Each round of the packet loop leaves it or has less to do afterwards:   *)
(* it takes a packet of at least one byte off the buffer, or closes the    *)
(* session.  Nothing can make the one thread go round without progress,    *)
(* whatever the client sends.                                              *)
(***************************************************************************)
THEOREM RoundsMakeProgress ==
  Spec => [][reader = "parsing" =>
               reader' # "parsing" \/ (Work \in Nat /\ Work' \in Nat /\ Work' < Work)]_vars
<1> DEFINE Round == reader = "parsing" =>
               reader' # "parsing" \/ (Work \in Nat /\ Work' \in Nat /\ Work' < Work)
<1>1. ASSUME FramingInv, FramingInv', [Next]_vars PROVE [Round]_vars
  <2>1. rxpos_ \in Nat /\ closed_ \in BOOLEAN /\ rxpos_' \in Nat /\ closed_' \in BOOLEAN
    BY <1>1 DEF FramingInv, TypeOK, rxpos_
  <2>2. CASE TakePacket
    <3>1. SizeOf(op) \in 1..rxpos_ /\ rxpos_' = rxpos_ - SizeOf(op) /\ ~closed_
      BY <1>1, <2>2, TakenBytes DEF FramingInv, TakePacket, consume_rx, rxpos_
    <3>2. PICK n \in Int : n = SizeOf(op) /\ 1 <= n
      BY <3>1
    <3>3. rxpos_' < rxpos_
      BY <2>1, <3>1, <3>2
    <3>4. Work = rxpos_ + 1 /\ Work' \in {rxpos_', rxpos_' + 1}
      BY <2>1, <3>1 DEF Work
    <3>5. PICK r \in Nat : r = rxpos_
      BY <2>1
    <3>6. PICK q \in Nat : q = rxpos_'
      BY <2>1
    <3>7. q < r
      BY <3>3, <3>5, <3>6
    <3>8. q + 1 < r + 1 /\ q < r + 1 /\ q + 1 \in Nat /\ r + 1 \in Nat
      BY <3>7
    <3> QED
      BY <3>4, <3>5, <3>6, <3>8, Zenon
  <2>3. CASE RefuseOpcode
    <3>1. rxpos_' = rxpos_ /\ closed_' /\ ~closed_
      BY <2>3 DEF RefuseOpcode, rxpos_
    <3> QED
      BY <2>1, <3>1 DEF Work
  <2>4. CASE LeaveLoop
    BY <2>4 DEF LeaveLoop
  <2>5. CASE reader # "parsing"
    BY <2>5
  <2>6. CASE UNCHANGED vars
    BY <2>6
  <2>7. reader = "parsing" => TakePacket \/ RefuseOpcode \/ LeaveLoop \/ UNCHANGED vars
    BY <1>1 DEF Next, ReaderRuns, ReadSome, ReadFails, CloseElsewhere
  <2> HIDE DEF Round
  <2> QED
    BY <2>2, <2>3, <2>4, <2>5, <2>6, <2>7
<1> QED
  BY <1>1, FramingInvariant, PTL DEF Spec

=============================================================================
