------------------------------- MODULE Ps2Proofs -------------------------------
(***************************************************************************)
(* Proofs about Ps2, for a queue of any size, positions of any width that  *)
(* is a multiple of it, and any keys.                                      *)
(***************************************************************************)
EXTENDS Ps2, SequenceTheorems, FiniteSetTheorems, TLAPS

(***************************************************************************)
(* Indices of a ring.                                                      *)
(***************************************************************************)

\* The successor of an index wraps at the end of the ring.
LEMMA RingSuccessor ==
    ASSUME NEW n \in Nat \ {0}, NEW i \in 0 .. n - 1
    PROVE  (i + 1) % n = IF i + 1 = n THEN 0 ELSE i + 1
OBVIOUS

\* Division with remainder, and the remainder of what is written that way.
LEMMA DivisionExists ==
    ASSUME NEW n \in Nat \ {0}, NEW x \in Nat
    PROVE  \E q \in Int : \E r \in 0 .. n - 1 : x = n * q + r
<1> WITNESS x \div n \in Int
<1> WITNESS x % n \in 0 .. n - 1
<1> QED
  OBVIOUS

LEMMA RemainderUnique ==
    ASSUME NEW n \in Nat \ {0}, NEW q \in Int, NEW r \in 0 .. n - 1
    PROVE  (n * q + r) % n = r
OBVIOUS

\* A position less than two rounds ahead is reduced by one subtraction.
LEMMA RingReduce ==
    ASSUME NEW n \in Nat \ {0}, NEW x \in 0 .. 2 * n - 1
    PROVE  x % n = IF x < n THEN x ELSE x - n
OBVIOUS

\* Whole rounds do not matter.
LEMMA RingPeriod ==
    ASSUME NEW n \in Nat \ {0}, NEW x \in Nat, NEW k \in Int
    PROVE  (x + n * k) % n = x % n
<1>1. PICK q \in Int, r \in 0 .. n - 1 : x = n * q + r
  BY DivisionExists
<1>2. x + n * k = n * (q + k) + r /\ q + k \in Int
  BY <1>1
<1> QED
  BY <1>1, <1>2, RemainderUnique

\* Positions less than a round apart have different indices.
LEMMA RingDistinct ==
    ASSUME NEW n \in Nat \ {0}, NEW x \in Nat, NEW y \in Nat, x < y, y - x < n
    PROVE  x % n # y % n
<1>1. PICK q \in Int, r \in 0 .. n - 1 : x = n * q + r
  BY DivisionExists
<1>2. PICK p \in Int, t \in 0 .. n - 1 : y = n * p + t
  BY DivisionExists
<1>3. x % n = r /\ y % n = t
  BY <1>1, <1>2, RemainderUnique
<1> SUFFICES ASSUME r = t PROVE FALSE
  BY <1>3
<1>4. n * (p - q) = y - x /\ p - q \in Int
  BY <1>1, <1>2
<1>5. p - q <= 0 => n * (p - q) <= 0
  BY <1>4
<1>6. p - q >= 1 => n * (p - q) >= n
  BY <1>4
<1> QED
  BY <1>4, <1>5, <1>6

USE SizeAssumption, StrokeAssumption

(***************************************************************************)
(* fixed_size_queue.                                                       *)
(***************************************************************************)

\* The positions of a queue are in range.
Positions == read_pos \in 0 .. Uint32 - 1 /\ write_pos \in 0 .. Uint32 - 1

\* The width of the positions is a number of rounds of the queue.
LEMMA RoundsFit == \E k \in Int : Uint32 = Size * k
<1>1. PICK q \in Int, r \in 0 .. Size - 1 : Uint32 = Size * q + r
  BY DivisionExists
<1>2. r = 0
  BY <1>1, RemainderUnique
<1> QED
  BY <1>1, <1>2

\* The distance of two positions around the ring.
LEMMA Distance ==
    ASSUME NEW r \in 0 .. Uint32 - 1, NEW w \in 0 .. Uint32 - 1
    PROVE  (Uint32 + w - r) % Uint32 = IF w >= r THEN w - r ELSE Uint32 + w - r
<1> DEFINE x == Uint32 + w - r
<1>1. Uint32 \in Nat \ {0} /\ x \in 0 .. 2 * Uint32 - 1
  OBVIOUS
<1>2. x < Uint32 <=> w < r
  OBVIOUS
<1>3. x - Uint32 = w - r
  OBVIOUS
<1> HIDE DEF x
<1>4. x % Uint32 = IF x < Uint32 THEN x ELSE x - Uint32
  BY <1>1, RingReduce
<1>5. x % Uint32 = IF w >= r THEN w - r ELSE x
  BY <1>2, <1>3, <1>4
<1> QED
  BY <1>5 DEF x

\* The size is the distance of the positions around the ring.
LEMMA SizeDistance ==
    ASSUME Positions
    PROVE  /\ size = IF write_pos >= read_pos THEN write_pos - read_pos
                     ELSE Uint32 + write_pos - read_pos
           /\ size \in 0 .. Uint32 - 1
<1>1. size = IF write_pos >= read_pos THEN write_pos - read_pos ELSE Uint32 + write_pos - read_pos
  BY Distance DEF size, Positions
<1>2. size \in 0 .. Uint32 - 1
  BY <1>1 DEF Positions
<1> QED
  BY <1>1, <1>2

\* An element more or less is a size more or less, also when a position wraps.
LEMMA PositionSteps ==
    ASSUME Positions
    PROVE  /\ \A p \in 0 .. Uint32 - 1 : uint32_t(p + 1) \in 0 .. Uint32 - 1
           /\ size < Size => (Uint32 + uint32_t(write_pos + 1) - read_pos) % Uint32 = size + 1
           /\ size > 0 => (Uint32 + write_pos - uint32_t(read_pos + 1)) % Uint32 = size - 1
<1>1. Uint32 \in Nat \ {0} /\ size \in Nat
  BY SizeDistance
<1>2. \A p \in 0 .. Uint32 - 1 : uint32_t(p + 1) = IF p + 1 = Uint32 THEN 0 ELSE p + 1
  BY <1>1, RingSuccessor DEF uint32_t
<1>3. read_pos \in 0 .. Uint32 - 1 /\ write_pos \in 0 .. Uint32 - 1
  BY DEF Positions
<1>4. size = IF write_pos >= read_pos THEN write_pos - read_pos ELSE Uint32 + write_pos - read_pos
  BY SizeDistance
<1>5. \A p \in 0 .. Uint32 - 1 : uint32_t(p + 1) \in 0 .. Uint32 - 1
  BY <1>1, <1>2
<1>6. ASSUME size < Size
      PROVE  (Uint32 + uint32_t(write_pos + 1) - read_pos) % Uint32 = size + 1
  <2> DEFINE w == uint32_t(write_pos + 1)
  <2>1. w \in 0 .. Uint32 - 1 /\ w = IF write_pos + 1 = Uint32 THEN 0 ELSE write_pos + 1
    BY <1>2, <1>3, <1>5
  <2> HIDE DEF w
  <2>2. (Uint32 + w - read_pos) % Uint32 = IF w >= read_pos THEN w - read_pos ELSE Uint32 + w - read_pos
    BY <1>3, <2>1, Distance
  <2>3. (IF w >= read_pos THEN w - read_pos ELSE Uint32 + w - read_pos) = size + 1
    BY <1>1, <1>3, <1>4, <1>6, <2>1
  <2> QED
    BY <2>2, <2>3 DEF w
<1>7. ASSUME size > 0
      PROVE  (Uint32 + write_pos - uint32_t(read_pos + 1)) % Uint32 = size - 1
  <2> DEFINE r == uint32_t(read_pos + 1)
  <2>1. r \in 0 .. Uint32 - 1 /\ r = IF read_pos + 1 = Uint32 THEN 0 ELSE read_pos + 1
    BY <1>2, <1>3, <1>5
  <2> HIDE DEF r
  <2>2. (Uint32 + write_pos - r) % Uint32 = IF write_pos >= r THEN write_pos - r ELSE Uint32 + write_pos - r
    BY <1>3, <2>1, Distance
  <2>3. (IF write_pos >= r THEN write_pos - r ELSE Uint32 + write_pos - r) = size - 1
    BY <1>1, <1>3, <1>4, <1>7, <2>1
  <2> QED
    BY <2>2, <2>3 DEF r
<1> QED
  BY <1>5, <1>6, <1>7

\* The index that a position stands for, counted from the first element.
Index(i) == (read_pos + i - 1) % Size

\* The indices of the elements differ, the place behind them is where push
\* writes, and what was the second element is the first after a pop.
LEMMA Indices ==
    ASSUME Positions, size <= Size
    PROVE  /\ \A i \in 1 .. size + 1 : Index(i) \in 0 .. Size - 1
           /\ Index(size + 1) = write_pos % Size
           /\ Index(1) = read_pos % Size
           /\ size < Size => \A i \in 1 .. size : Index(i) # write_pos % Size
           /\ \A i \in 1 .. size : (uint32_t(read_pos + 1) + i - 1) % Size = Index(i + 1)
<1>1. PICK k \in Int : Uint32 = Size * k
  BY RoundsFit
<1>2. size \in Nat /\ read_pos \in Nat /\ write_pos \in Nat
  BY SizeDistance DEF Positions
<1>3. write_pos = read_pos + size \/ write_pos + Uint32 = read_pos + size
  BY SizeDistance DEF Positions
<1>4. (write_pos + Uint32) % Size = write_pos % Size
  BY <1>1, <1>2, RingPeriod
<1>5. (read_pos + size) % Size = write_pos % Size
  BY <1>3, <1>4
<1>6. \A i \in 1 .. size + 1 : Index(i) \in 0 .. Size - 1
  BY <1>2 DEF Index
<1>7. Index(size + 1) = write_pos % Size
  BY <1>2, <1>5 DEF Index
<1>8. Index(1) = read_pos % Size
  BY <1>2 DEF Index
<1>9. ASSUME size < Size, NEW i \in 1 .. size PROVE Index(i) # write_pos % Size
  <2>1. /\ read_pos + i - 1 \in Nat /\ read_pos + size \in Nat
        /\ read_pos + i - 1 < read_pos + size
        /\ (read_pos + size) - (read_pos + i - 1) < Size
    BY <1>2, <1>9
  <2> QED
    BY <1>5, <2>1, RingDistinct DEF Index
<1>10. ASSUME NEW i \in 1 .. size PROVE (uint32_t(read_pos + 1) + i - 1) % Size = Index(i + 1)
  <2>1. uint32_t(read_pos + 1) = IF read_pos + 1 = Uint32 THEN 0 ELSE read_pos + 1
    BY RingSuccessor DEF uint32_t, Positions
  <2>2. CASE read_pos + 1 = Uint32
    <3>1. Index(i + 1) = (i - 1 + Size * k) % Size
      BY <1>1, <1>2, <2>2 DEF Index
    <3>2. i - 1 \in Nat
      BY <1>2
    <3>3. Index(i + 1) = (i - 1) % Size
      BY <3>1, <3>2, RingPeriod
    <3> QED
      BY <1>2, <2>1, <2>2, <3>3
  <2>3. CASE read_pos + 1 # Uint32
    BY <1>2, <2>1, <2>3 DEF Index
  <2> QED
    BY <2>2, <2>3
<1> QED
  BY <1>6, <1>7, <1>8, <1>9, <1>10

\* The queue as a sequence, from its first element to its last.
LEMMA ContentsSequence ==
    ASSUME TypeOK, size <= Size
    PROVE  /\ Contents \in Seq(Bytes) /\ Len(Contents) = size
           /\ \A i \in 1 .. size : Contents[i] = elems[Index(i)]
<1>1. Positions /\ elems \in [0 .. Size - 1 -> Bytes]
  BY DEF TypeOK, Positions
<1>2. size \in Nat /\ \A i \in 1 .. size : Index(i) \in 0 .. Size - 1
  BY <1>1, SizeDistance, Indices
<1>3. Contents = [i \in 1 .. size |-> elems[Index(i)]]
  BY DEF Contents, Index
<1>4. \A i \in 1 .. size : elems[Index(i)] \in Bytes
  BY <1>1, <1>2
<1> QED
  BY <1>2, <1>3, <1>4

\* push appends an element.
LEMMA PushAppends ==
    ASSUME TypeOK, NEW b \in Bytes, size < Size, push(b)
    PROVE  /\ size' = size + 1 /\ Positions' /\ elems' \in [0 .. Size - 1 -> Bytes]
           /\ Contents' = Append(Contents, b)
<1>1. Positions /\ elems \in [0 .. Size - 1 -> Bytes] /\ size \in Nat /\ size <= Size
  BY SizeDistance DEF TypeOK, Positions
<1>2. write_pos' = uint32_t(write_pos + 1) /\ read_pos' = read_pos
      /\ elems' = [elems EXCEPT ![write_pos % Size] = b]
  BY DEF push
<1>3. size' = size + 1
  BY <1>1, <1>2, PositionSteps DEF size
<1>4. Positions'
  BY <1>1, <1>2, PositionSteps DEF Positions
<1>5. elems' \in [0 .. Size - 1 -> Bytes]
  BY <1>1, <1>2
<1>6. Index(size + 1) \in 0 .. Size - 1 /\ Index(size + 1) = write_pos % Size
  BY <1>1, Indices
<1>7. elems'[Index(size + 1)] = b
  BY <1>1, <1>2, <1>6
<1>8. \A i \in 1 .. size : elems'[Index(i)] = elems[Index(i)]
  BY <1>1, <1>2, Indices
<1>9. Contents' = [i \in 1 .. size + 1 |-> elems'[Index(i)]]
  BY <1>2, <1>3 DEF Contents, Index
<1>10. Contents \in Seq(Bytes) /\ Len(Contents) = size /\ \A i \in 1 .. size : Contents[i] = elems[Index(i)]
  BY <1>1, ContentsSequence
<1>11. Append(Contents, b) = [i \in 1 .. size + 1 |-> IF i = size + 1 THEN b ELSE Contents[i]]
  BY <1>1, <1>10
<1>12. \A i \in 1 .. size + 1 : elems'[Index(i)] = IF i = size + 1 THEN b ELSE Contents[i]
  BY <1>1, <1>7, <1>8, <1>10
<1> QED
  BY <1>3, <1>4, <1>5, <1>9, <1>11, <1>12

\* pop removes the first element.
LEMMA PopRemoves ==
    ASSUME TypeOK, size <= Size, size > 0, pop
    PROVE  /\ size' = size - 1 /\ Positions' /\ elems' = elems
           /\ front \in Bytes /\ front = Contents[1]
           /\ Contents' \in Seq(Bytes)
           /\ \A i \in 1 .. size - 1 : Contents'[i] = Contents[i + 1]
           /\ Contents = <<front>> \o Contents'
<1>1. Positions /\ elems \in [0 .. Size - 1 -> Bytes] /\ size \in Nat
  BY SizeDistance DEF TypeOK, Positions
<1>2. read_pos' = uint32_t(read_pos + 1) /\ write_pos' = write_pos /\ elems' = elems
  BY DEF pop
<1>3. size' = size - 1
  BY <1>1, <1>2, PositionSteps DEF size
<1>4. Positions'
  BY <1>1, <1>2, PositionSteps DEF Positions
<1>5. Contents \in Seq(Bytes) /\ Len(Contents) = size /\ \A i \in 1 .. size : Contents[i] = elems[Index(i)]
  BY ContentsSequence
<1>6. front = Contents[1] /\ front \in Bytes
  BY <1>1, <1>5, Indices DEF front
<1>7. Contents' = [i \in 1 .. size - 1 |-> elems[(uint32_t(read_pos + 1) + i - 1) % Size]]
  BY <1>2, <1>3 DEF Contents
<1>8. \A i \in 1 .. size - 1 : elems[(uint32_t(read_pos + 1) + i - 1) % Size] = Contents[i + 1]
  BY <1>1, <1>5, Indices
<1>9. Contents' = [i \in 1 .. size - 1 |-> Contents[i + 1]]
  BY <1>7, <1>8
<1>10. Contents' \in Seq(Bytes) /\ Len(Contents') = size - 1
  BY <1>1, <1>5, <1>9
<1>11. \A i \in 1 .. size - 1 : Contents'[i] = Contents[i + 1]
  BY <1>9
<1>12. Contents = <<front>> \o Contents'
  <2>1. <<front>> \o Contents' \in Seq(Bytes) /\ Len(<<front>> \o Contents') = size
    BY <1>1, <1>6, <1>10
  <2>2. \A i \in 1 .. size : (<<front>> \o Contents')[i] = Contents[i]
    BY <1>1, <1>6, <1>10, <1>11
  <2> QED
    BY <1>5, <2>1, <2>2, SeqEqual
<1> QED
  BY <1>2, <1>3, <1>4, <1>6, <1>10, <1>11, <1>12

(***************************************************************************)
(* The shape of the state and the room in the queue.                       *)
(***************************************************************************)

\* The queue has a size.
LEMMA SizeNat == Size \in Nat \ {0}
OBVIOUS

HIDE SizeAssumption
USE SizeNat

\* What an interrupt that ends a halt does to the program.
LEMMA Wakes == Woken = IF pc = "yielded" THEN "user" ELSE IF pc = "halted" THEN "get" ELSE pc
BY DEF Woken

\* What Type needs and adds: sequences of scan codes.
LEMMA TypedStroke ==
    ASSUME TypeOK, NEW s \in Strokes, Type(s)
    PROVE  /\ s \in Seq(Codes) /\ wire' \in Seq(Codes) /\ typed' \in Seq(Codes)
           /\ Len(wire') = Len(wire) + Len(s) /\ Len(s) \in Nat
<1>1. s \in Seq(Codes) /\ wire \in Seq(Codes) /\ typed \in Seq(Codes)
  BY DEF TypeOK
<1>2. wire' = wire \o s /\ typed' = typed \o s
  BY DEF Type
<1> QED
  BY <1>1, <1>2

\* The first byte on the wire, when it is sent.
LEMMA SentByte ==
    ASSUME TypeOK, Send
    PROVE  /\ out = NoByte /\ out' = Head(wire) /\ out' \in Codes /\ out' # NoByte
           /\ wire' \in Seq(Codes) /\ Len(wire') = Len(wire) - 1 /\ Len(wire) \in Nat \ {0}
           /\ wire = <<out'>> \o wire'
<1>1. wire \in Seq(Codes) /\ wire # <<>> /\ out' = Head(wire) /\ wire' = Tail(wire) /\ out = NoByte
  BY DEF TypeOK, Send
<1>2. Head(wire) \in Codes /\ Tail(wire) \in Seq(Codes) /\ Len(Tail(wire)) = Len(wire) - 1
      /\ Len(wire) \in Nat \ {0}
  BY <1>1
<1>3. wire = <<Head(wire)>> \o Tail(wire)
  <2>1. <<Head(wire)>> \o Tail(wire) \in Seq(Codes) /\ Len(<<Head(wire)>> \o Tail(wire)) = Len(wire)
    BY <1>1, <1>2
  <2>2. \A i \in 1 .. Len(wire) : (<<Head(wire)>> \o Tail(wire))[i] = wire[i]
    BY <1>1, <1>2
  <2> QED
    BY <1>1, <2>1, <2>2, SeqEqual
<1>4. Head(wire) # NoByte
  BY <1>2
<1> QED
  BY <1>1, <1>2, <1>3, <1>4

\* What the interrupt handler does when there is a byte: it takes it, or the
\* queue is full.
LEMMA HandlerStep ==
    ASSUME TypeOK, size <= Size, isr, out # NoByte
    PROVE  /\ irq' = FALSE /\ pc' = Woken
           /\ UNCHANGED <<wire, skip, typed, taken>>
           /\ \/ /\ size < Size /\ out' = NoByte /\ size' = size + 1 /\ Positions'
                 /\ elems' \in [0 .. Size - 1 -> Bytes] /\ Contents' = Append(Contents, out)
              \/ /\ size = Size /\ out' = out /\ UNCHANGED queue
                 /\ size' = size /\ Contents' = Contents
<1>1. size \in Nat /\ out \in Bytes
  BY SizeDistance DEF TypeOK, Positions
<1>2. irq' = FALSE /\ pc' = Woken /\ UNCHANGED <<wire, skip, typed, taken>>
  BY DEF isr
<1>3. CASE full
  <2>1. size = Size /\ out' = out /\ UNCHANGED queue
    BY <1>3 DEF isr, full
  <2> QED
    BY <1>2, <2>1 DEF queue, size, Contents
<1>4. CASE ~full
  <2>1. push(out) /\ out' = NoByte /\ size < Size
    BY <1>1, <1>4 DEF isr, full
  <2> QED
    BY <1>1, <1>2, <2>1, PushAppends
<1> QED
  BY <1>3, <1>4

\* What read_key does with the first byte of the queue.
LEMMA PopStep ==
    ASSUME TypeOK, QueueBounded, Pop
    PROVE  /\ pc = "pop" /\ size > 0 /\ size' = size - 1 /\ Positions' /\ elems' = elems
           /\ front \in Bytes /\ front = Contents[1] /\ Contents' \in Seq(Bytes)
           /\ \A i \in 1 .. size - 1 : Contents'[i] = Contents[i + 1]
           /\ Contents = <<front>> \o Contents'
           /\ taken' = Append(taken, front) /\ UNCHANGED <<wire, out, irq, typed>>
<1>1. pc = "pop" /\ pop /\ taken' = Append(taken, front) /\ UNCHANGED <<wire, out, irq, typed>>
  BY DEF Pop
<1>2. size <= Size /\ size \in Nat /\ size # 0
  BY <1>1, SizeDistance DEF QueueBounded, empty, TypeOK, Positions
<1> QED
  BY <1>1, <1>2, PopRemoves

\* The other steps of the program only go on.
LEMMA GotoStep ==
    ASSUME NEW there, Goto(there)
    PROVE  /\ pc' = there /\ UNCHANGED <<wire, out, irq, queue, skip, typed, taken>>
           /\ size' = size /\ Contents' = Contents
BY DEF Goto, queue, size, Contents

LEMMA TypeStep ==
    ASSUME TypeOK, QueueBounded, IsrHasByte, [Next]_vars
    PROVE  TypeOK'
<1> USE DEF queue
<1>1. ASSUME NEW s \in Strokes, Type(s) PROVE TypeOK'
  BY <1>1, TypedStroke DEF Type, TypeOK
<1>2. ASSUME Send PROVE TypeOK'
  BY <1>2, SentByte DEF Send, TypeOK, Bytes
<1>3. ASSUME isr PROVE TypeOK'
  <2>1. out # NoByte /\ size <= Size
    BY <1>3 DEF isr, IsrHasByte, QueueBounded
  <2>2. NoByte \in Bytes /\ Woken \in {"user", "yield", "yielded", "poll", "get", "halt", "halted", "pop", "panic"}
    BY Wakes DEF Bytes, TypeOK
  <2> QED
    BY <1>3, <2>1, <2>2, HandlerStep DEF TypeOK, Positions
<1>4. ASSUME Tick PROVE TypeOK'
  BY <1>4, Wakes DEF Tick, TypeOK
<1>5. ASSUME Pop PROVE TypeOK'
  <2>1. taken' \in Seq(Bytes)
    <3>1. taken \in Seq(Bytes)
      BY DEF TypeOK
    <3> QED
      <4>1. taken' = Append(taken, front) /\ front \in Bytes
        BY <1>5, PopStep
      <4> QED
        BY <3>1, <4>1
  <2>2. skip > 0 => skip - 1 \in 0 .. 2
    BY DEF TypeOK
  <2>3. skip' \in 0 .. 2 /\ pc' \in {"get", "user"}
    BY <1>5, <2>2 DEF Pop, TypeOK
  <2> QED
    BY <1>5, <2>1, <2>3, PopStep DEF TypeOK, Positions
<1>6. ASSUME NEW there \in {"user", "yield", "yielded", "poll", "get", "halt", "halted", "pop"}, Goto(there)
      PROVE  TypeOK'
  BY <1>6 DEF Goto, TypeOK
<1>7. ASSUME UNCHANGED vars PROVE TypeOK'
  BY <1>7 DEF vars, TypeOK
<1> QED
  BY <1>1, <1>2, <1>3, <1>4, <1>5, <1>6, <1>7
     DEF Next, Program, Yield, YieldHalt, Read, Poll, TestEmpty, Halt

\* The queue is never overfull, and nothing is taken from an empty one.
LEMMA RoomStep ==
    ASSUME TypeOK, QueueBounded, IsrHasByte, [Next]_vars
    PROVE  QueueBounded'
<1>1. size \in Nat /\ Len(wire) \in Nat
  BY SizeDistance DEF TypeOK, Positions
<1>2. ASSUME UNCHANGED queue PROVE size' = size /\ empty' = empty
  BY <1>2 DEF queue, size, empty
<1>3. ASSUME NEW s \in Strokes, Type(s) PROVE QueueBounded'
  <2>1. size' = size /\ empty' = empty /\ pc' = pc /\ out' = out
    BY <1>2, <1>3 DEF Type
  <2>2. MayOverrun \/ UnderWay + size + Len(s) <= Size
    BY <1>3 DEF Type
  <2>3. UnderWay' = UnderWay + Len(s)
    BY <1>1, <1>3, <2>1, TypedStroke DEF UnderWay
  <2>4. UnderWay \in Nat /\ Len(s) \in Nat
    BY <1>1, <1>3, TypedStroke DEF UnderWay
  <2> QED
    BY <1>1, <2>1, <2>2, <2>3, <2>4 DEF QueueBounded
<1>4. ASSUME Send PROVE QueueBounded'
  <2>1. size' = size /\ empty' = empty /\ pc' = pc
    BY <1>2, <1>4 DEF Send
  <2>2. UnderWay' = UnderWay
    BY <1>4, SentByte DEF UnderWay
  <2> QED
    BY <2>1, <2>2 DEF QueueBounded
<1>5. ASSUME isr PROVE QueueBounded'
  <2>1. out # NoByte /\ size <= Size
    BY <1>5 DEF isr, IsrHasByte, QueueBounded
  <2>2. UnderWay' + size' <= UnderWay + size /\ size' <= Size
    BY <1>1, <1>5, <2>1, HandlerStep DEF UnderWay
  <2>3. UnderWay \in Nat /\ UnderWay' \in Nat /\ size' \in Nat
    BY <1>1, <1>5, <2>1, HandlerStep DEF UnderWay
  <2>4. pc' = "pop" => pc = "pop"
    BY <1>5, <2>1, Wakes, HandlerStep
  <2>5. ~empty => ~empty'
    BY <1>1, <1>5, <2>1, HandlerStep DEF empty
  <2>6. UnderWay + size <= Size => UnderWay' + size' <= Size
    <3>1. \A a, b, c, d \in Nat : a + b <= c + d /\ c + d <= Size => a + b <= Size
      OBVIOUS
    <3> QED
      BY <1>1, <2>2, <2>3, <3>1, Zenon
  <2>7. pc' = "pop" => ~empty'
    BY <2>4, <2>5 DEF QueueBounded
  <2> QED
    BY <2>2, <2>6, <2>7 DEF QueueBounded
<1>6. ASSUME Tick PROVE QueueBounded'
  BY <1>2, <1>6, Wakes DEF Tick, QueueBounded, UnderWay
<1>7. ASSUME Pop PROVE QueueBounded'
  <2>1. size' = size - 1 /\ UnderWay' = UnderWay /\ UnderWay \in Nat
    BY <1>1, <1>7, PopStep DEF UnderWay
  <2>2. pc' \in {"get", "user"}
    BY <1>7 DEF Pop
  <2> QED
    BY <1>1, <2>1, <2>2 DEF QueueBounded
<1>8. ASSUME NEW there, Goto(there), there = "pop" => ~empty PROVE QueueBounded'
  BY <1>2, <1>8, GotoStep DEF QueueBounded, UnderWay
<1>9. ASSUME UNCHANGED vars PROVE QueueBounded'
  <2>1. UNCHANGED <<queue, pc, wire, out>>
    BY <1>9 DEF vars, queue
  <2> QED
    BY <1>2, <2>1 DEF QueueBounded, UnderWay
<1>10. ASSUME Program PROVE QueueBounded'
  BY <1>7, <1>8, <1>10 DEF Program, Yield, YieldHalt, Read, Poll, TestEmpty, Halt
<1> QED
  BY <1>3, <1>4, <1>5, <1>6, <1>9, <1>10 DEF Next

(***************************************************************************)
(* The handler and the reader.                                             *)
(***************************************************************************)

\* An interrupt is only pending while there is a byte, and, unless a handler
\* may find the queue full, a byte is only there while it is pending.
LEMMA SignalStep ==
    ASSUME TypeOK, QueueBounded, IsrHasByte, Signalled, [Next]_vars
    PROVE  IsrHasByte' /\ Signalled'
<1>1. size \in Nat /\ Len(wire) \in Nat
  BY SizeDistance DEF TypeOK, Positions
<1> USE DEF IsrHasByte, Signalled
<1>2. ASSUME NEW s \in Strokes, Type(s) PROVE IsrHasByte' /\ Signalled'
  BY <1>2 DEF Type
<1>3. ASSUME Send PROVE IsrHasByte' /\ Signalled'
  BY <1>3, SentByte DEF Send
<1>4. ASSUME isr PROVE IsrHasByte' /\ Signalled'
  <2>1. out # NoByte /\ size <= Size
    BY <1>4 DEF isr, QueueBounded
  <2>2. irq' = FALSE /\ pc' # "panic"
    BY <1>4, <2>1, HandlerStep, Wakes
  <2>3. MayOverrun \/ size < Size
    BY <1>1, <2>1 DEF QueueBounded, UnderWay
  <2>4. MayOverrun \/ out' = NoByte
    BY <1>1, <1>4, <2>1, <2>3, HandlerStep
  <2> QED
    BY <2>2, <2>4
<1>5. ASSUME Tick PROVE IsrHasByte' /\ Signalled'
  BY <1>5, Wakes DEF Tick
<1>6. ASSUME Pop PROVE IsrHasByte' /\ Signalled'
  BY <1>6 DEF Pop
<1>7. ASSUME NEW there, Goto(there), there # "panic" PROVE IsrHasByte' /\ Signalled'
  BY <1>7 DEF Goto
<1>8. ASSUME UNCHANGED vars PROVE IsrHasByte' /\ Signalled'
  BY <1>8 DEF vars
<1> QED
  BY <1>2, <1>3, <1>4, <1>5, <1>6, <1>7, <1>8
     DEF Next, Program, Yield, YieldHalt, Read, Poll, TestEmpty, Halt

\* The bytes that were read are those before and the new one.
LEMMA TakenRange ==
    ASSUME TypeOK, NEW b \in Bytes, taken' = Append(taken, b)
    PROVE  Range(taken') = Range(taken) \cup {b}
<1>1. taken \in Seq(Bytes)
  BY DEF TypeOK
<1>2. DOMAIN taken' = 1 .. Len(taken) + 1 /\ DOMAIN taken = 1 .. Len(taken) /\ Len(taken) \in Nat
  BY <1>1
<1>3. taken'[Len(taken) + 1] = b /\ \A i \in 1 .. Len(taken) : taken'[i] = taken[i]
  BY <1>1
<1> QED
  BY <1>2, <1>3 DEF Range

\* As long as only plain keys are read, read_key finds the byte that
\* key_available saw: the handler only adds bytes behind it.
LEMMA PromiseStep ==
    ASSUME TypeOK, QueueBounded, IsrHasByte, KeyPromised, PlainKeysReady, [Next]_vars
    PROVE  KeyPromised' /\ PlainKeysReady'
<1>1. size \in Nat /\ size <= Size
  BY SizeDistance DEF TypeOK, Positions, QueueBounded
<1>2. ASSUME UNCHANGED queue PROVE key_available' = key_available
  BY <1>2 DEF queue, key_available, Contents, size
<1>3. ASSUME taken' = taken PROVE Plain' = Plain
  BY <1>3 DEF Plain
<1>4. ASSUME NEW s \in Strokes, Type(s) PROVE KeyPromised' /\ PlainKeysReady'
  BY <1>2, <1>3, <1>4 DEF Type, KeyPromised, PlainKeysReady
<1>5. ASSUME Send PROVE KeyPromised' /\ PlainKeysReady'
  BY <1>2, <1>3, <1>5 DEF Send, KeyPromised, PlainKeysReady
<1>6. ASSUME isr PROVE KeyPromised' /\ PlainKeysReady'
  <2>1. out # NoByte /\ out \in Bytes
    BY <1>6 DEF isr, IsrHasByte, TypeOK
  <2>2. Plain' = Plain /\ skip' = skip
    BY <1>1, <1>3, <1>6, <2>1, HandlerStep
  <2>3. key_available => key_available'
    <3>1. size' \in Nat /\ size' >= size /\ \A i \in 1 .. size : Contents'[i] = Contents[i]
      <4>1. Contents \in Seq(Bytes) /\ Len(Contents) = size
        BY <1>1, ContentsSequence
      <4>2. \A i \in 1 .. size : Append(Contents, out)[i] = Contents[i]
        BY <2>1, <4>1
      <4>3. \/ size' = size + 1 /\ Contents' = Append(Contents, out)
            \/ size' = size /\ Contents' = Contents
        BY <1>1, <1>6, <2>1, HandlerStep
      <4>4. \A n \in Nat : n + 1 \in Nat /\ n + 1 >= n /\ n >= n
        OBVIOUS
      <4>5. CASE size' = size + 1 /\ Contents' = Append(Contents, out)
        BY <1>1, <4>2, <4>4, <4>5, Zenon
      <4>6. CASE size' = size /\ Contents' = Contents
        BY <1>1, <4>4, <4>6, Zenon
      <4> QED
        BY <4>3, <4>5, <4>6
    <3> QED
      BY <1>1, <3>1 DEF key_available
  <2>4. Plain => /\ pc' \notin {"halt", "halted"}
                 /\ pc' \in {"get", "pop"} => pc \in {"get", "pop"}
    BY <1>1, <1>6, <2>1, HandlerStep, Wakes DEF PlainKeysReady
  <2> QED
    BY <2>2, <2>3, <2>4 DEF KeyPromised, PlainKeysReady
<1>7. ASSUME Tick PROVE KeyPromised' /\ PlainKeysReady'
  BY <1>2, <1>3, <1>7, Wakes DEF Tick, KeyPromised, PlainKeysReady
<1>8. ASSUME Pop PROVE KeyPromised' /\ PlainKeysReady'
  <2>1. Plain' => Plain /\ front \notin {"E0", "E1", "other"}
    <3>1. Range(taken') = Range(taken) \cup {front}
      BY <1>8, PopStep, TakenRange
    <3> QED
      BY <3>1 DEF Plain
  <2>2. ASSUME Plain'
        PROVE  /\ skip' = 0 /\ pc' \in {"get", "user"}
               /\ pc' = "get" => front # "break"
    <3>1. skip = 0
      BY <2>1, <2>2 DEF KeyPromised
    <3> QED
      BY <1>8, <2>1, <2>2, <3>1 DEF Pop
  <2>3. ASSUME Plain', pc' = "get" PROVE key_available'
    <3>1. PICK i \in 1 .. size : Contents[i] \in {"break", "other"}
      BY <1>8, <2>1, <2>3, PopStep DEF KeyPromised, key_available
    <3>2. i # 1
      BY <1>8, <2>1, <2>2, <2>3, <3>1, PopStep
    <3>3. i - 1 \in 1 .. size - 1 /\ (i - 1) + 1 = i
      BY <1>1, <3>2
    <3>4. Contents'[i - 1] = Contents[i]
      BY <1>8, <3>3, PopStep
    <3>5. i - 1 \in 1 .. size'
      BY <1>8, <3>3, PopStep
    <3> QED
      BY <3>1, <3>4, <3>5 DEF key_available
  <2> QED
    BY <2>2, <2>3 DEF KeyPromised, PlainKeysReady
<1>9. ASSUME NEW there, Goto(there), there = "get" => key_available \/ pc = "halted",
             there = "pop" => pc = "get",
             there = "halt" => pc = "get" /\ empty, there = "halted" => pc = "halt"
      PROVE  KeyPromised' /\ PlainKeysReady'
  <2>1. pc' = there /\ skip' = skip /\ Plain' = Plain /\ key_available' = key_available
    BY <1>2, <1>3, <1>9, GotoStep
  <2>2. empty => ~key_available
    BY <1>1 DEF empty, key_available
  <2> QED
    BY <1>9, <2>1, <2>2 DEF KeyPromised, PlainKeysReady
<1>10. ASSUME UNCHANGED vars PROVE KeyPromised' /\ PlainKeysReady'
  <2>1. UNCHANGED <<queue, taken, skip, pc>>
    BY <1>10 DEF vars, queue
  <2> QED
    BY <1>2, <1>3, <2>1 DEF KeyPromised, PlainKeysReady
<1>11. ASSUME Program PROVE KeyPromised' /\ PlainKeysReady'
  BY <1>8, <1>9, <1>11 DEF Program, Yield, YieldHalt, Read, Poll, TestEmpty, Halt
<1> QED
  BY <1>4, <1>5, <1>6, <1>7, <1>10, <1>11 DEF Next

(***************************************************************************)
(* The bytes on their way.                                                 *)
(***************************************************************************)

\* An element may be at the end of one sequence or at the start of the next.
LEMMA MoveElement ==
    ASSUME NEW S, NEW s \in Seq(S), NEW t \in Seq(S), NEW e \in S
    PROVE  Append(s, e) \o t = s \o (<<e>> \o t)
<1>1. Append(s, e) = s \o <<e>>
  OBVIOUS
<1> QED
  BY <1>1, ConcatAssociative

\* Every byte typed is in exactly one place, and the places are in order.
LEMMA NothingLostStep ==
    ASSUME TypeOK, QueueBounded, IsrHasByte, NothingLost, [Next]_vars
    PROVE  NothingLost'
<1> DEFINE held == IF out = NoByte THEN <<>> ELSE <<out>>
           before == taken \o Contents \o held
<1>1. size \in Nat /\ size <= Size
  BY SizeDistance DEF TypeOK, Positions, QueueBounded
<1>2. \A s \in Seq(Codes) : s \in Seq(Bytes)
  BY DEF Bytes
<1>3. taken \in Seq(Bytes) /\ wire \in Seq(Bytes) /\ out \in Bytes /\ Contents \in Seq(Bytes)
  BY <1>1, <1>2, ContentsSequence DEF TypeOK
<1>4. held \in Seq(Bytes) /\ taken \o Contents \in Seq(Bytes) /\ before \in Seq(Bytes)
  BY <1>3
<1>5. typed = before \o wire
  BY DEF NothingLost
<1>6. ASSUME typed' = before' \o wire' PROVE NothingLost'
  BY <1>6 DEF NothingLost
<1>7. ASSUME UNCHANGED <<queue, taken, out>> PROVE before' = before
  BY <1>7 DEF queue, Contents, size
<1> HIDE DEF before, held
<1>8. ASSUME NEW s \in Strokes, Type(s) PROVE NothingLost'
  <2>1. typed' = typed \o s /\ wire' = wire \o s /\ before' = before
    BY <1>7, <1>8 DEF Type
  <2>2. s \in Seq(Bytes)
    BY <1>2, <1>8, TypedStroke
  <2>3. (before \o wire) \o s = before \o (wire \o s)
    <3>1. before \in Seq(Bytes) /\ wire \in Seq(Bytes)
      BY <1>3, <1>4
    <3> QED
      BY ONLY <2>2, <3>1, ConcatAssociative
  <2> QED
    BY <1>5, <1>6, <2>1, <2>3
<1>9. ASSUME Send PROVE NothingLost'
  <2>1. /\ out = NoByte /\ out' # NoByte /\ out' \in Bytes /\ wire = <<out'>> \o wire' /\ wire' \in Seq(Bytes)
    BY <1>2, <1>9, SentByte DEF Bytes
  <2>2. typed' = typed /\ UNCHANGED <<queue, taken>>
    BY <1>9 DEF Send
  <2>3. Contents' = Contents /\ taken' = taken
    BY <2>2 DEF queue, Contents, size
  <2>4. held = <<>> /\ held' = <<out'>>
    BY <2>1 DEF held
  <2>5. before = taken \o Contents
    BY <1>3, <1>4, <2>4, ConcatEmptySeq DEF before
  <2>6. before' = before \o <<out'>>
    BY <2>3, <2>4, <2>5 DEF before
  <2>7. <<out'>> \in Seq(Bytes)
    BY <2>1
  <2>8. (before \o <<out'>>) \o wire' = before \o (<<out'>> \o wire')
    BY <1>4, <2>1, <2>7, ConcatAssociative
  <2> QED
    BY <1>5, <1>6, <2>1, <2>2, <2>6, <2>8
<1>10. ASSUME isr PROVE NothingLost'
  <2>1. out # NoByte
    BY <1>10 DEF isr, IsrHasByte
  <2>2. typed' = typed /\ taken' = taken /\ wire' = wire
    BY <1>1, <1>10, <2>1, HandlerStep
  <2>3. CASE out' = out /\ Contents' = Contents
    BY <1>5, <1>6, <2>2, <2>3 DEF before, held
  <2>4. CASE out' = NoByte /\ Contents' = Append(Contents, out)
    <3>1. held = <<out>> /\ held' = <<>>
      BY <2>1, <2>4 DEF held
    <3>2. Contents' = Contents \o <<out>> /\ Contents' \in Seq(Bytes) /\ <<out>> \in Seq(Bytes)
      BY <1>3, <2>4
    <3>3. taken \o Contents' = (taken \o Contents) \o <<out>>
      BY <1>3, <3>2, ConcatAssociative
    <3>4. before = taken \o Contents'
      BY <3>1, <3>3 DEF before
    <3>5. before' = (taken \o Contents') \o <<>>
      BY <2>2, <3>1 DEF before
    <3>6. before' = before
      BY <1>4, <3>4, <3>5, ConcatEmptySeq
    <3> QED
      BY <1>5, <1>6, <2>2, <3>6
  <2> QED
    BY <1>1, <1>10, <2>1, <2>3, <2>4, HandlerStep
<1>11. ASSUME Pop PROVE NothingLost'
  <2>1. /\ front \in Bytes /\ Contents' \in Seq(Bytes) /\ Contents = <<front>> \o Contents'
        /\ taken' = Append(taken, front) /\ UNCHANGED <<wire, out, typed>>
    BY <1>11, PopStep
  <2>2. taken' \o Contents' = taken \o Contents
    BY <1>3, <2>1, MoveElement
  <2>3. before' = before
    BY <2>1, <2>2 DEF before, held
  <2> QED
    BY <1>5, <1>6, <2>1, <2>3
<1>12. ASSUME UNCHANGED <<queue, taken, out, typed, wire>> PROVE NothingLost'
  BY <1>5, <1>6, <1>7, <1>12
<1>13. ASSUME Tick PROVE NothingLost'
  BY <1>12, <1>13 DEF Tick
<1>14. ASSUME NEW there, Goto(there) PROVE NothingLost'
  BY <1>12, <1>14 DEF Goto
<1>15. ASSUME UNCHANGED vars PROVE NothingLost'
  BY <1>12, <1>15 DEF vars, queue
<1> QED
  BY <1>8, <1>9, <1>10, <1>11, <1>13, <1>14, <1>15
     DEF Next, Program, Yield, YieldHalt, Read, Poll, TestEmpty, Halt

(***************************************************************************)
(* The theorems.                                                           *)
(***************************************************************************)

\* Nothing has been typed.
LEMMA Start == Init => ReadersAgree /\ NothingLost
<1> SUFFICES ASSUME Init PROVE ReadersAgree /\ NothingLost
  OBVIOUS
<1>1. /\ wire = <<>> /\ out = NoByte /\ irq = FALSE /\ pc = "user" /\ skip = 0
      /\ typed = <<>> /\ taken = <<>> /\ read_pos = 0 /\ write_pos = 0
      /\ elems \in [0 .. Size - 1 -> {NoByte}]
  BY DEF Init
<1>2. Uint32 \in Nat \ {0}
  BY SizeAssumption
<1>3. elems \in [0 .. Size - 1 -> Bytes] /\ <<>> \in Seq(Codes) /\ <<>> \in Seq(Bytes)
  BY <1>1 DEF Bytes
<1>4. TypeOK
  <2>1. 0 \in 0 .. Uint32 - 1 /\ NoByte \in Bytes /\ 0 \in 0 .. 2
    BY <1>2 DEF Bytes
  <2> QED
    BY <1>1, <1>3, <2>1, Zenon DEF TypeOK
<1>5. size = 0
  BY <1>1, <1>4, SizeDistance DEF TypeOK, Positions
<1>6. QueueBounded
  BY <1>1, <1>5 DEF QueueBounded, UnderWay
<1>7. Contents \in Seq(Bytes) /\ Len(Contents) = 0
  BY <1>4, <1>5, ContentsSequence
<1>8. Contents = <<>>
  BY <1>7, EmptySeq
<1>9. NothingLost
  BY <1>1, <1>8 DEF NothingLost
<1>10. IsrHasByte /\ Signalled /\ KeyPromised /\ PlainKeysReady
  BY <1>1 DEF IsrHasByte, Signalled, KeyPromised, PlainKeysReady
<1> QED
  BY <1>4, <1>6, <1>9, <1>10 DEF ReadersAgree

\* What the next two theorems have in common.
LEMMA Together == Spec => [](ReadersAgree /\ NothingLost)
<1>1. ReadersAgree /\ NothingLost /\ [Next]_vars => (ReadersAgree /\ NothingLost)'
  BY TypeStep, RoomStep, SignalStep, PromiseStep, NothingLostStep DEF ReadersAgree
<1> QED
  BY Start, <1>1, PTL DEF Spec

\* The interrupt handler and the program agree about every byte: the REQUIRE
\* of isr holds, no byte stays unannounced, the queue is never overfull, and a
\* program that has asked key_available does not wait in read_key for a plain
\* key (ko_keyboard::read, isr, get_scan_key).
THEOREM ReadersCorrect == Spec => []ReadersAgree
<1> QED
  BY Together, PTL

\* No byte is lost, doubled or reordered between the keyboard and read_key,
\* wherever the handler interrupts the program and wherever the positions of
\* the queue wrap (fixed_size_queue, isr).
THEOREM BytesCorrect == Spec => []NothingLost
<1> QED
  BY Together, PTL
===============================================================================
