--------------------------- MODULE ContainersProofs ---------------------------
(***************************************************************************)
(* The vectors on the heap, for every size of the heap and of the vectors: *)
(* every object and every storage has one owner (OwnedCorrect), the heap   *)
(* is used as it has to be used (HeapUsedCorrect), the elements keep their *)
(* order (OrderCorrect), and all is returned in whole (VectorsCorrect).    *)
(*                                                                         *)
(* The invariant looks at all the places where a pointer can be (Where)    *)
(* and at what is held there (Held): what is held is allocated, what is    *)
(* allocated is held, and nothing is held twice (Owns).  A step moves the  *)
(* contents of some places, gives one place a new block or takes one away: *)
(* the lemmas Moved, Gained and GaveUp say that Owns survives.             *)
(***************************************************************************)
EXTENDS Containers, SequencesExt, SequenceTheorems, FiniteSetTheorems, TLAPS

-------------------------------------------------------------------------------
(* Who owns what.                                                          *)

\* Where a pointer can be: the caller's hand, the new storage that reserve
\* has before it adopts it, the storage of a vector, its places.
Where == (0 .. 2) \X Nat
Hand == <<0, 0>>
New == <<0, 1>>

\* The pointer there, or 0 or Raw.
Held == [l \in Where |->
    IF l[1] = 0
    THEN IF l[2] = 0 THEN hand ELSE IF l[2] = 1 /\ op.do = "adopt" THEN op.at ELSE 0
    ELSE IF l[2] = 0 THEN vec[l[1]].begin
         ELSE IF l[2] \in DOMAIN vec[l[1]].slots THEN vec[l[1]].slots[l[2]] ELSE 0]

\* The blocks of D have one owner each, and nothing else is owned.
Owns(h, D) ==
    /\ \A l \in Where : h[l] > 0 => h[l] - 1 \in D
    /\ \A l, m \in Where : h[l] > 0 /\ h[l] = h[m] => l = m
    /\ \A a \in D : \E l \in Where : h[l] = a + 1

\* The same pointer, or none.
Alike(x, y) == x = y \/ (x <= 0 /\ y <= 0)

-------------------------------------------------------------------------------
(* The invariant.                                                          *)

Buffers == [begin : 0 .. HeapSize, slots : Seq(Raw .. HeapSize), size : Nat]

\* A vector: raw memory is what is behind its end.
Buffer(v) ==
    /\ vec[v] \in Buffers
    /\ vec[v].size <= Len(vec[v].slots)
    /\ vec[v].begin = 0 => vec[v].slots = <<>>
    /\ \A i \in DOMAIN vec[v].slots : vec[v].slots[i] = Raw <=> i > vec[v].size

\* default_heap saves in each block the size that the heap gave.
Headers == header = allocated /\ DOMAIN allocated \subseteq 0 .. HeapSize - 1

\* What an operation has to do once there is room for n elements.
Due ==
    /\ op.n \in Nat /\ op.then \in {"push", "resize", "nothing"}
    /\ op.then = "push" => op.n = own.size + 1 /\ hand # 0
    /\ op.then = "resize" => own.size <= op.n

Pending ==
    /\ op.do \in {"idle", "grow", "adopt", "settle", "destroy", "release"}
    /\ op.do \in {"grow", "adopt"} =>
         /\ Due /\ op.room \in Nat \ {0} /\ op.n <= op.room /\ own.size <= op.room
    /\ op.do = "adopt" => op.at \in 1 .. HeapSize
    /\ op.do = "settle" => Due /\ op.n <= capacity
    /\ op.do = "destroy" => /\ op.n \in Nat /\ op.release \in BOOLEAN
                            /\ op.release => op.n = 0 /\ own.begin # 0
    /\ op.do = "release" => own.size = 0 /\ own.begin # 0

KInv ==
    /\ DOMAIN vec = Vectors /\ \A v \in Vectors : Buffer(v)
    /\ hand \in 0 .. HeapSize
    /\ Headers /\ Pending
    /\ Owns(Held, DOMAIN allocated)

-------------------------------------------------------------------------------
(* How owners change.                                                      *)

\* One place gets a new block.
LEMMA Gained ==
    ASSUME NEW h, NEW k, NEW D \in SUBSET Nat, Owns(h, D), NEW x \in Where, ~(h[x] > 0),
           NEW p \in Nat \ {0}, p - 1 \notin D, k[x] = p,
           \A l \in Where \ {x} : Alike(k[l], h[l]),
           \A l \in Where : h[l] \in Int /\ k[l] \in Int
    PROVE  Owns(k, D \cup {p - 1})
<1>1. \A l \in Where \ {x} : k[l] > 0 => k[l] = h[l] /\ k[l] - 1 \in D
  BY DEF Owns, Alike
<1>2. \A l \in Where : k[l] > 0 => k[l] - 1 \in D \cup {p - 1}
  BY <1>1
<1>3. \A l, m \in Where : k[l] > 0 /\ k[l] = k[m] => l = m
  <2> SUFFICES ASSUME NEW l \in Where, NEW m \in Where, k[l] > 0, k[l] = k[m] PROVE l = m
    OBVIOUS
  <2>1. CASE l # x /\ m # x
    BY <1>1, <2>1 DEF Owns
  <2>2. CASE l = x \/ m = x
    BY <1>1, <2>2
  <2> QED
    BY <2>1, <2>2
<1>4. \A a \in D \cup {p - 1} : \E l \in Where : k[l] = a + 1
  <2> SUFFICES ASSUME NEW a \in D \cup {p - 1} PROVE \E l \in Where : k[l] = a + 1
    OBVIOUS
  <2>1. CASE a = p - 1
    BY <2>1
  <2>2. CASE a \in D
    <3>1. PICK l \in Where : h[l] = a + 1
      BY <2>2 DEF Owns
    <3>2. h[l] > 0
      <4>1. a \in Nat
        BY ONLY <2>2, D \in SUBSET Nat
      <4> QED
        BY <3>1, <4>1
    <3>3. l \in Where \ {x}
      BY <3>2
    <3>4. k[l] = h[l] \/ (k[l] <= 0 /\ h[l] <= 0)
      BY <3>3 DEF Alike
    <3>5. k[l] = h[l]
      BY <3>2, <3>4
    <3> QED
      BY <3>1, <3>5
  <2> QED
    BY <2>1, <2>2
<1> QED
  BY <1>2, <1>3, <1>4 DEF Owns

\* One place gives its block back.
LEMMA GaveUp ==
    ASSUME NEW h, NEW k, NEW D \in SUBSET Nat, Owns(h, D), NEW x \in Where, ~(k[x] > 0),
           \A l \in Where \ {x} : Alike(k[l], h[l]),
           \A l \in Where : h[l] \in Int /\ k[l] \in Int
    PROVE  Owns(k, D \ {h[x] - 1})
<1>1. \A l \in Where : k[l] > 0 => l # x /\ k[l] = h[l] /\ h[l] > 0
  BY DEF Alike
<1>2. \A l \in Where : k[l] > 0 => k[l] - 1 \in D \ {h[x] - 1}
  BY <1>1 DEF Owns
<1>3. \A l, m \in Where : k[l] > 0 /\ k[l] = k[m] => l = m
  BY <1>1 DEF Owns
<1>4. ASSUME NEW a \in D \ {h[x] - 1} PROVE \E l \in Where : k[l] = a + 1
  <2>1. PICK l \in Where : h[l] = a + 1
    BY DEF Owns
  <2>2. l # x /\ h[l] > 0
    BY <1>4, <2>1
  <2> QED
    BY <2>1, <2>2 DEF Alike
<1> QED
  BY <1>2, <1>3, <1>4 DEF Owns

\* The owners change places.
LEMMA Moved ==
    ASSUME NEW h, NEW k, NEW D \in SUBSET Nat, Owns(h, D),
           NEW f \in [Where -> Where], \A l, m \in Where : f[l] = f[m] => l = m,
           NEW g \in [Where -> Where], \A l \in Where : f[g[l]] = l,
           \A l \in Where : Alike(k[l], h[f[l]]),
           \A l \in Where : h[l] \in Int /\ k[l] \in Int
    PROVE  Owns(k, D)
<1>1. \A l \in Where : k[l] > 0 => k[l] = h[f[l]] /\ h[f[l]] > 0
  BY DEF Alike
<1>2. \A l \in Where : k[l] > 0 => k[l] - 1 \in D
  BY <1>1 DEF Owns
<1>3. \A l, m \in Where : k[l] > 0 /\ k[l] = k[m] => l = m
  BY <1>1 DEF Owns
<1>4. ASSUME NEW a \in D PROVE \E l \in Where : k[l] = a + 1
  <2>1. PICK l \in Where : h[l] = a + 1
    BY DEF Owns
  <2>2. h[f[g[l]]] > 0 /\ g[l] \in Where
    BY <2>1
  <2> QED
    BY <2>1, <2>2 DEF Alike
<1> QED
  BY <1>2, <1>3, <1>4 DEF Owns

\* One of them does.
LEMMA MovedOne ==
    ASSUME NEW h, NEW k, NEW D \in SUBSET Nat, Owns(h, D),
           NEW x \in Where, NEW y \in Where, x # y, ~(h[y] > 0), ~(k[x] > 0), Alike(k[y], h[x]),
           \A l \in Where \ {x, y} : Alike(k[l], h[l]),
           \A l \in Where : h[l] \in Int /\ k[l] \in Int
    PROVE  Owns(k, D)
<1> DEFINE f == [l \in Where |-> IF l = x THEN y ELSE IF l = y THEN x ELSE l]
<1>1. f \in [Where -> Where] /\ (\A l, m \in Where : f[l] = f[m] => l = m) /\ \A l \in Where : f[f[l]] = l
  OBVIOUS
<1>2. \A l \in Where : Alike(k[l], h[f[l]])
  BY DEF Alike
<1> HIDE DEF f
<1> QED
  BY <1>1, <1>2, Moved

\* None does.
LEMMA Stayed ==
    ASSUME NEW h, NEW k, NEW D \in SUBSET Nat, Owns(h, D),
           \A l \in Where : Alike(k[l], h[l]),
           \A l \in Where : h[l] \in Int /\ k[l] \in Int
    PROVE  Owns(k, D)
<1> DEFINE f == [l \in Where |-> l]
<1>1. f \in [Where -> Where] /\ (\A l, m \in Where : f[l] = f[m] => l = m) /\ \A l \in Where : f[f[l]] = l
  OBVIOUS
<1>2. \A l \in Where : Alike(k[l], h[f[l]])
  OBVIOUS
<1> HIDE DEF f
<1> QED
  BY <1>1, <1>2, Moved

-------------------------------------------------------------------------------
(* The steps.                                                              *)

Typed ==
    /\ DOMAIN vec = Vectors /\ \A v \in Vectors : Buffer(v)
    /\ hand \in 0 .. HeapSize
    /\ op.do = "adopt" => op.at \in 1 .. HeapSize

\* What is held is a number.
LEMMA HeldInt == Typed => \A l \in Where : Held[l] \in Int
<1> SUFFICES ASSUME Typed, NEW v \in 0 .. 2, NEW i \in Nat PROVE Held[<<v, i>>] \in Int
  BY DEF Where
<1>1. <<v, i>> \in Where
  BY DEF Where
<1>2. CASE v = 0
  BY <1>1, <1>2 DEF Held, Typed
<1>3. CASE v \in Vectors
  <2>1. vec[v].begin \in Int /\ vec[v].slots \in Seq(Raw .. HeapSize)
    BY <1>3 DEF Typed, Buffer, Buffers
  <2>2. i \in DOMAIN vec[v].slots => vec[v].slots[i] \in Int
    BY <2>1, KVectorAssumption DEF Raw
  <2> QED
    BY <1>1, <1>3, <2>1, <2>2 DEF Held, Vectors
<1> QED
  BY <1>2, <1>3 DEF Vectors

\* The same after a step.
LEMMA HeldIntNext == Typed' => \A l \in Where : Held'[l] \in Int
<1>1. (Typed => \A l \in Where : Held[l] \in Int)'
  BY HeldInt, PTL
<1> QED
  BY <1>1

\* What is held where.
LEMMA HeldThere ==
    /\ Held[Hand] = hand
    /\ Held[New] = IF op.do = "adopt" THEN op.at ELSE 0
    /\ \A v \in Vectors : Held[<<v, 0>>] = vec[v].begin
    /\ \A v \in Vectors, i \in Nat \ {0} :
         Held[<<v, i>>] = IF i \in DOMAIN vec[v].slots THEN vec[v].slots[i] ELSE 0
  BY DEF Held, Where, Hand, New, Vectors

\* default_heap's alloc.
LEMMA Allocated ==
    ASSUME KInv, NEW bytes, NEW p \in 1 .. HeapSize, kalloc(bytes, p)
    PROVE  /\ Headers' /\ p - 1 \notin DOMAIN allocated
           /\ DOMAIN allocated' = DOMAIN allocated \cup {p - 1}
<1>1. PICK a : allocated' = Heap!With(allocated, a, BlockUnits(bytes))
  BY DEF kalloc, Heap!Alloc
<1>2. DOMAIN allocated' = DOMAIN allocated \cup {a} /\ p - 1 \in DOMAIN allocated' \ DOMAIN allocated
  BY <1>1 DEF kalloc, Heap!With, Heap!A!With
<1>3. a = p - 1
  BY <1>2
<1>4. header' = Heap!With(allocated, p - 1, BlockUnits(bytes))
  BY DEF kalloc, Saved, KInv, Headers
<1>5. p - 1 \in 0 .. HeapSize - 1
  BY KVectorAssumption
<1> QED
  BY <1>1, <1>2, <1>3, <1>4, <1>5 DEF Headers, KInv

\* default_heap's free, of a pointer or of none.
LEMMA Returned ==
    ASSUME KInv, NEW p \in 0 .. HeapSize, p # 0 => p - 1 \in DOMAIN allocated, reset(p)
    PROVE  Headers' /\ DOMAIN allocated' = DOMAIN allocated \ {p - 1}
<1>1. header = allocated /\ DOMAIN allocated \subseteq 0 .. HeapSize - 1 /\ HeapSize \in Nat
  BY KVectorAssumption DEF KInv, Headers
<1>2. CASE p = 0
  <2>1. header' = header /\ allocated' = allocated
    BY <1>2 DEF reset, heapVars
  <2> QED
    BY <1>1, <1>2, <2>1 DEF Headers
<1>3. CASE p # 0
  <2>1. /\ allocated' = Heap!Without(allocated, {p - 1})
        /\ header' = Heap!Without(header, {p - 1})
    BY <1>1, <1>3 DEF reset, kfree
  <2>2. DOMAIN allocated' = DOMAIN allocated \ {p - 1}
    BY <2>1 DEF Heap!Without, Heap!A!Without
  <2> QED
    BY <1>1, <2>1, <2>2 DEF Headers
<1> QED
  BY <1>2, <1>3

\* What is held is allocated.
LEMMA HeldAllocated ==
    ASSUME KInv
    PROVE  /\ hand # 0 => hand - 1 \in DOMAIN allocated
           /\ \A v \in Vectors : vec[v].begin # 0 => vec[v].begin - 1 \in DOMAIN allocated
           /\ \A v \in Vectors : \A i \in DOMAIN vec[v].slots :
                vec[v].slots[i] > 0 => vec[v].slots[i] - 1 \in DOMAIN allocated
           /\ DOMAIN allocated \in SUBSET Nat
           /\ Typed /\ HeapSize \in Nat
<1>1. Typed /\ HeapSize \in Nat
  BY KVectorAssumption DEF KInv, Typed, Pending
<1>2. \A l \in Where : Held[l] > 0 => Held[l] - 1 \in DOMAIN allocated
  BY DEF KInv, Owns
<1>3. Hand \in Where /\ \A v \in Vectors, i \in Nat : <<v, i>> \in Where
  BY DEF Where, Hand, Vectors
<1>4. \A v \in Vectors : vec[v].begin \in 0 .. HeapSize /\ vec[v].slots \in Seq(Raw .. HeapSize)
  BY <1>1 DEF Typed, Buffer, Buffers
<1>5. hand # 0 => hand - 1 \in DOMAIN allocated
  BY <1>1, <1>2, <1>3, HeldThere DEF Typed
<1>6. \A v \in Vectors : vec[v].begin # 0 => vec[v].begin - 1 \in DOMAIN allocated
  <2> SUFFICES ASSUME NEW v \in Vectors, vec[v].begin # 0 PROVE vec[v].begin - 1 \in DOMAIN allocated
    OBVIOUS
  <2>1. Held[<<v, 0>>] = vec[v].begin /\ <<v, 0>> \in Where
    BY <1>3, HeldThere
  <2> QED
    BY <1>1, <1>2, <1>4, <2>1
<1>7. ASSUME NEW v \in Vectors, NEW i \in DOMAIN vec[v].slots, vec[v].slots[i] > 0
      PROVE  vec[v].slots[i] - 1 \in DOMAIN allocated
  <2>1. i \in Nat \ {0}
    BY <1>4
  <2>2. Held[<<v, i>>] = vec[v].slots[i] /\ <<v, i>> \in Where
    BY <1>3, <1>7, <2>1, HeldThere
  <2> QED
    BY <1>2, <1>7, <2>2
<1> QED
  BY <1>1, <1>5, <1>6, <1>7 DEF KInv, Headers

\* A step that leaves the vectors and changes neither op.at nor its use.
LEMMA SameHeld ==
    ASSUME vec' = vec, hand' = hand,
           op.do = "adopt" <=> op'.do = "adopt", op.do = "adopt" => op'.at = op.at
    PROVE  \A l \in Where : Held'[l] = Held[l]
  BY DEF Held

\* An operation begins, goes on or ends without a change of the heap or the
\* vectors.
LEMMA OpStep ==
    ASSUME KInv, UNCHANGED <<free, allocated, header, vec, hand>>,
           op.do # "adopt", op'.do # "adopt", Pending'
    PROVE  KInv'
<1>1. (\A l \in Where : Held'[l] = Held[l]) /\ \A l \in Where : Held[l] \in Int
  BY SameHeld, HeldInt, HeldAllocated
<1>2. DOMAIN allocated \in SUBSET Nat /\ Owns(Held, DOMAIN allocated)
  BY HeldAllocated DEF KInv
<1>3. Owns(Held', DOMAIN allocated)
  BY <1>1, <1>2 DEF Owns
<1> QED
  BY <1>3 DEF KInv, Headers, Buffer

\* The heap is exhausted: the machine stops, and who owns what stays.
LEMMA FailStep ==
    ASSUME KInv, NEW bytes, kalloc_fails(bytes)
    PROVE  KInv'
<1>1. UNCHANGED <<free, allocated, header, vec, hand, op>>
  BY DEF kalloc_fails, Heap!AllocFails
<1>2. (\A l \in Where : Held'[l] = Held[l]) /\ \A l \in Where : Held[l] \in Int
  BY <1>1, SameHeld, HeldInt, HeldAllocated
<1>3. Owns(Held', DOMAIN allocated)
  BY <1>2 DEF KInv, Owns
<1> QED
  BY <1>1, <1>3 DEF KInv, Headers, Buffer, Pending, Due, own, capacity

\* The caller gets an object.
LEMMA NewStep ==
    ASSUME KInv, NEW p \in 1 .. HeapSize, kalloc(ObjectBytes, p), hand = 0, hand' = p,
           UNCHANGED <<vec, op>>, op = Idle
    PROVE  KInv'
<1>1. /\ Headers' /\ p - 1 \notin DOMAIN allocated
      /\ DOMAIN allocated' = DOMAIN allocated \cup {p - 1}
  BY Allocated
<1>2. DOMAIN vec' = Vectors /\ \A v \in Vectors : Buffer(v)'
  BY DEF KInv, Buffer
<1>3. Pending' /\ hand' \in 0 .. HeapSize
  BY KVectorAssumption DEF Pending, Idle
<1>4. \A l \in Where : Held[l] \in Int /\ Held'[l] \in Int
  BY <1>2, <1>3, HeldInt, HeldIntNext, HeldAllocated DEF Typed, Idle
<1>5. \A l \in Where \ {Hand} : Held'[l] = Held[l]
  BY DEF Held, Where, Hand
<1>6. Hand \in Where /\ Held[Hand] = 0 /\ Held'[Hand] = p
  BY DEF Held, Where, Hand
<1>7. Owns(Held', DOMAIN allocated \cup {p - 1})
  BY <1>1, <1>4, <1>5, <1>6, Gained, HeldAllocated DEF Alike, KInv
<1> QED
  BY <1>1, <1>2, <1>3, <1>7 DEF KInv

\* The caller destroys the object in its hand.
LEMMA DropStep ==
    ASSUME KInv, hand # 0, reset(hand), hand' = 0, UNCHANGED <<vec, op>>, op = Idle
    PROVE  KInv'
<1>1. Headers' /\ DOMAIN allocated' = DOMAIN allocated \ {hand - 1}
  BY Returned, HeldAllocated DEF Typed
<1>2. DOMAIN vec' = Vectors /\ \A v \in Vectors : Buffer(v)'
  BY DEF KInv, Buffer
<1>3. Pending' /\ hand' \in 0 .. HeapSize
  BY KVectorAssumption DEF Pending, Idle
<1>4. \A l \in Where : Held[l] \in Int /\ Held'[l] \in Int
  BY <1>2, <1>3, HeldInt, HeldIntNext, HeldAllocated DEF Typed, Idle
<1>5. \A l \in Where \ {Hand} : Held'[l] = Held[l]
  BY DEF Held, Where, Hand
<1>6. Hand \in Where /\ Held[Hand] = hand /\ Held'[Hand] = 0
  BY DEF Held, Where, Hand
<1>7. Owns(Held', DOMAIN allocated \ {hand - 1})
  BY <1>4, <1>5, <1>6, GaveUp, HeldAllocated DEF Alike, KInv
<1> QED
  BY <1>1, <1>2, <1>3, <1>7 DEF KInv

\* The vectors change their storage.
LEMMA MoveStep ==
    ASSUME KInv, MoveAssign
    PROVE  KInv'
<1>1. /\ vec' = [v \in Vectors |-> vec[3 - v]] /\ op = Idle /\ op' = op /\ hand' = hand
      /\ allocated' = allocated /\ header' = header
  BY DEF MoveAssign, Ready, heapVars
<1>2. DOMAIN vec' = Vectors /\ \A v \in Vectors : Buffer(v)'
  BY <1>1 DEF KInv, Buffer, Vectors
<1>3. Pending' /\ hand' \in 0 .. HeapSize /\ Headers'
  BY <1>1 DEF KInv, Pending, Idle, Headers
<1>4. \A l \in Where : Held[l] \in Int /\ Held'[l] \in Int
  BY <1>1, <1>2, <1>3, HeldInt, HeldIntNext, HeldAllocated DEF Typed, Idle
<1> DEFINE f == [l \in Where |-> IF l[1] = 0 THEN l ELSE <<3 - l[1], l[2]>>]
<1>5. f \in [Where -> Where] /\ (\A l, m \in Where : f[l] = f[m] => l = m) /\ \A l \in Where : f[f[l]] = l
  BY DEF Where
<1>6. \A l \in Where : Held'[l] = Held[f[l]]
  <2> SUFFICES ASSUME NEW v \in 0 .. 2, NEW i \in Nat PROVE Held'[<<v, i>>] = Held[f[<<v, i>>]]
    BY DEF Where
  <2>1. <<v, i>> \in Where /\ f[<<v, i>>] = (IF v = 0 THEN <<v, i>> ELSE <<3 - v, i>>) /\ f[<<v, i>>] \in Where
    BY <1>5 DEF Where
  <2> HIDE DEF f
  <2>2. CASE v = 0
    BY <1>1, <2>1, <2>2 DEF Held
  <2>3. CASE v # 0
    <3>1. vec'[v] = vec[3 - v]
      BY <1>1, <2>3 DEF Vectors
    <3> QED
      BY <2>1, <2>3, <3>1 DEF Held
  <2> QED
    BY <2>2, <2>3
<1> HIDE DEF f
<1>7. Owns(Held', DOMAIN allocated)
  <2>1. \A l \in Where : Alike(Held'[l], Held[f[l]])
    BY <1>6 DEF Alike
  <2> QED
    BY <1>4, <1>5, <2>1, Moved, HeldAllocated DEF KInv
<1> QED
  BY <1>1, <1>2, <1>3, <1>7 DEF KInv

\* What is known of the first vector.
LEMMA OwnFacts ==
    ASSUME KInv
    PROVE  /\ own \in Buffers /\ own.slots \in Seq(Raw .. HeapSize)
           /\ own.size \in Nat /\ Len(own.slots) \in Nat /\ own.size <= Len(own.slots)
           /\ DOMAIN own.slots = 1 .. Len(own.slots) /\ capacity = Len(own.slots)
           /\ \A i \in DOMAIN own.slots : own.slots[i] = Raw <=> i > own.size
           /\ \A i \in DOMAIN own.slots : own.slots[i] \in Raw .. HeapSize
           /\ own.begin \in 0 .. HeapSize
           /\ own.begin = 0 => own.slots = <<>>
<1>1. Buffer(1)
  BY DEF KInv, Vectors
<1>2. \A S : \A s \in Seq(S) : \A i \in DOMAIN s : s[i] \in S
  OBVIOUS
<1>3. own.slots \in Seq(Raw .. HeapSize)
  BY <1>1 DEF Buffer, Buffers, own
<1>4. \A i \in DOMAIN own.slots : own.slots[i] \in Raw .. HeapSize
  BY ONLY <1>2, <1>3
<1> QED
  BY <1>1, <1>4 DEF Buffer, Buffers, own, capacity

\* reserve has its new storage.
LEMMA GrowStep ==
    ASSUME KInv, op.do = "grow", NEW p \in 1 .. HeapSize, kalloc(PointerBytes * op.room, p),
           op' = [do |-> "adopt", room |-> op.room, n |-> op.n, then |-> op.then, at |-> p],
           UNCHANGED <<vec, hand>>
    PROVE  KInv'
<1>1. /\ Headers' /\ p - 1 \notin DOMAIN allocated
      /\ DOMAIN allocated' = DOMAIN allocated \cup {p - 1}
  BY Allocated
<1>2. DOMAIN vec' = Vectors /\ \A v \in Vectors : Buffer(v)'
  BY DEF KInv, Buffer
<1>3. Pending' /\ hand' \in 0 .. HeapSize
  BY DEF KInv, Pending, Due, own, capacity
<1>4. \A l \in Where : Held[l] \in Int /\ Held'[l] \in Int
  BY <1>2, <1>3, HeldInt, HeldIntNext, HeldAllocated DEF Typed
<1>5. \A l \in Where \ {New} : Held'[l] = Held[l]
  BY DEF Held, Where, New
<1>6. New \in Where /\ Held[New] = 0 /\ Held'[New] = p
  BY DEF Held, Where, New
<1>7. Owns(Held', DOMAIN allocated \cup {p - 1})
  BY <1>1, <1>4, <1>5, <1>6, Gained, HeldAllocated DEF Alike, KInv
<1> QED
  BY <1>1, <1>2, <1>3, <1>7 DEF KInv

\* The first n elements of a sequence, which it has.
LEMMA Beginning ==
    ASSUME NEW S, NEW s \in Seq(S), NEW n \in 0 .. Len(s)
    PROVE  /\ SubSeq(s, 1, n) \in Seq(S) /\ Len(SubSeq(s, 1, n)) = n
           /\ \A i \in 1 .. n : SubSeq(s, 1, n)[i] = s[i]
<1>1. \A i \in 1 .. n : s[i] \in S
  OBVIOUS
<1> QED
  BY <1>1, SubSeqProperties

\* The elements after reserve: those of before, and raw memory.
LEMMA Reserved ==
    ASSUME KInv, op.do = "adopt"
    PROVE  LET s == Contents(1) \o Fill(op.room - own.size, Raw) IN
           /\ s \in Seq(Raw .. HeapSize) /\ Len(s) = op.room
           /\ \A i \in 1 .. own.size : s[i] = own.slots[i]
           /\ \A i \in own.size + 1 .. op.room : s[i] = Raw
<1> DEFINE t == Contents(1)
           n == own.size
           m == op.room
           e == Fill(m - n, Raw)
<1>1. own.slots \in Seq(Raw .. HeapSize) /\ n \in 0 .. Len(own.slots) /\ m \in Nat /\ n <= m
  BY DEF KInv, Buffer, Buffers, Pending, own, Vectors
<1>2. t \in Seq(Raw .. HeapSize) /\ Len(t) = n /\ \A i \in 1 .. n : t[i] = own.slots[i]
  <2>1. t = SubSeq(own.slots, 1, n)
    BY DEF Contents, own
  <2> HIDE DEF t, n
  <2>2. \A q \in Seq(Raw .. HeapSize) : \A j \in 0 .. Len(q) :
          /\ SubSeq(q, 1, j) \in Seq(Raw .. HeapSize) /\ Len(SubSeq(q, 1, j)) = j
          /\ \A i \in 1 .. j : SubSeq(q, 1, j)[i] = q[i]
    BY Beginning
  <2> QED
    BY <1>1, <2>1, <2>2
<1>3. e \in Seq(Raw .. HeapSize) /\ Len(e) = m - n /\ \A i \in 1 .. m - n : e[i] = Raw
  BY <1>1, KVectorAssumption DEF Fill, Raw
<1> HIDE DEF t, n, m, e
<1>4. t \o e \in Seq(Raw .. HeapSize) /\ Len(t \o e) = m
  <2>1. t \o e \in Seq(Raw .. HeapSize)
    BY <1>2, <1>3
  <2>2. Len(t \o e) = Len(t) + Len(e)
    BY <1>2, <1>3
  <2> QED
    BY <1>1, <1>2, <1>3, <2>1, <2>2
<1>5. \A i \in 1 .. n : (t \o e)[i] = own.slots[i]
  BY <1>1, <1>2, <1>3
<1>6. \A i \in n + 1 .. m : (t \o e)[i] = Raw
  BY <1>1, <1>2, <1>3
<1> QED
  BY <1>4, <1>5, <1>6 DEF t, n, m, e

\* The elements are in the new storage, and the old one is given back.
LEMMA AdoptStep ==
    ASSUME KInv, Adopt
    PROVE  KInv'
<1> DEFINE s == Contents(1) \o Fill(op.room - own.size, Raw)
           u == [begin |-> op.at, slots |-> s, size |-> own.size]
<1>1. op.do = "adopt" /\ hand' = hand /\ op' = [do |-> "settle", n |-> op.n, then |-> op.then]
  BY DEF Adopt, Doing
<1>2. /\ s \in Seq(Raw .. HeapSize) /\ Len(s) = op.room
      /\ \A i \in 1 .. own.size : s[i] = own.slots[i]
      /\ \A i \in own.size + 1 .. op.room : s[i] = Raw
  BY <1>1, Reserved
<1>3. vec' = [vec EXCEPT ![1] = u] /\ reset(own.begin)
  BY DEF Adopt
<1> HIDE DEF s
<1>4. Buffer(1) /\ Buffer(2) /\ DOMAIN vec = Vectors
  BY DEF KInv, Vectors
<1>5. op.at \in 1 .. HeapSize /\ op.room \in Nat /\ own.size \in Nat /\ own.size <= op.room /\ op.n <= op.room
  BY <1>1, <1>4 DEF KInv, Pending, Buffer, Buffers, own
<1>6. vec'[1] = u /\ vec'[2] = vec[2] /\ DOMAIN vec' = Vectors
  BY <1>3, <1>4 DEF Vectors
<1>7. Headers' /\ DOMAIN allocated' = DOMAIN allocated \ {own.begin - 1}
  BY <1>3, <1>4, Returned, HeldAllocated DEF own, Vectors, Buffer, Buffers
<1>8. Buffer(1)' /\ Buffer(2)'
  <2>1. u \in Buffers
    BY <1>2, <1>5 DEF Buffers
  <2>2. \A i \in DOMAIN s : s[i] = Raw <=> i > own.size
    <3>1. DOMAIN s = 1 .. op.room /\ own.size \in Nat /\ op.room \in Nat
      BY <1>2, <1>5
    <3>2. \A i \in 1 .. own.size : own.slots[i] # Raw
      <4>1. \A i \in 1 .. own.size : i \in DOMAIN own.slots /\ ~(i > own.size)
        BY OwnFacts
      <4> QED
        BY <4>1, OwnFacts
    <3>3. \A i \in 1 .. op.room : i \in 1 .. own.size \/ (i \in own.size + 1 .. op.room /\ i > own.size)
      BY <3>1
    <3>4. \A i \in 1 .. own.size : ~(i > own.size)
      BY <3>1
    <3> QED
      BY ONLY <1>2, <3>1, <3>2, <3>3, <3>4
  <2>3. u.begin # 0 /\ u.slots = s /\ u.size = own.size
    BY <1>5, KVectorAssumption
  <2> QED
    BY <1>2, <1>4, <1>5, <1>6, <2>1, <2>2, <2>3 DEF Buffer
<1>9. Pending' /\ hand' \in 0 .. HeapSize
  <2>1. own'.size = own.size /\ capacity' = op.room
    BY <1>2, <1>6 DEF own, capacity
  <2> QED
    BY <1>1, <1>5, <2>1 DEF KInv, Pending, Due
<1>10. \A l \in Where : Held[l] \in Int /\ Held'[l] \in Int
  BY <1>1, <1>6, <1>8, <1>9, HeldInt, HeldIntNext, HeldAllocated DEF Typed, Vectors
<1> DEFINE x == <<1, 0>>
           k == [l \in Where |-> IF l = x THEN 0 ELSE Held[l]]
<1>11. x \in Where /\ New \in Where /\ x # New /\ k[x] = 0 /\ k[New] = op.at
  BY <1>1 DEF Where, New, Held
<1>12. Owns(k, DOMAIN allocated \ {own.begin - 1})
  <2>1. Held[x] = own.begin
    BY HeldThere DEF own, Vectors
  <2>2. \A l \in Where : k[l] \in Int
    BY <1>10
  <2>3. \A l \in Where \ {x} : k[l] = Held[l]
    OBVIOUS
  <2> HIDE DEF k, x
  <2> QED
    BY <1>10, <1>11, <2>1, <2>2, <2>3, GaveUp, HeldAllocated DEF Alike, KInv
<1>13. Held'[x] = op.at /\ Held'[New] = 0
  BY <1>1, <1>6 DEF Held, Where, New
<1>14. \A l \in Where \ {x, New} : Alike(Held'[l], k[l])
  <2> SUFFICES ASSUME NEW v \in 0 .. 2, NEW i \in Nat, <<v, i>> \notin {x, New}
               PROVE  Alike(Held'[<<v, i>>], Held[<<v, i>>])
    BY DEF Where
  <2>1. <<v, i>> \in Where
    BY DEF Where
  <2>2. CASE v = 0
    BY <1>1, <2>1, <2>2 DEF Held, New, Alike
  <2>3. CASE v = 1
    <3>1. i \in Nat \ {0}
      BY <2>3
    <3>2. Held'[<<v, i>>] = IF i \in 1 .. op.room THEN s[i] ELSE 0
      BY <1>2, <1>5, <1>6, <2>1, <2>3, <3>1 DEF Held
    <3>3. Held[<<v, i>>] = IF i \in DOMAIN own.slots THEN own.slots[i] ELSE 0
      BY <2>1, <2>3, <3>1 DEF Held, own
    <3>4. own.slots \in Seq(Raw .. HeapSize) /\ own.size <= Len(own.slots)
          /\ \A j \in DOMAIN own.slots : j > own.size => own.slots[j] = Raw
      BY <1>4 DEF Buffer, Buffers, own
    <3>5. CASE i <= own.size
      BY <1>2, <1>5, <3>1, <3>2, <3>3, <3>4, <3>5 DEF Alike
    <3>6. CASE i > own.size
      BY <1>2, <1>5, <3>1, <3>2, <3>3, <3>4, <3>6 DEF Alike, Raw
    <3> QED
      BY <1>5, <3>5, <3>6
  <2>4. CASE v = 2
    BY <1>6, <2>1, <2>4 DEF Held, Alike
  <2> QED
    BY <2>2, <2>3, <2>4
<1>15. Owns(Held', DOMAIN allocated \ {own.begin - 1})
  <2>1. \A l \in Where : k[l] \in Int
    BY <1>10
  <2> HIDE DEF k, x
  <2>2. DOMAIN allocated \ {own.begin - 1} \in SUBSET Nat
    BY HeldAllocated
  <2>3. ~(k[x] > 0) /\ ~(Held'[New] > 0) /\ Alike(Held'[x], k[New])
    BY <1>11, <1>13 DEF Alike
  <2>4. \A l \in Where \ {New, x} : Alike(Held'[l], k[l])
    BY <1>14
  <2> QED
    BY <1>10, <1>11, <1>12, <2>1, <2>2, <2>3, <2>4, MovedOne
<1> QED
  BY <1>6, <1>7, <1>8, <1>9, <1>15 DEF KInv, Vectors

\* Other elements in the storage of the first vector.
LEMMA OwnChanged ==
    ASSUME KInv, NEW u, u \in Buffers, u.size <= Len(u.slots), u.begin = own.begin,
           DOMAIN u.slots = DOMAIN own.slots, Len(u.slots) = Len(own.slots),
           \A i \in DOMAIN u.slots : u.slots[i] = Raw <=> i > u.size,
           vec' = [vec EXCEPT ![1] = u], op.do # "adopt", op'.do # "adopt"
    PROVE  /\ DOMAIN vec' = Vectors /\ \A v \in Vectors : Buffer(v)'
           /\ own' = u
           /\ \A l \in Where : l # Hand /\ l \notin {1} \X DOMAIN own.slots => Held'[l] = Held[l]
           /\ \A i \in DOMAIN own.slots :
                <<1, i>> \in Where /\ Held[<<1, i>>] = own.slots[i] /\ Held'[<<1, i>>] = u.slots[i]
           /\ Hand \in Where /\ Held[Hand] = hand /\ Held'[Hand] = hand'
<1>1. DOMAIN vec = Vectors /\ Buffer(1) /\ Buffer(2)
  BY DEF KInv, Vectors
<1>2. vec'[1] = u /\ vec'[2] = vec[2] /\ DOMAIN vec' = Vectors
  BY <1>1 DEF Vectors
<1>3. own' = u
  BY <1>2 DEF own
<1>4. own.slots \in Seq(Raw .. HeapSize)
  BY <1>1 DEF Buffer, Buffers, own
<1>5. \A v \in Vectors : Buffer(v)'
  <2>1. u.begin = 0 => u.slots = <<>>
    <3>1. u.begin = 0 => own.slots = <<>>
      BY <1>1 DEF Buffer, own
    <3>2. u.slots \in Seq(Raw .. HeapSize)
      BY DEF Buffers
    <3>3. own.slots = <<>> => Len(u.slots) = 0
      OBVIOUS
    <3>4. Len(u.slots) = 0 => u.slots = <<>>
      BY <3>2
    <3> QED
      BY <3>1, <3>3, <3>4
  <2>2. Buffer(1)'
    BY <1>2, <2>1 DEF Buffer
  <2>3. Buffer(2)'
    BY <1>1, <1>2 DEF Buffer
  <2> QED
    BY <2>2, <2>3 DEF Vectors
<1>6. ASSUME NEW v \in 0 .. 2, NEW i \in Nat, <<v, i>> # Hand, <<v, i>> \notin {1} \X DOMAIN own.slots
      PROVE  Held'[<<v, i>>] = Held[<<v, i>>]
  <2>1. <<v, i>> \in Where
    BY DEF Where
  <2>2. CASE v = 0
    BY <1>6, <2>1, <2>2 DEF Held, Hand
  <2>3. CASE v = 1
    <3>1. i \notin DOMAIN own.slots
      BY <1>6, <2>3
    <3> QED
      BY <1>2, <2>1, <2>3, <3>1 DEF Held, own
  <2>4. CASE v = 2
    BY <1>2, <2>1, <2>4 DEF Held
  <2> QED
    BY <2>2, <2>3, <2>4
<1>7. ASSUME NEW i \in DOMAIN own.slots
      PROVE  <<1, i>> \in Where /\ Held[<<1, i>>] = own.slots[i] /\ Held'[<<1, i>>] = u.slots[i]
  <2>1. i \in Nat \ {0}
    BY <1>4
  <2> QED
    BY <1>2, <2>1 DEF Held, Where, own
<1>8. Hand \in Where /\ Held[Hand] = hand /\ Held'[Hand] = hand'
  BY DEF Held, Where, Hand
<1>9. \A l \in Where : l # Hand /\ l \notin {1} \X DOMAIN own.slots => Held'[l] = Held[l]
  BY <1>6 DEF Where
<1> QED
  BY <1>2, <1>3, <1>5, <1>7, <1>8, <1>9

\* A sequence with one element replaced.
LEMMA Replaced ==
    ASSUME NEW S, NEW s \in Seq(S), NEW i \in DOMAIN s, NEW x \in S
    PROVE  LET t == [s EXCEPT ![i] = x] IN
           /\ t \in Seq(S) /\ Len(t) = Len(s) /\ DOMAIN t = DOMAIN s
           /\ t[i] = x /\ \A j \in DOMAIN s \ {i} : t[j] = s[j]
  OBVIOUS

\* A sequence given by its elements.
LEMMA Tabulated ==
    ASSUME NEW S, NEW n \in Nat, NEW s, DOMAIN s = 1 .. n, s = [i \in DOMAIN s |-> s[i]],
           \A i \in 1 .. n : s[i] \in S
    PROVE  s \in Seq(S) /\ Len(s) = n
<1>1. s \in [1 .. n -> S]
  OBVIOUS
<1> QED
  BY <1>1

\* push_back with room: the object in the caller's hand becomes the last.
LEMMA PushStep ==
    ASSUME KInv, op.do = "settle", op.then = "push", vec' = [vec EXCEPT ![1] = Pushed],
           hand' = 0, op' = Idle, UNCHANGED heapVars
    PROVE  KInv'
<1> DEFINE n == own.size + 1
<1>1. n \in DOMAIN own.slots /\ hand \in 1 .. HeapSize /\ allocated' = allocated /\ Headers'
  BY OwnFacts, KVectorAssumption DEF KInv, Pending, Due, heapVars, Headers
<1>2. PICK u : u = Pushed
  OBVIOUS
<1>3. n \in Nat /\ \A i \in DOMAIN own.slots : own.slots[i] = Raw <=> i >= n
  BY OwnFacts
<1>4. PICK s : s = [own.slots EXCEPT ![n] = hand] /\ u = [own EXCEPT !.slots = s, !.size = n]
  BY <1>2 DEF Pushed
<1> HIDE DEF n
<1>5. /\ s \in Seq(Raw .. HeapSize) /\ Len(s) = Len(own.slots) /\ DOMAIN s = DOMAIN own.slots
      /\ s[n] = hand /\ \A j \in DOMAIN own.slots \ {n} : s[j] = own.slots[j]
  <2>1. hand \in Raw .. HeapSize
    BY <1>1 DEF Raw
  <2> QED
    BY <1>1, <1>4, <2>1, OwnFacts, Replaced
<1>6. u \in Buffers /\ u.slots = s /\ u.size = n /\ u.begin = own.begin
  BY <1>3, <1>4, <1>5, OwnFacts DEF Buffers
<1>7. \A i \in DOMAIN s : s[i] = Raw <=> i > n
  <2>1. hand # Raw
    BY <1>1, KVectorAssumption DEF Raw
  <2>2. ASSUME NEW i \in DOMAIN own.slots, i # n PROVE s[i] = Raw <=> i > n
    <3>1. s[i] = own.slots[i] /\ i \in Nat
      BY <1>5, <2>2, OwnFacts
    <3>2. i >= n <=> i > n
      BY ONLY <1>3, <2>2, <3>1
    <3> QED
      BY <1>3, <3>1, <3>2
  <2>3. s[n] # Raw /\ ~(n > n)
    BY <1>3, <1>5, <2>1
  <2> QED
    BY <1>5, <2>2, <2>3
<1>8. /\ DOMAIN vec' = Vectors /\ \A v \in Vectors : Buffer(v)'
      /\ \A l \in Where : l # Hand /\ l \notin {1} \X DOMAIN own.slots => Held'[l] = Held[l]
      /\ \A i \in DOMAIN own.slots :
           <<1, i>> \in Where /\ Held[<<1, i>>] = own.slots[i] /\ Held'[<<1, i>>] = s[i]
      /\ Hand \in Where /\ Held[Hand] = hand /\ Held'[Hand] = hand'
  <2>1. u.size <= Len(u.slots) /\ vec' = [vec EXCEPT ![1] = u] /\ op'.do # "adopt"
    BY <1>1, <1>2, <1>5, <1>6, OwnFacts DEF Idle
  <2>2. /\ DOMAIN u.slots = DOMAIN own.slots /\ Len(u.slots) = Len(own.slots)
        /\ \A i \in DOMAIN u.slots : u.slots[i] = Raw <=> i > u.size
    BY <1>5, <1>6, <1>7
  <2>3. op.do # "adopt"
    OBVIOUS
  <2>4. u \in Buffers /\ u.begin = own.begin
    BY <1>6
  <2>5. /\ DOMAIN vec' = Vectors /\ \A v \in Vectors : Buffer(v)'
        /\ \A l \in Where : l # Hand /\ l \notin {1} \X DOMAIN own.slots => Held'[l] = Held[l]
        /\ \A i \in DOMAIN own.slots :
             <<1, i>> \in Where /\ Held[<<1, i>>] = own.slots[i] /\ Held'[<<1, i>>] = u.slots[i]
        /\ Hand \in Where /\ Held[Hand] = hand /\ Held'[Hand] = hand'
    BY <2>1, <2>2, <2>3, <2>4, OwnChanged
  <2> QED
    BY <1>6, <2>5
<1>9. Pending' /\ hand' \in 0 .. HeapSize
  BY KVectorAssumption DEF Pending, Idle
<1>10. \A l \in Where : Held[l] \in Int /\ Held'[l] \in Int
  BY <1>8, <1>9, HeldInt, HeldIntNext, HeldAllocated DEF Typed, Idle
<1>11. Owns(Held', DOMAIN allocated)
  <2> DEFINE y == <<1, n>>
  <2>1. y \in Where /\ y # Hand /\ Held'[y] = hand /\ Held[y] = Raw /\ Held'[Hand] = 0
    BY <1>1, <1>3, <1>5, <1>8, OwnFacts DEF Hand
  <2>2. ASSUME NEW l \in Where \ {Hand, y} PROVE Held'[l] = Held[l]
    <3>1. CASE l \in {1} \X DOMAIN own.slots
      BY <1>5, <1>8, <2>2, <3>1
    <3>2. CASE l \notin {1} \X DOMAIN own.slots
      BY <1>8, <3>2
    <3> QED
      BY <3>1, <3>2
  <2> HIDE DEF y
  <2>3. ~(Held[y] > 0) /\ ~(Held'[Hand] > 0) /\ Alike(Held'[y], Held[Hand]) /\ Hand \in Where
    BY <1>8, <2>1 DEF Raw, Alike
  <2>4. \A l \in Where \ {Hand, y} : Alike(Held'[l], Held[l])
    BY <2>2 DEF Alike
  <2> QED
    BY <1>10, <2>1, <2>3, <2>4, MovedOne, HeldAllocated DEF KInv
<1> QED
  BY <1>1, <1>8, <1>9, <1>11 DEF KInv

\* resize with room: null pointers behind the end.
LEMMA ResizeStep ==
    ASSUME KInv, op.do = "settle", op.then = "resize", vec' = [vec EXCEPT ![1] = Grown(op.n)],
           hand' = hand, op' = Idle, UNCHANGED heapVars
    PROVE  KInv'
<1> DEFINE n == op.n
<1>1. n \in Nat /\ own.size <= n /\ n <= Len(own.slots) /\ allocated' = allocated /\ Headers'
  BY OwnFacts DEF KInv, Pending, Due, heapVars, Headers
<1> HIDE DEF n
<1>2. PICK u : u = Grown(op.n)
  OBVIOUS
<1>3. PICK s : s = [i \in DOMAIN own.slots |-> IF i \in own.size + 1 .. n THEN 0 ELSE own.slots[i]]
  OBVIOUS
<1>4. u = [own EXCEPT !.slots = s, !.size = n]
  BY <1>2, <1>3 DEF Grown, n
<1>5. s \in Seq(Raw .. HeapSize) /\ Len(s) = Len(own.slots) /\ DOMAIN s = DOMAIN own.slots
  <2>1. \A i \in 1 .. Len(own.slots) : s[i] \in Raw .. HeapSize
    BY <1>3, OwnFacts, KVectorAssumption DEF Raw
  <2>2. DOMAIN s = 1 .. Len(own.slots) /\ s = [i \in DOMAIN s |-> s[i]]
    BY <1>3, OwnFacts
  <2>3. Len(own.slots) \in Nat /\ DOMAIN own.slots = 1 .. Len(own.slots)
    BY OwnFacts
  <2> QED
    BY ONLY <2>1, <2>2, <2>3, Tabulated
<1>6. u \in Buffers /\ u.slots = s /\ u.size = n /\ u.begin = own.begin
  BY <1>1, <1>4, <1>5, OwnFacts DEF Buffers
<1>7. \A i \in DOMAIN s : s[i] = Raw <=> i > n
  BY <1>1, <1>3, OwnFacts DEF Raw
<1>8. /\ DOMAIN vec' = Vectors /\ \A v \in Vectors : Buffer(v)'
      /\ \A l \in Where : l # Hand /\ l \notin {1} \X DOMAIN own.slots => Held'[l] = Held[l]
      /\ \A i \in DOMAIN own.slots :
           <<1, i>> \in Where /\ Held[<<1, i>>] = own.slots[i] /\ Held'[<<1, i>>] = s[i]
      /\ Hand \in Where /\ Held[Hand] = hand /\ Held'[Hand] = hand'
  <2>1. u.size <= Len(u.slots) /\ vec' = [vec EXCEPT ![1] = u] /\ op'.do # "adopt"
    BY <1>1, <1>2, <1>5, <1>6 DEF Idle
  <2>2. /\ DOMAIN u.slots = DOMAIN own.slots /\ Len(u.slots) = Len(own.slots)
        /\ \A i \in DOMAIN u.slots : u.slots[i] = Raw <=> i > u.size
    BY <1>5, <1>6, <1>7
  <2>3. u \in Buffers /\ u.begin = own.begin /\ op.do # "adopt"
    BY <1>6
  <2>4. /\ DOMAIN vec' = Vectors /\ \A v \in Vectors : Buffer(v)'
        /\ \A l \in Where : l # Hand /\ l \notin {1} \X DOMAIN own.slots => Held'[l] = Held[l]
        /\ \A i \in DOMAIN own.slots :
             <<1, i>> \in Where /\ Held[<<1, i>>] = own.slots[i] /\ Held'[<<1, i>>] = u.slots[i]
        /\ Hand \in Where /\ Held[Hand] = hand /\ Held'[Hand] = hand'
    BY <2>1, <2>2, <2>3, OwnChanged
  <2> QED
    BY <1>6, <2>4
<1>9. Pending' /\ hand' \in 0 .. HeapSize
  BY DEF Pending, Idle, KInv
<1>10. \A l \in Where : Held[l] \in Int /\ Held'[l] \in Int
  BY <1>8, <1>9, HeldInt, HeldIntNext, HeldAllocated DEF Typed, Idle
<1>11. ASSUME NEW l \in Where PROVE Alike(Held'[l], Held[l])
  <2>1. CASE l = Hand
    BY <1>8, <2>1 DEF Alike
  <2>2. ASSUME NEW i \in DOMAIN own.slots, l = <<1, i>> PROVE Alike(Held'[l], Held[l])
    <3>1. s[i] = own.slots[i] \/ (s[i] = 0 /\ own.slots[i] = Raw)
      BY <1>3, OwnFacts
    <3> QED
      BY <1>8, <2>2, <3>1 DEF Alike, Raw
  <2>3. CASE l # Hand /\ l \notin {1} \X DOMAIN own.slots
    BY <1>8, <2>3 DEF Alike
  <2> QED
    BY <2>1, <2>2, <2>3
<1>12. Owns(Held', DOMAIN allocated)
  BY <1>10, <1>11, Stayed, HeldAllocated DEF KInv
<1> QED
  BY <1>1, <1>8, <1>9, <1>12 DEF KInv

\* The last element is destroyed.
LEMMA DestroyStep ==
    ASSUME KInv, DestroyLast, op.do = "destroy", own.size > op.n, UNCHANGED <<hand, op>>
    PROVE  KInv'
<1> DEFINE n == own.size
           p == own.slots[n]
<1>1. n \in DOMAIN own.slots /\ n \in Nat \ {0} /\ p \in 0 .. HeapSize
  <2>1. n \in Nat \ {0} /\ n \in 1 .. Len(own.slots)
    BY OwnFacts DEF KInv, Pending
  <2>2. \A i \in DOMAIN own.slots :
          own.slots[i] \in Raw .. HeapSize /\ (own.slots[i] = Raw <=> i > own.size)
    BY OwnFacts
  <2>3. n \in DOMAIN own.slots /\ ~(n > own.size)
    BY <2>1, OwnFacts
  <2> QED
    BY <2>1, <2>2, <2>3, KVectorAssumption DEF Raw
<1>2. reset(p) /\ vec' = [vec EXCEPT ![1].slots[n] = Raw, ![1].size = @ - 1]
  BY DEF DestroyLast
<1>3. Headers' /\ DOMAIN allocated' = DOMAIN allocated \ {p - 1}
  <2>1. p # 0 => p - 1 \in DOMAIN allocated
    <3>1. \A i \in DOMAIN own.slots : own.slots[i] > 0 => own.slots[i] - 1 \in DOMAIN allocated
      BY HeldAllocated DEF own, Vectors
    <3> QED
      BY <1>1, <3>1, KVectorAssumption
  <2> QED
    BY <1>1, <1>2, <2>1, Returned
<1>4. \A i \in DOMAIN own.slots : own.slots[i] = Raw <=> i > n
  BY OwnFacts
<1> HIDE DEF n, p
<1>5. PICK s : s = [own.slots EXCEPT ![n] = Raw]
  OBVIOUS
<1>6. PICK u : u = [own EXCEPT !.slots = s, !.size = n - 1]
  OBVIOUS
<1>7. vec' = [vec EXCEPT ![1] = u]
  BY <1>2, <1>5, <1>6 DEF own, n, KInv, Vectors
<1>8. /\ s \in Seq(Raw .. HeapSize) /\ Len(s) = Len(own.slots) /\ DOMAIN s = DOMAIN own.slots
      /\ s[n] = Raw /\ \A j \in DOMAIN own.slots \ {n} : s[j] = own.slots[j]
  <2>1. Raw \in Raw .. HeapSize
    BY KVectorAssumption DEF Raw
  <2> QED
    BY <1>1, <1>5, <2>1, OwnFacts, Replaced
<1>9. u \in Buffers /\ u.slots = s /\ u.size = n - 1 /\ u.begin = own.begin
  <2>1. n - 1 \in Nat
    BY <1>1
  <2>2. own \in Buffers
    BY OwnFacts
  <2> QED
    BY <1>6, <1>8, <2>1, <2>2 DEF Buffers
<1>10. \A i \in DOMAIN s : s[i] = Raw <=> i > n - 1
  BY <1>1, <1>4, <1>8, OwnFacts
<1>11. /\ DOMAIN vec' = Vectors /\ \A v \in Vectors : Buffer(v)'
       /\ own' = u
       /\ \A l \in Where : l # Hand /\ l \notin {1} \X DOMAIN own.slots => Held'[l] = Held[l]
       /\ \A i \in DOMAIN own.slots :
            <<1, i>> \in Where /\ Held[<<1, i>>] = own.slots[i] /\ Held'[<<1, i>>] = s[i]
       /\ Hand \in Where /\ Held[Hand] = hand /\ Held'[Hand] = hand'
  <2>1. u.size <= Len(u.slots) /\ op.do # "adopt" /\ op'.do # "adopt"
    BY <1>1, <1>8, <1>9, OwnFacts
  <2>2. /\ DOMAIN u.slots = DOMAIN own.slots /\ Len(u.slots) = Len(own.slots)
        /\ \A i \in DOMAIN u.slots : u.slots[i] = Raw <=> i > u.size
    BY <1>8, <1>9, <1>10
  <2> QED
    BY <1>7, <1>9, <2>1, <2>2, OwnChanged
<1>12. Pending' /\ hand' \in 0 .. HeapSize
  <2>1. own'.begin = own.begin
    BY <1>9, <1>11
  <2> QED
    BY <2>1 DEF Pending, KInv
<1>13. \A l \in Where : Held[l] \in Int /\ Held'[l] \in Int
  BY <1>11, <1>12, HeldInt, HeldIntNext, HeldAllocated DEF Typed
<1>14. Owns(Held', DOMAIN allocated \ {p - 1})
  <2> DEFINE y == <<1, n>>
  <2>1. y \in Where /\ ~(Held'[y] > 0) /\ Held[y] = p
    BY <1>1, <1>8, <1>11 DEF Raw, p
  <2>2. ASSUME NEW l \in Where \ {y} PROVE Held'[l] = Held[l]
    <3>1. CASE l \in {1} \X DOMAIN own.slots
      BY <1>8, <1>11, <2>2, <3>1
    <3>2. CASE l = Hand
      BY <1>11, <3>2
    <3>3. CASE l # Hand /\ l \notin {1} \X DOMAIN own.slots
      BY <1>11, <3>3
    <3> QED
      BY <3>1, <3>2, <3>3
  <2> HIDE DEF y
  <2>3. \A l \in Where \ {y} : Alike(Held'[l], Held[l])
    BY <2>2 DEF Alike
  <2> QED
    BY <1>13, <2>1, <2>3, GaveUp, HeldAllocated DEF KInv
<1> QED
  BY <1>3, <1>11, <1>12, <1>14 DEF KInv

\* The storage is given back.
LEMMA ReleaseStep ==
    ASSUME KInv, Release
    PROVE  KInv'
<1>1. /\ op.do = "release" /\ kfree(own.begin) /\ vec' = [vec EXCEPT ![1] = EmptyVector]
      /\ op' = Idle /\ hand' = hand
  BY DEF Release, Doing
<1>2. own.size = 0 /\ own.begin # 0 /\ own.begin \in 0 .. HeapSize
  <2>1. own.size = 0 /\ own.begin # 0
    BY <1>1 DEF KInv, Pending
  <2> QED
    BY <2>1, OwnFacts
<1>3. \A i \in DOMAIN own.slots : own.slots[i] = Raw
  BY <1>2, OwnFacts
<1>4. Headers' /\ DOMAIN allocated' = DOMAIN allocated \ {own.begin - 1}
  BY <1>1, <1>2, Returned, HeldAllocated DEF reset, own, Vectors
<1>5. vec'[1] = EmptyVector /\ vec'[2] = vec[2] /\ DOMAIN vec' = Vectors
  BY <1>1 DEF KInv, Vectors
<1>6. Buffer(1)' /\ Buffer(2)'
  <2>1. EmptyVector \in Buffers
    BY KVectorAssumption DEF EmptyVector, Buffers
  <2>2. Buffer(1)'
    BY <1>5, <2>1 DEF Buffer, EmptyVector
  <2>3. Buffer(2)'
    BY <1>5 DEF Buffer, KInv, Vectors
  <2> QED
    BY <2>2, <2>3
<1>7. Pending' /\ hand' \in 0 .. HeapSize
  BY <1>1 DEF Pending, Idle, KInv
<1>8. \A l \in Where : Held[l] \in Int /\ Held'[l] \in Int
  BY <1>1, <1>5, <1>6, <1>7, HeldInt, HeldIntNext, HeldAllocated DEF Typed, Vectors, Idle
<1> DEFINE y == <<1, 0>>
<1>9. y \in Where /\ Held'[y] = 0 /\ Held[y] = own.begin
  BY <1>5 DEF Held, Where, EmptyVector, own
<1>10. ASSUME NEW v \in 0 .. 2, NEW i \in Nat, <<v, i>> # y
       PROVE  Alike(Held'[<<v, i>>], Held[<<v, i>>])
  <2>1. <<v, i>> \in Where
    BY DEF Where
  <2>2. CASE v = 0
    BY <1>1, <2>1, <2>2 DEF Held, Alike, Idle
  <2>3. CASE v = 1
    <3>1. Held'[<<v, i>>] = 0
      BY <1>5, <1>10, <2>1, <2>3 DEF Held, EmptyVector
    <3>2. Held[<<v, i>>] = Raw \/ Held[<<v, i>>] = 0
      BY <1>3, <1>10, <2>1, <2>3 DEF Held, own
    <3> QED
      BY <3>1, <3>2 DEF Alike, Raw
  <2>4. CASE v = 2
    BY <1>5, <2>1, <2>4 DEF Held, Alike
  <2> QED
    BY <2>2, <2>3, <2>4
<1>11. \A l \in Where \ {y} : Alike(Held'[l], Held[l])
  BY <1>10 DEF Where
<1> HIDE DEF y
<1>12. Owns(Held', DOMAIN allocated \ {own.begin - 1})
  <2>1. ~(Held'[y] > 0)
    BY <1>9
  <2> QED
    BY <1>8, <1>9, <1>11, <2>1, GaveUp, HeldAllocated DEF KInv
<1> QED
  BY <1>4, <1>5, <1>6, <1>7, <1>12 DEF KInv, Vectors

\* f moves the places i to n of the first vector in a cycle, and g back.
Cycle(f, g, i, n) ==
    /\ \A l, m \in Where : f[l] = f[m] => l = m
    /\ \A l \in Where : f[g[l]] = l
    /\ \A j \in i .. n - 1 : f[<<1, j>>] = <<1, j + 1>>
    /\ f[<<1, n>>] = <<1, i>>
    /\ \A v \in 0 .. 2, j \in Nat : ~(v = 1 /\ j \in i .. n) => f[<<v, j>>] = <<v, j>>

\* There are such functions.
LEMMA Cycled ==
    ASSUME NEW n \in Nat \ {0}, NEW i \in 1 .. n
    PROVE  \E f, g \in [Where -> Where] : Cycle(f, g, i, n)
<1>1. PICK F : F = [j \in Nat |-> IF j \in i .. n - 1 THEN j + 1 ELSE IF j = n THEN i ELSE j]
  OBVIOUS
<1>2. PICK G : G = [j \in Nat |-> IF j \in i + 1 .. n THEN j - 1 ELSE IF j = i THEN n ELSE j]
  OBVIOUS
<1>3. \A j \in Nat : F[j] \in Nat /\ G[j] \in Nat
  BY <1>1, <1>2
<1>4. \A j, k \in Nat : F[j] = F[k] => j = k
  BY <1>1
<1>5. ASSUME NEW j \in Nat PROVE F[G[j]] = j
  <2>1. CASE j \in i + 1 .. n
    <3>1. G[j] = j - 1 /\ j - 1 \in i .. n - 1 /\ j - 1 \in Nat
      BY <1>2, <2>1
    <3> QED
      BY <1>1, <3>1
  <2>2. CASE j = i
    <3>1. G[j] = n /\ n \notin i .. n - 1
      BY <1>2, <2>2
    <3> QED
      BY <1>1, <2>2, <3>1
  <2>3. CASE j \notin i .. n
    <3>1. G[j] = j
      BY <1>2, <2>3
    <3> QED
      BY <1>1, <2>3, <3>1
  <2> QED
    BY <2>1, <2>2, <2>3
<1>6. F[n] = i /\ (\A j \in i .. n - 1 : F[j] = j + 1) /\ \A j \in Nat : j \notin i .. n => F[j] = j
  <2>1. \A j \in i .. n - 1 : j \in Nat
    OBVIOUS
  <2> QED
    BY <1>1, <2>1
<1>7. PICK f : f = [l \in Where |-> IF l[1] = 1 THEN <<1, F[l[2]]>> ELSE l]
  OBVIOUS
<1>8. PICK g : g = [l \in Where |-> IF l[1] = 1 THEN <<1, G[l[2]]>> ELSE l]
  OBVIOUS
<1>9. \A l \in Where : /\ l[1] \in 0 .. 2 /\ l[2] \in Nat /\ l = <<l[1], l[2]>>
                       /\ \A j \in Nat : <<1, j>> \in Where
  BY DEF Where
<1>10. f \in [Where -> Where] /\ g \in [Where -> Where]
  BY <1>3, <1>7, <1>8, <1>9
<1>11. ASSUME NEW l \in Where, NEW m \in Where, f[l] = f[m] PROVE l = m
  <2>1. \A x \in Where : f[x][1] = x[1] /\ (x[1] = 1 => f[x][2] = F[x[2]]) /\ (x[1] # 1 => f[x] = x)
    BY <1>7
  <2>2. l[1] = m[1]
    <3>1. f[l][1] = l[1] /\ f[m][1] = m[1]
      BY <2>1
    <3> QED
      BY <1>11, <3>1
  <2>3. CASE l[1] = 1
    <3>1. f[l][2] = F[l[2]] /\ f[m][2] = F[m[2]]
      BY <2>1, <2>2, <2>3
    <3>2. l[2] = m[2]
      BY <1>4, <1>9, <1>11, <3>1
    <3> QED
      BY <1>9, <2>2, <3>2
  <2>4. CASE l[1] # 1
    BY <1>11, <2>1, <2>2, <2>4
  <2> QED
    BY <2>3, <2>4
<1>12. ASSUME NEW l \in Where PROVE f[g[l]] = l
  <2>1. CASE l[1] = 1
    <3>1. g[l] = <<1, G[l[2]]>> /\ g[l] \in Where
      BY <1>8, <1>10, <2>1
    <3>2. f[g[l]] = <<1, F[G[l[2]]]>>
      BY <1>7, <3>1
    <3> QED
      BY <1>5, <1>9, <2>1, <3>2
  <2>2. CASE l[1] # 1
    BY <1>7, <1>8, <2>2
  <2> QED
    BY <2>1, <2>2
<1>13. f[<<1, n>>] = <<1, i>> /\ \A j \in i .. n - 1 : f[<<1, j>>] = <<1, j + 1>>
  <2>1. <<1, n>> \in Where /\ \A j \in i .. n - 1 : <<1, j>> \in Where
    BY DEF Where
  <2> QED
    BY <1>6, <1>7, <2>1
<1>14. ASSUME NEW v \in 0 .. 2, NEW j \in Nat, ~(v = 1 /\ j \in i .. n) PROVE f[<<v, j>>] = <<v, j>>
  <2>1. <<v, j>> \in Where
    BY DEF Where
  <2> QED
    BY <1>6, <1>7, <1>14, <2>1
<1>15. Cycle(f, g, i, n)
  BY <1>11, <1>12, <1>13, <1>14 DEF Cycle
<1> QED
  BY <1>10, <1>15

\* An element is erased: those behind it move up.
LEMMA EraseStep ==
    ASSUME KInv, op = Idle, op' = Idle, hand' = hand, NEW i \in 1 .. own.size, reset(own.slots[i]),
           vec' = [vec EXCEPT ![1].slots = Shift([@ EXCEPT ![i] = Raw], own.size, i), ![1].size = @ - 1]
    PROVE  KInv'
<1> DEFINE n == own.size
           p == own.slots[i]
<1>1. n \in DOMAIN own.slots /\ i \in DOMAIN own.slots /\ n \in Nat \ {0} /\ i \in 1 .. n
  BY OwnFacts
<1>2. p \in 0 .. HeapSize
  <2>1. \A j \in DOMAIN own.slots :
          own.slots[j] \in Raw .. HeapSize /\ (own.slots[j] = Raw <=> j > own.size)
    BY OwnFacts
  <2>2. ~(i > n)
    BY <1>1
  <2> QED
    BY <1>1, <2>1, <2>2, KVectorAssumption DEF Raw
<1>3. Headers' /\ DOMAIN allocated' = DOMAIN allocated \ {p - 1}
  <2>1. p # 0 => p - 1 \in DOMAIN allocated
    <3>1. \A j \in DOMAIN own.slots : own.slots[j] > 0 => own.slots[j] - 1 \in DOMAIN allocated
      BY HeldAllocated DEF own, Vectors
    <3> QED
      BY <1>1, <1>2, <3>1, KVectorAssumption
  <2> QED
    BY <1>2, <2>1, Returned
<1>4. \A j \in DOMAIN own.slots : own.slots[j] = Raw <=> j > n
  BY OwnFacts
<1> HIDE DEF n, p
<1>5. PICK t : t = [own.slots EXCEPT ![i] = Raw]
  OBVIOUS
<1>6. /\ t \in Seq(Raw .. HeapSize) /\ Len(t) = Len(own.slots) /\ DOMAIN t = DOMAIN own.slots
      /\ t[i] = Raw /\ \A j \in DOMAIN own.slots \ {i} : t[j] = own.slots[j]
  <2>1. Raw \in Raw .. HeapSize
    BY KVectorAssumption DEF Raw
  <2> QED
    BY <1>1, <1>5, <2>1, OwnFacts, Replaced
<1>7. PICK s : s = Shift(t, n, i)
  OBVIOUS
<1>8. PICK u : u = [own EXCEPT !.slots = s, !.size = n - 1]
  OBVIOUS
<1>9. vec' = [vec EXCEPT ![1] = u]
  BY <1>5, <1>7, <1>8 DEF own, n, KInv, Vectors
<1>10. /\ DOMAIN s = DOMAIN own.slots /\ s = [j \in DOMAIN s |-> s[j]]
       /\ \A j \in DOMAIN own.slots :
            s[j] = IF j \in i .. n - 1 THEN own.slots[j + 1] ELSE IF j = n THEN Raw ELSE own.slots[j]
  <2>1. \A j \in i .. n - 1 : j + 1 \in DOMAIN own.slots \ {i}
    BY <1>1, OwnFacts
  <2>2. \A j \in DOMAIN own.slots : j \notin i .. n - 1 /\ j # n => j # i
    BY <1>1
  <2> QED
    BY <1>6, <1>7, <2>1, <2>2 DEF Shift
<1>11. s \in Seq(Raw .. HeapSize) /\ Len(s) = Len(own.slots)
  <2>1. \A j \in 1 .. Len(own.slots) : s[j] \in Raw .. HeapSize
    <3>1. \A j \in i .. n - 1 : j + 1 \in DOMAIN own.slots
      BY <1>1, OwnFacts
    <3>2. \A j \in DOMAIN own.slots : own.slots[j] \in Raw .. HeapSize
      BY OwnFacts
    <3>3. DOMAIN own.slots = 1 .. Len(own.slots) /\ Raw \in Raw .. HeapSize
      BY OwnFacts, KVectorAssumption DEF Raw
    <3> QED
      BY <1>10, <3>1, <3>2, <3>3
  <2>2. DOMAIN s = 1 .. Len(own.slots) /\ Len(own.slots) \in Nat
    BY <1>10, OwnFacts
  <2> QED
    BY <1>10, <2>1, <2>2, Tabulated
<1>12. u \in Buffers /\ u.slots = s /\ u.size = n - 1 /\ u.begin = own.begin
  <2>1. n - 1 \in Nat
    BY <1>1
  <2>2. own \in Buffers
    BY OwnFacts
  <2> QED
    BY <1>8, <1>11, <2>1, <2>2 DEF Buffers
<1>13. \A j \in DOMAIN s : s[j] = Raw <=> j > n - 1
  <2> SUFFICES ASSUME NEW j \in DOMAIN own.slots PROVE s[j] = Raw <=> j > n - 1
    BY <1>10
  <2>1. j \in Nat
    BY OwnFacts
  <2>2. CASE j \in i .. n - 1
    <3>1. j + 1 \in DOMAIN own.slots
      BY <1>1, <2>2, OwnFacts
    <3> QED
      BY <1>1, <1>4, <1>10, <2>2, <3>1
  <2>3. CASE j = n
    BY <1>1, <1>10, <2>3
  <2>4. CASE j \notin i .. n - 1 /\ j # n
    BY <1>1, <1>4, <1>10, <2>1, <2>4
  <2> QED
    BY <2>2, <2>3, <2>4
<1>14. /\ DOMAIN vec' = Vectors /\ \A v \in Vectors : Buffer(v)'
       /\ \A l \in Where : l # Hand /\ l \notin {1} \X DOMAIN own.slots => Held'[l] = Held[l]
       /\ \A j \in DOMAIN own.slots :
            <<1, j>> \in Where /\ Held[<<1, j>>] = own.slots[j] /\ Held'[<<1, j>>] = s[j]
       /\ Hand \in Where /\ Held[Hand] = hand /\ Held'[Hand] = hand'
  <2>1. u.size <= Len(u.slots) /\ op.do # "adopt" /\ op'.do # "adopt"
    BY <1>1, <1>11, <1>12, OwnFacts DEF Idle
  <2>2. /\ DOMAIN u.slots = DOMAIN own.slots /\ Len(u.slots) = Len(own.slots)
        /\ \A j \in DOMAIN u.slots : u.slots[j] = Raw <=> j > u.size
    BY <1>10, <1>11, <1>12, <1>13
  <2>3. vec' = [vec EXCEPT ![1] = u]
    BY <1>9
  <2>4. u.begin = own.begin /\ u \in Buffers
    BY <1>12
  <2>5. /\ DOMAIN vec' = Vectors /\ \A v \in Vectors : Buffer(v)'
        /\ \A l \in Where : l # Hand /\ l \notin {1} \X DOMAIN own.slots => Held'[l] = Held[l]
        /\ \A j \in DOMAIN own.slots :
             <<1, j>> \in Where /\ Held[<<1, j>>] = own.slots[j] /\ Held'[<<1, j>>] = u.slots[j]
        /\ Hand \in Where /\ Held[Hand] = hand /\ Held'[Hand] = hand'
    BY <2>1, <2>2, <2>3, <2>4, OwnChanged
  <2> QED
    BY <1>12, <2>5
<1>15. Pending' /\ hand' \in 0 .. HeapSize
  BY DEF Pending, Idle, KInv
<1>16. \A l \in Where : Held[l] \in Int /\ Held'[l] \in Int
  BY <1>14, <1>15, HeldInt, HeldIntNext, HeldAllocated DEF Typed, Idle
<1>17. Owns(Held', DOMAIN allocated \ {p - 1})
  <2> DEFINE y == <<1, i>>
  <2>1. PICK k : k = [l \in Where |-> IF l = y THEN 0 ELSE Held[l]]
    OBVIOUS
  <2>2. y \in Where /\ k[y] = 0 /\ Held[y] = p /\ \A l \in Where \ {y} : k[l] = Held[l]
    BY <1>1, <1>14, <2>1 DEF p
  <2>3. \A l \in Where : k[l] \in Int
    BY <1>16, <2>1
  <2>4. Owns(k, DOMAIN allocated \ {p - 1})
    <3> HIDE DEF y
    <3>1. \A l \in Where \ {y} : Alike(k[l], Held[l])
      BY <2>2 DEF Alike
    <3>2. ~(k[y] > 0)
      BY <2>2
    <3> QED
      BY <1>16, <2>2, <2>3, <3>1, <3>2, GaveUp, HeldAllocated DEF KInv
  <2>5. PICK f, g \in [Where -> Where] : Cycle(f, g, i, n)
    BY <1>1, Cycled
  <2>6. ASSUME NEW v \in 0 .. 2, NEW j \in Nat PROVE Alike(Held'[<<v, j>>], k[f[<<v, j>>]])
    <3>1. <<v, j>> \in Where
      BY DEF Where
    <3>2. CASE v = 1 /\ j \in i .. n - 1
      <4>1. f[<<v, j>>] = <<1, j + 1>> /\ <<1, j + 1>> # y
        BY <1>1, <2>5, <3>2 DEF Cycle
      <4>2. j \in DOMAIN own.slots /\ j + 1 \in DOMAIN own.slots
        BY <1>1, <3>2, OwnFacts
      <4>3. Held'[<<v, j>>] = own.slots[j + 1] /\ Held[<<1, j + 1>>] = own.slots[j + 1] /\ <<1, j + 1>> \in Where
        BY <1>10, <1>14, <3>2, <4>2
      <4>4. k[<<1, j + 1>>] = own.slots[j + 1]
        BY <2>2, <4>1, <4>3
      <4> QED
        BY <4>1, <4>3, <4>4 DEF Alike
    <3>3. CASE v = 1 /\ j = n
      <4>1. f[<<v, j>>] = y
        BY <2>5, <3>3 DEF Cycle
      <4>2. Held'[<<v, j>>] = Raw
        BY <1>1, <1>10, <1>14, <3>3
      <4> QED
        BY <2>2, <4>1, <4>2 DEF Alike, Raw
    <3>4. CASE ~(v = 1 /\ j \in i .. n)
      <4>1. f[<<v, j>>] = <<v, j>> /\ <<v, j>> # y
        BY <1>1, <2>5, <3>4 DEF Cycle
      <4>2. k[<<v, j>>] = Held[<<v, j>>]
        BY <2>2, <3>1, <4>1
      <4>3. Held'[<<v, j>>] = Held[<<v, j>>]
        <5>1. CASE v = 1 /\ j \in DOMAIN own.slots
          <6>1. s[j] = own.slots[j]
            BY <1>1, <1>10, <3>4, <5>1
          <6> QED
            BY <1>14, <5>1, <6>1
        <5>2. CASE <<v, j>> = Hand
          BY <1>14, <5>2
        <5>3. CASE <<v, j>> # Hand /\ <<v, j>> \notin {1} \X DOMAIN own.slots
          BY <1>14, <3>1, <5>3
        <5> QED
          BY <5>1, <5>2, <5>3
      <4> QED
        BY <4>1, <4>2, <4>3 DEF Alike
    <3>5. v = 1 /\ j \in i .. n => j \in i .. n - 1 \/ j = n
      BY <1>1
    <3> QED
      BY <3>2, <3>3, <3>4, <3>5
  <2>7. \A l \in Where : Alike(Held'[l], k[f[l]])
    BY ONLY <2>6 DEF Where
  <2>8. DOMAIN allocated \ {p - 1} \in SUBSET Nat
    BY HeldAllocated
  <2> QED
    BY <1>16, <2>3, <2>4, <2>5, <2>7, <2>8, Moved DEF Cycle
<1> QED
  BY <1>3, <1>14, <1>15, <1>17 DEF KInv

\* Where an operation begins, and makes sure of the room for n elements.
LEMMA RoomStep ==
    ASSUME KInv, op = Idle, NEW n \in Nat, NEW then \in {"push", "resize", "nothing"},
           then = "push" => n = own.size + 1 /\ hand # 0, then = "resize" => own.size <= n,
           NEW room \in Nat \ {0}, n <= room, own.size <= room,
           op' = IF n > capacity THEN [do |-> "grow", room |-> room, n |-> n, then |-> then]
                 ELSE [do |-> "settle", n |-> n, then |-> then],
           UNCHANGED <<heapVars, vec, hand>>
    PROVE  KInv'
<1>1. own' = own /\ capacity' = capacity /\ capacity \in Nat
  BY OwnFacts DEF own, capacity
<1>2. CASE n > capacity
  <2>1. /\ op'.do = "grow" /\ op'.room = room /\ op'.n = n /\ op'.then = then
    BY <1>2
  <2>2. Pending'
    BY <1>1, <2>1 DEF Pending, Due
  <2> QED
    BY <2>1, <2>2, OpStep DEF Idle, heapVars
<1>3. CASE n <= capacity
  <2>1. op'.do = "settle" /\ op'.n = n /\ op'.then = then
    BY <1>1, <1>3
  <2>2. Pending'
    BY <1>1, <1>3, <2>1 DEF Pending, Due
  <2> QED
    BY <2>1, <2>2, OpStep DEF Idle, heapVars
<1> QED
  BY <1>1, <1>2, <1>3

\* ensure_room asks for enough.
LEMMA RoomEnough ==
    ASSUME KInv, NEW n \in Nat \ {0}
    PROVE  Room(n) \in Nat \ {0} /\ n <= Room(n) /\ own.size <= Room(n)
<1>1. capacity \in Nat /\ own.size \in Nat /\ own.size <= capacity /\ FirstRoom \in Nat \ {0}
  BY OwnFacts, KVectorAssumption
<1> QED
  BY <1>1 DEF Room

\* The operation ends, with the room that it needs.
LEMMA SettleStep ==
    ASSUME KInv, Settle
    PROVE  KInv'
<1>1. op.do = "settle" /\ op' = Idle /\ UNCHANGED heapVars /\ op.then \in {"push", "resize", "nothing"}
  BY DEF Settle, Doing, KInv, Pending, Due
<1>2. CASE op.then = "push"
  BY <1>1, <1>2, PushStep DEF Settle
<1>3. CASE op.then = "resize"
  BY <1>1, <1>3, ResizeStep DEF Settle
<1>4. CASE op.then = "nothing"
  <2>1. vec' = [vec EXCEPT ![1] = own] /\ hand' = hand
    BY <1>4 DEF Settle
  <2>2. DOMAIN vec' = Vectors /\ \A v \in Vectors : vec'[v] = vec[v]
    BY <2>1 DEF KInv, Vectors, own
  <2>3. Pending' /\ Headers' /\ allocated' = allocated
    BY <1>1 DEF Pending, Idle, KInv, Headers, heapVars
  <2>4. \A v \in Vectors : Buffer(v)'
    BY <2>2 DEF KInv, Buffer
  <2>5. \A l \in Where : Held[l] \in Int /\ l[1] \in 0 .. 2
    BY HeldInt, HeldAllocated DEF Where
  <2>6. \A l \in Where : Held'[l] = Held[l]
    BY <1>1, <2>1, <2>2, <2>5 DEF Held, Idle, Vectors
  <2>7. Owns(Held', DOMAIN allocated)
    BY <2>5, <2>6 DEF KInv, Owns
  <2> QED
    BY <2>1, <2>2, <2>3, <2>4, <2>7 DEF KInv
<1> QED
  BY <1>1, <1>2, <1>3, <1>4

\* The destruction of elements ends.
LEMMA DestroyRangeStep ==
    ASSUME KInv, DestroyRange
    PROVE  KInv'
<1>1. op.do = "destroy" /\ op.n \in Nat /\ op.release \in BOOLEAN /\ (op.release => op.n = 0 /\ own.begin # 0)
  BY DEF DestroyRange, Doing, KInv, Pending
<1>2. CASE own.size > op.n
  BY <1>1, <1>2, DestroyStep DEF DestroyRange
<1>3. CASE ~(own.size > op.n)
  <2>1. op' = (IF op.release THEN [do |-> "release"] ELSE Idle) /\ UNCHANGED <<heapVars, vec, hand>>
    BY <1>3 DEF DestroyRange
  <2>2. own' = own /\ own.size \in Nat
    BY <2>1, OwnFacts DEF own
  <2>3. Pending' /\ op'.do # "adopt"
    BY <1>1, <1>3, <2>1, <2>2 DEF Pending, Idle
  <2> QED
    BY <1>1, <2>1, <2>3, OpStep DEF heapVars
<1> QED
  BY <1>2, <1>3

\* The operations begin with the decision what to do.
LEMMA BeginStep ==
    ASSUME KInv, push_back \/ clear \/ \E n \in 0 .. MaxRoom : resize(n) \/ reserve(n)
    PROVE  KInv'
<1>1. own.size \in Nat /\ capacity \in Nat /\ own.size <= capacity /\ MaxRoom \in Nat
  BY OwnFacts, KVectorAssumption
<1>2. CASE push_back
  <2>1. op = Idle /\ hand # 0 /\ ensure_room(own.size + 1, "push") /\ UNCHANGED <<heapVars, vec, hand>>
    BY <1>2 DEF push_back, Ready
  <2>2. own.size + 1 \in Nat \ {0} /\ own.size + 1 \in Nat
    BY <1>1
  <2>3. Room(own.size + 1) \in Nat \ {0} /\ own.size + 1 <= Room(own.size + 1) /\ own.size <= Room(own.size + 1)
    BY <2>2, RoomEnough
  <2> QED
    BY <2>1, <2>2, <2>3, RoomStep DEF ensure_room
<1>3. CASE clear
  <2>1. /\ op = Idle /\ own.begin # 0 /\ UNCHANGED <<heapVars, vec, hand>>
        /\ op' = [do |-> "destroy", n |-> 0, release |-> TRUE]
    BY <1>3 DEF clear, Ready
  <2>2. own'.begin # 0 /\ op'.n = 0 /\ op'.do = "destroy" /\ op'.release
    BY <2>1 DEF own
  <2>3. op'.release \in BOOLEAN
    BY <2>1
  <2>4. Pending'
    BY <2>2, <2>3 DEF Pending
  <2> QED
    BY <2>1, <2>4, OpStep DEF Idle, heapVars
<1>4. ASSUME NEW n \in 0 .. MaxRoom, resize(n) PROVE KInv'
  <2>1. op = Idle /\ n \in Nat /\ UNCHANGED <<heapVars, vec, hand>>
    BY <1>1, <1>4 DEF resize, Ready
  <2>2. CASE n <= own.size
    <3>1. op'.do = "destroy" /\ op'.n = n /\ op'.release = FALSE
      BY <1>4, <2>2 DEF resize
    <3>2. Pending'
      BY <2>1, <3>1 DEF Pending, own
    <3> QED
      BY <2>1, <3>1, <3>2, OpStep DEF Idle, heapVars
  <2>3. CASE ~(n <= own.size)
    <3>1. ensure_room(n, "resize") /\ n \in Nat \ {0} /\ own.size <= n
      BY <1>1, <1>4, <2>1, <2>3 DEF resize
    <3>2. Room(n) \in Nat \ {0} /\ n <= Room(n) /\ own.size <= Room(n)
      BY <3>1, RoomEnough
    <3> QED
      BY <2>1, <3>1, <3>2, RoomStep DEF ensure_room
  <2> QED
    BY <2>2, <2>3
<1>5. ASSUME NEW n \in 0 .. MaxRoom, reserve(n) PROVE KInv'
  <2>1. /\ op = Idle /\ n \in Nat /\ n > capacity /\ UNCHANGED <<heapVars, vec, hand>>
        /\ op' = [do |-> "grow", room |-> n, n |-> n, then |-> "nothing"]
    BY <1>1, <1>5 DEF reserve, Ready
  <2>2. n \in Nat \ {0} /\ n <= n /\ own.size <= n
    BY <1>1, <2>1
  <2> QED
    BY <2>1, <2>2, RoomStep
<1> QED
  BY <1>2, <1>3, <1>4, <1>5

\* pop_back is an erase, of nothing when there is nothing.
LEMMA EraseAny ==
    ASSUME KInv, pop_back \/ \E i \in 1 .. own.size : erase(i)
    PROVE  KInv'
<1>1. PICK i \in 1 .. own.size : erase(i)
  BY DEF pop_back, erase
<1> QED
  BY <1>1, EraseStep DEF erase, Ready

\* The invariant holds after every step ...
LEMMA VectorStep ==
    ASSUME KInv, [KNext]_kvars
    PROVE  KInv'
<1>1. CASE UNCHANGED kvars
  <2>1. UNCHANGED <<free, allocated, header, vec, hand, op>>
    BY <1>1 DEF kvars
  <2>2. (\A l \in Where : Held'[l] = Held[l]) /\ \A l \in Where : Held[l] \in Int
    BY <2>1, SameHeld, HeldInt, HeldAllocated
  <2>3. Owns(Held', DOMAIN allocated)
    BY <2>2 DEF KInv, Owns
  <2> QED
    BY <2>1, <2>3 DEF KInv, Headers, Buffer, Pending, Due, own, capacity
<1>2. CASE knew
  BY <1>2, NewStep, FailStep DEF knew, Ready
<1>3. CASE Drop
  BY <1>3, DropStep DEF Drop, Ready
<1>4. CASE MoveAssign
  BY <1>4, MoveStep
<1>5. CASE Grow
  BY <1>5, GrowStep, FailStep DEF Grow, Doing
<1>6. CASE Adopt \/ Settle \/ DestroyRange \/ Release
  BY <1>6, AdoptStep, SettleStep, DestroyRangeStep, ReleaseStep
<1>7. CASE push_back \/ clear \/ \E n \in 0 .. MaxRoom : resize(n) \/ reserve(n)
  BY <1>7, BeginStep
<1>8. CASE pop_back \/ \E i \in 1 .. own.size : erase(i)
  BY <1>8, EraseAny
<1> QED
  BY <1>1, <1>2, <1>3, <1>4, <1>5, <1>6, <1>7, <1>8 DEF KNext, KStep

\* ... and at the start.
LEMMA VectorInit ==
    ASSUME KInit
    PROVE  KInv
<1>1. /\ allocated = [x \in {} |-> 0] /\ header = [a \in {} |-> 0] /\ hand = 0 /\ op = Idle
      /\ vec = [v \in Vectors |-> EmptyVector]
  BY DEF KInit, Heap!Init
<1>2. DOMAIN allocated = {} /\ Headers
  BY <1>1 DEF Headers
<1>3. EmptyVector \in Buffers
  BY KVectorAssumption DEF EmptyVector, Buffers
<1>4. \A v \in Vectors : Buffer(v)
  BY <1>1, <1>3 DEF Buffer, EmptyVector
<1>5. Pending /\ hand \in 0 .. HeapSize
  BY <1>1, KVectorAssumption DEF Pending, Idle
<1>6. ASSUME NEW l \in Where PROVE Held[l] = 0
  <2>1. l[1] \in 0 .. 2 /\ l[2] \in Nat
    BY DEF Where
  <2>2. CASE l[1] = 0
    BY <1>1, <2>2 DEF Held, Idle
  <2>3. CASE l[1] # 0
    <3>1. vec[l[1]] = EmptyVector
      BY <1>1, <2>1, <2>3 DEF Vectors
    <3> QED
      BY <2>3, <3>1 DEF Held, EmptyVector
  <2> QED
    BY <2>2, <2>3
<1>7. Owns(Held, DOMAIN allocated)
  BY <1>2, <1>6 DEF Owns
<1> QED
  BY <1>1, <1>2, <1>4, <1>5, <1>7 DEF KInv

-------------------------------------------------------------------------------
(* What follows.                                                           *)

\* Each block is storage or has one owner, and no place owns what it should
\* not.
LEMMA OneOwner == KInv => OwnedOnce
<1> SUFFICES ASSUME KInv PROVE OwnedOnce
  OBVIOUS
<1>1. /\ \A l \in Where : Held[l] > 0 => Held[l] - 1 \in DOMAIN allocated
      /\ \A l, m \in Where : Held[l] > 0 /\ Held[l] = Held[m] => l = m
      /\ \A a \in DOMAIN allocated : \E l \in Where : Held[l] = a + 1
  BY DEF KInv, Owns
<1>2. Typed /\ DOMAIN allocated \in SUBSET Nat /\ \A l \in Where : Held[l] \in Int
  BY HeldAllocated, HeldInt
<1>3. Hand \in Where /\ New \in Where /\ \A v \in Vectors, i \in Nat : <<v, i>> \in Where
  BY DEF Where, Hand, New, Vectors
<1>4. \A v \in Vectors : /\ vec[v].slots \in Seq(Raw .. HeapSize)
                         /\ DOMAIN vec[v].slots \in SUBSET (Nat \ {0})
                         /\ DOMAIN vec[v].slots = 1 .. Len(vec[v].slots)
  BY <1>2 DEF Typed, Buffer, Buffers
<1>5. \A v \in Vectors : \A i \in DOMAIN vec[v].slots :
        Held[<<v, i>>] = vec[v].slots[i] /\ <<v, i>> \in Where
  BY <1>3, <1>4, HeldThere
<1>6. ASSUME NEW a \in DOMAIN allocated PROVE a + 1 \in Storage \/ Owners(a + 1) = 1
  <2> DEFINE p == a + 1
             O == {w \in Places : vec[w[1]].slots[w[2]] = p}
  <2>1. p > 0 /\ p \in Nat
    BY <1>2
  <2>2. PICK l \in Where : Held[l] = p
    BY <1>1
  <2>3. \A w \in Places : w \in Where /\ Held[w] = vec[w[1]].slots[w[2]]
    BY <1>5 DEF Places
  <2> HIDE DEF p
  <2>4. O \in SUBSET {l}
    BY <1>1, <2>1, <2>2, <2>3
  <2>5. Owners(p) = Cardinality(O) + IF hand = p THEN 1 ELSE 0
    BY DEF Owners
  <2>6. CASE l = Hand
    <3>1. hand = p
      BY <2>2, <2>6, HeldThere
    <3>2. Hand \notin Places
      BY DEF Hand, Places, Vectors
    <3>3. O = {}
      BY <2>4, <2>6, <3>2
    <3>4. Cardinality(O) = 0
      BY <3>3, FS_EmptySet
    <3> QED
      BY <2>5, <3>1, <3>4 DEF p
  <2>7. CASE l = New
    <3>1. op.do = "adopt" /\ op.at = p
      BY <2>1, <2>2, <2>7, HeldThere
    <3> QED
      BY <3>1 DEF Storage, p
  <2>8. CASE l[1] = 0 /\ l # Hand /\ l # New
    <3>1. l[2] # 0 /\ l[2] # 1
      BY <2>8 DEF Where, Hand, New
    <3>2. Held[l] = 0
      BY <2>8, <3>1 DEF Held
    <3> QED
      BY <2>1, <2>2, <3>2
  <2>9. ASSUME NEW v \in Vectors, l = <<v, 0>> PROVE p \in Storage
    <3>1. vec[v].begin = p
      BY <2>2, <2>9, HeldThere
    <3> QED
      BY <3>1 DEF Storage
  <2>10. ASSUME NEW v \in Vectors, NEW i \in Nat \ {0}, l = <<v, i>> PROVE Owners(p) = 1
    <3>1. i \in DOMAIN vec[v].slots /\ vec[v].slots[i] = p
      BY <2>1, <2>2, <2>10, HeldThere
    <3>2. l \in O
      BY <2>10, <3>1 DEF Places
    <3>3. O = {l}
      BY <2>4, <3>2
    <3>4. Cardinality(O) = 1
      BY <3>3, FS_Singleton
    <3>5. hand # p
      <4>1. Hand # l
        BY <2>10 DEF Hand, Vectors
      <4>2. Held[Hand] = hand
        BY HeldThere
      <4> QED
        BY <1>1, <1>3, <2>1, <2>2, <4>1, <4>2
    <3> QED
      BY <2>5, <3>4, <3>5
  <2>11. l = <<l[1], l[2]>> /\ l[1] \in 0 .. 2 /\ l[2] \in Nat
    BY DEF Where
  <2>12. CASE l[1] \in Vectors
    <3>1. l[2] = 0 \/ l[2] \in Nat \ {0}
      BY <2>11
    <3> QED
      BY <2>9, <2>10, <2>11, <2>12, <3>1 DEF p
  <2>13. l[1] = 0 \/ l[1] \in Vectors
    BY <2>11 DEF Vectors
  <2> QED
    BY <2>6, <2>7, <2>8, <2>12, <2>13
<1>7. ASSUME NEW v \in Vectors, NEW i \in 1 .. Len(vec[v].slots), vec[v].slots[i] \notin {0, Raw}
      PROVE  /\ i <= vec[v].size /\ vec[v].slots[i] - 1 \in DOMAIN allocated
             /\ vec[v].slots[i] \notin Storage
  <2> DEFINE p == vec[v].slots[i]
  <2>1. i \in DOMAIN vec[v].slots
    BY <1>4
  <2>2. p \in Raw .. HeapSize /\ p > 0
    <3>1. \A S : \A s \in Seq(S) : \A j \in DOMAIN s : s[j] \in S
      OBVIOUS
    <3>2. p \in Raw .. HeapSize
      BY ONLY <1>4, <2>1, <3>1
    <3> QED
      BY <1>7, <3>2, KVectorAssumption DEF Raw
  <2>3. i <= vec[v].size
    <3>1. vec[v].size \in Nat /\ (vec[v].slots[i] = Raw <=> i > vec[v].size)
      BY <1>2, <2>1 DEF Typed, Buffer, Buffers
    <3> QED
      BY <1>7, <3>1
  <2>4. Held[<<v, i>>] = p /\ <<v, i>> \in Where
    BY <1>5, <2>1
  <2> HIDE DEF p
  <2>5. p - 1 \in DOMAIN allocated
    BY <1>1, <2>2, <2>4
  <2>6. ASSUME NEW w \in Vectors, vec[w].begin = p PROVE FALSE
    <3>1. Held[<<w, 0>>] = p /\ <<w, 0>> \in Where /\ <<w, 0>> # <<v, i>>
      BY <1>3, <2>6, HeldThere
    <3> QED
      BY <1>1, <2>2, <2>4, <3>1
  <2>7. ASSUME op.do = "adopt", op.at = p PROVE FALSE
    <3>1. Held[New] = p /\ New # <<v, i>>
      BY <2>7, HeldThere DEF New, Vectors
    <3> QED
      BY <1>1, <1>3, <2>2, <2>4, <3>1
  <2> QED
    BY <2>3, <2>5, <2>6, <2>7 DEF Storage, p
<1> QED
  BY <1>6, <1>7 DEF OwnedOnce

\* With nothing in hand and both vectors cleared, nothing is allocated.
LEMMA NothingHeld ==
    ASSUME KInv, hand = 0, op = Idle, \A v \in Vectors : vec[v].begin = 0
    PROVE  DOMAIN allocated = {}
<1>1. ASSUME NEW l \in Where PROVE Held[l] = 0
  <2>1. l[1] \in 0 .. 2
    BY DEF Where
  <2>2. CASE l[1] = 0
    BY <2>2 DEF Held, Idle
  <2>3. CASE l[1] # 0
    <3>1. vec[l[1]].slots = <<>> /\ vec[l[1]].begin = 0
      BY <2>1, <2>3 DEF KInv, Buffer, Vectors
    <3> QED
      BY <2>3, <3>1 DEF Held
  <2> QED
    BY <2>2, <2>3
<1>2. DOMAIN allocated \in SUBSET Nat /\ \A a \in DOMAIN allocated : \E l \in Where : Held[l] = a + 1
  BY HeldAllocated DEF KInv, Owns
<1>3. ASSUME NEW a \in DOMAIN allocated PROVE FALSE
  <2>1. a \in Nat /\ a + 1 = 0
    BY <1>1, <1>2
  <2> QED
    BY <2>1
<1> QED
  BY <1>3

-------------------------------------------------------------------------------
(* The steps of the heap.                                                  *)

\* Requests of every size.
AnyHeap == INSTANCE SimpleHeap WITH Sizes <- Nat \ {0}

\* A request of so many bytes is for one unit or more.
LEMMA UnitsPositive ==
    ASSUME NEW bytes \in Nat
    PROVE  BlockUnits(bytes) \in Nat \ {0}
<1>1. ((bytes + 16) + 16 - 1) \div 16 \in Nat \ {0}
  OBVIOUS
<1>2. \A q \in Nat : (q * 16) \div 16 = q
  OBVIOUS
<1> QED
  BY <1>1, <1>2 DEF BlockUnits, round_up

\* What default_heap asks of the heap is a request.
LEMMA AllocOnly ==
    ASSUME NEW bytes \in Nat, NEW p, kalloc(bytes, p) \/ kalloc_fails(bytes)
    PROVE  AnyHeap!Next
<1>1. BlockUnits(bytes) \in Nat \ {0}
  BY UnitsPositive
<1>2. CASE kalloc(bytes, p)
  <2>1. Heap!Alloc(BlockUnits(bytes))
    BY <1>2 DEF kalloc
  <2>2. AnyHeap!Alloc(BlockUnits(bytes))
    BY <2>1 DEF Heap!Alloc, Heap!FirstFit, Heap!TakeFront, Heap!With, Heap!Without, Heap!A!With, Heap!A!Without,
                AnyHeap!Alloc, AnyHeap!FirstFit, AnyHeap!TakeFront, AnyHeap!With, AnyHeap!Without,
                AnyHeap!A!With, AnyHeap!A!Without
  <2> QED
    BY <1>1, <2>2 DEF AnyHeap!Next
<1>3. CASE kalloc_fails(bytes)
  <2>1. AnyHeap!AllocFails(BlockUnits(bytes))
    BY <1>3 DEF kalloc_fails, Heap!AllocFails, AnyHeap!AllocFails
  <2> QED
    BY <1>1, <2>1 DEF AnyHeap!Next
<1> QED
  BY <1>2, <1>3

\* What it gives back is a block that the heap gave.
LEMMA FreeOnly ==
    ASSUME KInv, status = "live", NEW p \in 0 .. HeapSize, p # 0 => p - 1 \in DOMAIN allocated, reset(p)
    PROVE  [AnyHeap!Next]_AnyHeap!vars
<1>1. CASE p = 0
  BY <1>1 DEF reset, heapVars, AnyHeap!vars
<1>2. CASE p # 0
  <2>1. header = allocated /\ p - 1 \in DOMAIN allocated
    BY <1>2 DEF KInv, Headers
  <2>2. /\ free' = Heap!InsertFree(free, p - 1, allocated[p - 1])
        /\ allocated' = Heap!Without(allocated, {p - 1}) /\ status' = status
    BY <1>2, <2>1 DEF reset, kfree
  <2>3. AnyHeap!Free(p - 1)
    BY <2>1, <2>2
       DEF Heap!InsertFree, Heap!Coalesce, Heap!RunEnd, Heap!EndsRun, Heap!Prev, Heap!IsHead, Heap!With,
           Heap!Without, Heap!A!With, Heap!A!Without, AnyHeap!Free,
           AnyHeap!InsertFree, AnyHeap!Coalesce, AnyHeap!RunEnd, AnyHeap!EndsRun, AnyHeap!Prev, AnyHeap!IsHead,
           AnyHeap!With, AnyHeap!Without, AnyHeap!A!With, AnyHeap!A!Without
  <2> QED
    BY <2>1, <2>3 DEF AnyHeap!Next
<1> QED
  BY <1>1, <1>2

\* Every step leaves the heap alone or is one that the heap allows.
LEMMA HeapStep ==
    ASSUME KInv, [KNext]_kvars
    PROVE  [AnyHeap!Next]_AnyHeap!vars
<1>1. CASE UNCHANGED heapVars
  BY <1>1 DEF heapVars, AnyHeap!vars
<1>2. CASE UNCHANGED kvars
  BY <1>2 DEF kvars, AnyHeap!vars
<1>3. CASE knew
  BY <1>3, AllocOnly, KVectorAssumption DEF knew
<1>4. CASE Drop
  BY <1>4, FreeOnly, HeldAllocated DEF Drop, Ready, Typed
<1>5. CASE Grow
  <2>1. PointerBytes * op.room \in Nat
    BY <1>5 DEF Grow, Doing, KInv, Pending, PointerBytes
  <2> QED
    BY <1>5, <2>1, AllocOnly DEF Grow
<1>6. own.begin \in 0 .. HeapSize /\ (own.begin # 0 => own.begin - 1 \in DOMAIN allocated)
  BY OwnFacts, HeldAllocated DEF own, Vectors
<1>7. ASSUME NEW i \in 1 .. own.size
      PROVE  /\ own.slots[i] \in 0 .. HeapSize
             /\ own.slots[i] # 0 => own.slots[i] - 1 \in DOMAIN allocated
  <2>1. i \in DOMAIN own.slots /\ ~(i > own.size)
    BY OwnFacts
  <2>2. \A j \in DOMAIN own.slots :
          own.slots[j] \in Raw .. HeapSize /\ (own.slots[j] = Raw <=> j > own.size)
    BY OwnFacts
  <2>3. own.slots[i] \in 0 .. HeapSize
    BY <2>1, <2>2, KVectorAssumption DEF Raw
  <2>4. \A j \in DOMAIN own.slots : own.slots[j] > 0 => own.slots[j] - 1 \in DOMAIN allocated
    BY HeldAllocated DEF own, Vectors
  <2> QED
    BY <2>1, <2>3, <2>4, KVectorAssumption
<1>8. CASE Adopt
  BY <1>6, <1>8, FreeOnly DEF Adopt, Doing
<1>9. CASE Release
  <2>1. kfree(own.begin) /\ own.begin # 0 /\ status = "live"
    BY <1>9 DEF Release, Doing, KInv, Pending
  <2> QED
    BY <1>6, <2>1, FreeOnly DEF reset
<1>10. CASE DestroyRange
  <2>1. CASE own.size > op.n
    <3>1. own.size \in 1 .. own.size
      BY <1>10, <2>1, OwnFacts DEF DestroyRange, Doing, KInv, Pending
    <3>2. reset(own.slots[own.size]) /\ status = "live"
      BY <1>10, <2>1 DEF DestroyRange, DestroyLast, Doing
    <3> QED
      BY <1>7, <3>1, <3>2, FreeOnly
  <2>2. CASE ~(own.size > op.n)
    BY <1>1, <1>10, <2>2 DEF DestroyRange
  <2> QED
    BY <2>1, <2>2
<1>11. CASE pop_back \/ \E i \in 1 .. own.size : erase(i)
  <2>1. PICK i \in 1 .. own.size : erase(i)
    BY <1>11 DEF pop_back, erase
  <2> QED
    BY <1>7, <2>1, FreeOnly DEF erase, Ready
<1>12. CASE MoveAssign \/ Settle \/ push_back \/ clear
  BY <1>1, <1>12 DEF MoveAssign, Settle, push_back, clear
<1>13. CASE \E n \in 0 .. MaxRoom : resize(n) \/ reserve(n)
  BY <1>1, <1>13 DEF resize, reserve
<1> QED
  BY <1>2, <1>3, <1>4, <1>5, <1>8, <1>9, <1>10, <1>11, <1>12, <1>13 DEF KNext, KStep

-------------------------------------------------------------------------------
(* The order of the elements.                                              *)

\* The elements up to the end.
LEMMA ContentsAre ==
    KInv => \A v \in Vectors :
              /\ vec[v].size \in Nat /\ Contents(v) \in Seq(Raw .. HeapSize)
              /\ Len(Contents(v)) = vec[v].size
              /\ \A i \in 1 .. vec[v].size : Contents(v)[i] = vec[v].slots[i]
<1> SUFFICES ASSUME KInv, NEW v \in Vectors
             PROVE  /\ vec[v].size \in Nat /\ Contents(v) \in Seq(Raw .. HeapSize)
                    /\ Len(Contents(v)) = vec[v].size
                    /\ \A i \in 1 .. vec[v].size : Contents(v)[i] = vec[v].slots[i]
  OBVIOUS
<1>1. vec[v].slots \in Seq(Raw .. HeapSize) /\ vec[v].size \in 0 .. Len(vec[v].slots)
  BY DEF KInv, Buffer, Buffers
<1>2. \A q \in Seq(Raw .. HeapSize) : \A j \in 0 .. Len(q) :
        /\ SubSeq(q, 1, j) \in Seq(Raw .. HeapSize) /\ Len(SubSeq(q, 1, j)) = j
        /\ \A i \in 1 .. j : SubSeq(q, 1, j)[i] = q[i]
  BY Beginning
<1>3. vec[v].size \in Nat
  BY <1>1
<1> QED
  BY <1>1, <1>2, <1>3 DEF Contents

\* The same after a step.
LEMMA ContentsAreNext ==
    KInv' => \A v \in Vectors :
               /\ vec'[v].size \in Nat /\ Contents(v)' \in Seq(Raw .. HeapSize)
               /\ Len(Contents(v)') = vec'[v].size
               /\ \A i \in 1 .. vec'[v].size : Contents(v)'[i] = vec'[v].slots[i]
<1>1. (KInv => \A v \in Vectors :
                 /\ vec[v].size \in Nat /\ Contents(v) \in Seq(Raw .. HeapSize)
                 /\ Len(Contents(v)) = vec[v].size
                 /\ \A i \in 1 .. vec[v].size : Contents(v)[i] = vec[v].slots[i])'
  BY ContentsAre, PTL
<1> QED
  BY <1>1

\* A sequence that begins like another.
LEMMA SameBeginning ==
    ASSUME NEW S, NEW s \in Seq(S), NEW t \in Seq(S), Len(s) <= Len(t),
           \A i \in 1 .. Len(s) : s[i] = t[i]
    PROVE  IsPrefixOrSame(s, t)
<1>1. /\ SubSeq(t, 1, Len(s)) \in Seq(S) /\ Len(SubSeq(t, 1, Len(s))) = Len(s)
      /\ \A i \in 1 .. Len(s) : SubSeq(t, 1, Len(s))[i] = t[i]
  BY Beginning
<1>2. SubSeq(t, 1, Len(s)) = s
  BY <1>1, SeqEqual
<1> QED
  BY <1>2 DEF IsPrefixOrSame

\* A sequence without its i-th element.
LEMMA TakenOut ==
    ASSUME NEW S, NEW s \in Seq(S), NEW t \in Seq(S), NEW i \in 1 .. Len(s), Len(t) = Len(s) - 1,
           \A j \in 1 .. i - 1 : t[j] = s[j], \A j \in i .. Len(s) - 1 : t[j] = s[j + 1]
    PROVE  t = SubSeq(s, 1, i - 1) \o SubSeq(s, i + 1, Len(s))
<1> DEFINE a == SubSeq(s, 1, i - 1)
           b == SubSeq(s, i + 1, Len(s))
<1>1. a \in Seq(S) /\ Len(a) = i - 1 /\ \A j \in 1 .. i - 1 : a[j] = s[j]
  BY Beginning
<1>2. b \in Seq(S) /\ Len(b) = Len(s) - i /\ \A j \in 1 .. Len(s) - i : b[j] = s[i + j]
  <2>1. \A j \in i + 1 .. Len(s) : s[j] \in S
    OBVIOUS
  <2>2. /\ b \in Seq(S) /\ Len(b) = (IF i + 1 <= Len(s) THEN Len(s) - (i + 1) + 1 ELSE 0)
        /\ \A j \in 1 .. Len(s) - (i + 1) + 1 : b[j] = s[i + 1 + j - 1]
    BY <2>1, SubSeqProperties
  <2>3. Len(s) - (i + 1) + 1 = Len(s) - i /\ \A j \in Int : i + 1 + j - 1 = i + j
    OBVIOUS
  <2> QED
    BY <2>2, <2>3
<1> HIDE DEF a, b
<1>3. /\ a \o b \in Seq(S) /\ Len(a \o b) = Len(s) - 1
      /\ \A j \in 1 .. Len(s) - 1 : (a \o b)[j] = IF j <= i - 1 THEN a[j] ELSE b[j - (i - 1)]
  <2>1. /\ a \o b \in Seq(S) /\ Len(a \o b) = Len(a) + Len(b)
        /\ \A j \in 1 .. Len(a) + Len(b) : (a \o b)[j] = IF j <= Len(a) THEN a[j] ELSE b[j - Len(a)]
    BY <1>1, <1>2, ConcatProperties
  <2>2. Len(a) + Len(b) = Len(s) - 1
    BY <1>1, <1>2
  <2> QED
    BY <1>1, <2>1, <2>2
<1>4. ASSUME NEW j \in 1 .. Len(t) PROVE t[j] = (a \o b)[j]
  <2>1. CASE j <= i - 1
    BY <1>1, <1>3, <2>1
  <2>2. CASE ~(j <= i - 1)
    <3>1. j - (i - 1) \in 1 .. Len(s) - i /\ i + (j - (i - 1)) = j + 1 /\ j \in i .. Len(s) - 1
      BY <2>2
    <3> QED
      BY <1>2, <1>3, <2>2, <3>1
  <2> QED
    BY <2>1, <2>2
<1>5. t = a \o b
  BY <1>3, <1>4, SeqEqual
<1> QED
  BY <1>5 DEF a, b

\* What a step does to the elements of a vector.
LEMMA OrderStep ==
    ASSUME KInv, [KNext]_kvars, NEW v \in Vectors
    PROVE  LET s == Contents(v)  t == Contents(v)'
           IN \/ IsPrefixOrSame(s, t) \/ IsPrefixOrSame(t, s)
              \/ \E i \in 1 .. Len(s) : t = SubSeq(s, 1, i - 1) \o SubSeq(s, i + 1, Len(s))
              \/ t = Contents(3 - v)
<1> DEFINE s == Contents(v)
           t == Contents(v)'
<1>1. /\ s \in Seq(Raw .. HeapSize) /\ Len(s) = vec[v].size /\ vec[v].size \in Nat
      /\ \A i \in 1 .. vec[v].size : s[i] = vec[v].slots[i]
  BY ContentsAre
<1>2. /\ t \in Seq(Raw .. HeapSize) /\ Len(t) = vec'[v].size /\ vec'[v].size \in Nat
      /\ \A i \in 1 .. vec'[v].size : t[i] = vec'[v].slots[i]
  <2>1. KInv'
    BY VectorStep
  <2> QED
    BY <2>1, ContentsAreNext
<1> HIDE DEF s, t
<1>3. ASSUME vec'[v].size >= vec[v].size, \A i \in 1 .. vec[v].size : vec'[v].slots[i] = vec[v].slots[i]
      PROVE  IsPrefixOrSame(s, t)
  BY <1>1, <1>2, <1>3, SameBeginning
<1>4. ASSUME vec'[v].size <= vec[v].size, \A i \in 1 .. vec'[v].size : vec'[v].slots[i] = vec[v].slots[i]
      PROVE  IsPrefixOrSame(t, s)
  BY <1>1, <1>2, <1>4, SameBeginning
<1>5. CASE vec'[v] = vec[v]
  BY <1>1, <1>3, <1>5 DEF s, t
<1>6. CASE MoveAssign
  <2>1. vec'[v] = vec[3 - v]
    BY <1>6 DEF MoveAssign
  <2> QED
    BY <2>1 DEF Contents, t
<1>7. DOMAIN vec = Vectors
  BY DEF KInv
<1>8. CASE v = 1 /\ Adopt
  <2>1. vec'[v].size = vec[v].size /\ vec'[v].slots = Contents(1) \o Fill(op.room - own.size, Raw)
    BY <1>7, <1>8 DEF Adopt, own
  <2>2. \A i \in 1 .. own.size : vec'[v].slots[i] = own.slots[i]
    BY <1>8, <2>1, Reserved DEF Adopt, Doing
  <2> QED
    BY <1>1, <1>3, <1>8, <2>1, <2>2 DEF own, s, t
<1>9. CASE v = 1 /\ Settle
  <2>1. op.then \in {"push", "resize", "nothing"} /\ (op.then = "resize" => op.n \in Nat /\ own.size <= op.n)
    BY <1>9 DEF Settle, Doing, KInv, Pending, Due
  <2>2. CASE op.then = "push"
    <3>1. vec'[v] = Pushed
      BY <1>7, <1>9, <2>2 DEF Settle
    <3>2. vec'[v].size = own.size + 1 /\ vec'[v].slots = [own.slots EXCEPT ![own.size + 1] = hand]
      BY <3>1, OwnFacts DEF Pushed, Buffers
    <3>3. \A i \in 1 .. own.size : vec'[v].slots[i] = own.slots[i]
      BY <3>2, OwnFacts
    <3> QED
      BY <1>1, <1>3, <1>9, <3>2, <3>3 DEF own, s, t
  <2>3. CASE op.then = "resize"
    <3>1. vec'[v] = Grown(op.n)
      BY <1>7, <1>9, <2>3 DEF Settle
    <3>2. /\ vec'[v].size = op.n
          /\ vec'[v].slots = [i \in DOMAIN own.slots |-> IF i \in own.size + 1 .. op.n THEN 0 ELSE own.slots[i]]
      BY <3>1, OwnFacts DEF Grown, Buffers
    <3>3. \A i \in 1 .. own.size : vec'[v].slots[i] = own.slots[i]
      BY <3>2, OwnFacts
    <3> QED
      BY <1>1, <1>3, <1>9, <2>1, <2>3, <3>2, <3>3 DEF own, s, t
  <2>4. CASE op.then = "nothing"
    <3>1. vec'[v] = vec[v]
      BY <1>7, <1>9, <2>4 DEF Settle, own
    <3> QED
      BY <1>5, <3>1 DEF s, t
  <2> QED
    BY <2>1, <2>2, <2>3, <2>4 DEF s, t
<1>10. CASE v = 1 /\ DestroyRange /\ own.size > op.n
  <2>1. vec' = [vec EXCEPT ![1].slots[own.size] = Raw, ![1].size = @ - 1]
    BY <1>10 DEF DestroyRange, DestroyLast
  <2>2. vec'[v].size = own.size - 1 /\ vec'[v].slots = [own.slots EXCEPT ![own.size] = Raw]
    <3>1. PICK u : u = [own EXCEPT !.slots[own.size] = Raw, !.size = @ - 1]
      OBVIOUS
    <3>2. vec'[1] = u
      BY <1>7, <2>1, <3>1 DEF own, Vectors
    <3>3. u.size = own.size - 1 /\ u.slots = [own.slots EXCEPT ![own.size] = Raw]
      BY <3>1, OwnFacts DEF Buffers
    <3> QED
      BY <1>10, <3>2, <3>3
  <2>3. \A i \in 1 .. own.size - 1 : vec'[v].slots[i] = own.slots[i]
    BY <2>2, OwnFacts
  <2> QED
    BY <1>1, <1>4, <1>10, <2>2, <2>3 DEF own, s, t
<1>11. CASE v = 1 /\ Release
  <2>1. vec'[v].size = 0
    BY <1>7, <1>11 DEF Release, EmptyVector
  <2> QED
    BY <1>1, <1>4, <2>1 DEF s, t
<1>12. ASSUME v = 1, NEW i \in 1 .. own.size, erase(i)
       PROVE  \E k \in 1 .. Len(s) : t = SubSeq(s, 1, k - 1) \o SubSeq(s, k + 1, Len(s))
  <2> DEFINE n == own.size
  <2>1. n \in Nat /\ i \in 1 .. n /\ i \in DOMAIN own.slots /\ 1 .. n \subseteq DOMAIN own.slots
    BY OwnFacts
  <2>2. PICK q : q = [own.slots EXCEPT ![i] = Raw]
    OBVIOUS
  <2>3. vec'[v].size = n - 1 /\ vec'[v].slots = Shift(q, n, i)
    <3>1. vec' = [vec EXCEPT ![1].slots = Shift([@ EXCEPT ![i] = Raw], own.size, i), ![1].size = @ - 1]
      BY <1>12 DEF erase
    <3>2. PICK u : u = [own EXCEPT !.slots = Shift(q, own.size, i), !.size = @ - 1]
      OBVIOUS
    <3>3. vec'[1] = u
      BY <1>7, <2>2, <3>1, <3>2 DEF own, Vectors
    <3>4. u.size = n - 1 /\ u.slots = Shift(q, n, i)
      BY <3>2, OwnFacts DEF Buffers
    <3> QED
      BY <1>12, <3>3, <3>4
  <2> HIDE DEF n
  <2>4. DOMAIN q = DOMAIN own.slots /\ \A j \in DOMAIN own.slots \ {i} : q[j] = own.slots[j]
    BY <2>2
  <2>5. ASSUME NEW j \in 1 .. n - 1
        PROVE  vec'[v].slots[j] = IF j < i THEN own.slots[j] ELSE own.slots[j + 1]
    <3>1. j \in DOMAIN q /\ j + 1 \in DOMAIN own.slots /\ j # n /\ (j \in i .. n - 1 <=> ~(j < i))
      BY <2>1, <2>4
    <3>2. vec'[v].slots[j] = IF j \in i .. n - 1 THEN q[j + 1] ELSE q[j]
      BY <2>3, <3>1 DEF Shift
    <3>3. CASE j < i
      <4>1. q[j] = own.slots[j]
        BY <2>4, <3>1, <3>3
      <4> QED
        BY <3>1, <3>2, <3>3, <4>1
    <3>4. CASE ~(j < i)
      <4>1. q[j + 1] = own.slots[j + 1]
        BY <2>1, <2>4, <3>1, <3>4
      <4> QED
        BY <3>1, <3>2, <3>4, <4>1
    <3> QED
      BY <3>3, <3>4
  <2>6. Len(s) = n /\ Len(t) = n - 1 /\ (\A j \in 1 .. n : s[j] = own.slots[j])
        /\ \A j \in 1 .. n - 1 : t[j] = vec'[v].slots[j]
    BY <1>1, <1>2, <1>12, <2>3 DEF own, n
  <2>7. \A j \in 1 .. i - 1 : t[j] = s[j]
    BY <2>1, <2>5, <2>6
  <2>8. \A j \in i .. Len(s) - 1 : t[j] = s[j + 1]
    BY <2>1, <2>5, <2>6
  <2>9. t = SubSeq(s, 1, i - 1) \o SubSeq(s, i + 1, Len(s))
    BY <1>1, <1>2, <2>1, <2>6, <2>7, <2>8, TakenOut
  <2> QED
    BY <2>1, <2>6, <2>9
<1>13. v = 1 \/ MoveAssign \/ vec'[v] = vec[v]
  <2>1. CASE v = 2
    BY <1>7, <2>1
       DEF KNext, KStep, kvars, knew, Drop, Grow, Adopt, Settle, DestroyRange, DestroyLast, Release, push_back,
           pop_back, clear, resize, reserve, erase, kalloc_fails
  <2> QED
    BY <2>1 DEF Vectors
<1>14. v = 1 /\ pop_back => \E i \in 1 .. own.size : erase(i)
  BY DEF pop_back, erase
<1>15. \/ vec' = vec \/ MoveAssign \/ Adopt \/ Settle \/ (DestroyRange /\ own.size > op.n) \/ Release
       \/ pop_back \/ \E i \in 1 .. own.size : erase(i)
  BY DEF KNext, KStep, kvars, knew, Drop, Grow, DestroyRange, push_back, clear, resize, reserve, kalloc_fails
<1> QED
  BY <1>5, <1>6, <1>8, <1>9, <1>10, <1>11, <1>12, <1>13, <1>14, <1>15 DEF s, t

-------------------------------------------------------------------------------
(* The theorems.                                                           *)

\* The other containers leave the vectors alone.
LEMMA OnlyVectors == [Next]_vars => [KNext]_kvars
  BY DEF Next, vars

\* KInv is an invariant, and every step of a behaviour is one of the vectors,
\* or none.
LEMMA KInvAlways == Spec => []KInv
<1>1. Init => KInv
  BY VectorInit DEF Init
<1>2. KInv /\ [Next]_vars => KInv'
  BY OnlyVectors, VectorStep
<1> QED
  BY <1>1, <1>2, PTL DEF Spec

\* Every object and every storage has one owner, whatever grew, shrank, was
\* erased or moved (kvector with kowned_ptr): for heaps and vectors of every
\* size.
THEOREM OwnedCorrect == Spec => []OwnedOnce
<1>1. KInv => OwnedOnce
  BY OneOwner
<1> QED
  BY <1>1, KInvAlways, PTL

\* The vectors and default_heap use simple_heap as it has to be used, with
\* requests of every size: each of their steps is one of simple_heap, so what
\* is freed is a block that alloc gave, whole and once.
THEOREM HeapUsedCorrect == Spec => AnyHeap!Spec
<1>1. Init => AnyHeap!Init
  BY DEF Init, KInit, Heap!Init, AnyHeap!Init
<1>2. KInv /\ [Next]_vars => [AnyHeap!Next]_AnyHeap!vars
  BY OnlyVectors, HeapStep
<1> QED
  BY <1>1, <1>2, KInvAlways, PTL DEF Spec, AnyHeap!Spec

\* Growth, erasure and moves keep the order of the elements and lose none
\* (kvector::reserve, erase, operator=).
THEOREM OrderCorrect == Spec => OrderKept
<1>1. KInv /\ [Next]_vars
      => [\A v \in Vectors :
            LET s == Contents(v)  t == Contents(v)'
            IN \/ IsPrefixOrSame(s, t) \/ IsPrefixOrSame(t, s)
               \/ \E i \in 1 .. Len(s) : t = SubSeq(s, 1, i - 1) \o SubSeq(s, i + 1, Len(s))
               \/ t = Contents(3 - v)]_kvars
  BY OnlyVectors, OrderStep
<1> QED
  BY <1>1, KInvAlways, PTL DEF Spec, OrderKept

\* One owner for everything, and all returned in whole.  That a heap is whole
\* once all is freed is the theorem BalancedHeapIsWhole about simple_heap
\* (SimpleHeapProofs), the hypothesis here.
THEOREM VectorsCorrect == (AnyHeap!Spec => []AnyHeap!BalancedIsWhole) => (Spec => []VectorsSound)
<1>1. KInv /\ AnyHeap!BalancedIsWhole => VectorsSound
  <2>1. AnyHeap!IsWhole <=> Heap!IsWhole
    BY DEF AnyHeap!IsWhole, Heap!IsWhole
  <2> QED
    BY <2>1, OneOwner, NothingHeld DEF AnyHeap!BalancedIsWhole, VectorsSound, StorageReturned
<1> QED
  BY <1>1, KInvAlways, HeapUsedCorrect, PTL
===============================================================================
