-------------------------------- MODULE KVector ---------------------------------
(***************************************************************************)
(* kvector (attos/containers.h) of kowned_ptr (attos/mem.h), as the kernel *)
(* uses it, over default_heap (attos/mem.cpp), and that over simple_heap.  *)
(*                                                                         *)
(* Addresses are in units of align (16 bytes).  The header of a block is   *)
(* its first unit, so the pointer a caller has is one more than the start  *)
(* of the block, and 0 is the null pointer.                                *)
(*                                                                         *)
(* An operation that calls the heap more than once is a sequence of steps, *)
(* one for each call: op is what remains of it.  Every operation is on the *)
(* first vector: the move assignment brings the other into its place.      *)
(***************************************************************************)
EXTENDS Integers, FiniteSets, SequencesExt

CONSTANTS
    HeapSize,     \* units of the heap
    ObjectBytes,  \* sizeof of what the elements point to
    FirstRoom,    \* 10 in the code: the capacity of the first allocation
    MaxRoom       \* bound: sizes asked of reserve and resize

ASSUME KVectorAssumption == {HeapSize, ObjectBytes, FirstRoom, MaxRoom} \subseteq Nat \ {0}

VARIABLES
    free, allocated, status,   \* simple_heap
    header,   \* block |-> the size saved in it, while its cookie is in place
    vec,      \* two vectors: [begin, slots, size]; slots up to the capacity
    hand,     \* a kowned_ptr of the caller
    op        \* the operation in progress

heapVars == <<free, allocated, status, header>>
kvars == <<free, allocated, status, header, vec, hand, op>>

Heap == INSTANCE SimpleHeap WITH Sizes <- 1 .. HeapSize

Vectors == {1, 2}
Raw == -1         \* memory that holds no element, before its constructor or after its destructor
PointerBytes == 8

round_up(a, b) == ((a + b - 1) \div b) * b

-------------------------------------------------------------------------------
(* default_heap                                                            *)

\* Units of a request of so many bytes, the header included.
BlockUnits(bytes) == round_up(bytes + 16, 16) \div 16

\* Mutant: the size saved leaves the header out.
SavedNoHeader(bytes) == BlockUnits(bytes) - 1

\* The size that is saved in the header.
Saved(bytes) == BlockUnits(bytes)

\* alloc; p is the result.  Nothing is left to set if there is no room.
kalloc(bytes, p) ==
    /\ Heap!Alloc(BlockUnits(bytes))
    /\ p - 1 \in DOMAIN allocated' \ DOMAIN allocated
    /\ header' = Heap!With(header, p - 1, Saved(bytes))

kalloc_fails(bytes) == Heap!AllocFails(BlockUnits(bytes)) /\ UNCHANGED <<header, vec, hand, op>>

\* free: the cookie is checked and cleared; the size is the saved one.
kfree(p) ==
    IF p - 1 \in DOMAIN header
    THEN /\ free' = Heap!InsertFree(free, p - 1, header[p - 1])
         /\ allocated' = Heap!Without(allocated, {p - 1})
         /\ header' = Heap!Without(header, {p - 1})
         /\ UNCHANGED status
    ELSE status' = "fatal" /\ UNCHANGED <<free, allocated, header>>

\* ~owned_ptr: the object is destroyed and its memory freed.
reset(p) == IF p = 0 THEN UNCHANGED heapVars ELSE kfree(p)

-------------------------------------------------------------------------------
(* kvector                                                                 *)

EmptyVector == [begin |-> 0, slots |-> <<>>, size |-> 0]
own == vec[1]
capacity == Len(own.slots)
Contents(v) == SubSeq(vec[v].slots, 1, vec[v].size)
Fill(n, x) == [i \in 1 .. n |-> x]

Idle == [do |-> "idle"]
Ready == status = "live" /\ op = Idle
Doing(what) == status = "live" /\ op.do = what

KInit ==
    /\ Heap!Init
    /\ header = [a \in {} |-> 0]
    /\ vec = [v \in Vectors |-> EmptyVector]
    /\ hand = 0
    /\ op = Idle

knew ==
    /\ Ready /\ hand = 0
    /\ \/ \E p \in 1 .. HeapSize : kalloc(ObjectBytes, p) /\ hand' = p /\ UNCHANGED <<vec, op>>
       \/ kalloc_fails(ObjectBytes)

Drop == Ready /\ hand # 0 /\ reset(hand) /\ hand' = 0 /\ UNCHANGED <<vec, op>>

\* Mutant: the capacity is only doubled, also for a larger request.
DoubledOnly(required) == IF capacity # 0 THEN 2 * capacity ELSE FirstRoom

\* What ensure_room reserves.
Room(required) ==
    LET usual == IF capacity # 0 THEN 2 * capacity ELSE FirstRoom
    IN IF required > usual THEN required ELSE usual

\* ensure_room(n), and what follows once the room is there.
ensure_room(n, then) ==
    op' = IF n > capacity THEN [do |-> "grow", room |-> Room(n), n |-> n, then |-> then]
          ELSE [do |-> "settle", n |-> n, then |-> then]

push_back == Ready /\ hand # 0 /\ ensure_room(own.size + 1, "push") /\ UNCHANGED <<heapVars, vec, hand>>

resize(n) ==
    /\ Ready
    /\ IF n <= own.size THEN op' = [do |-> "destroy", n |-> n, release |-> FALSE]
       ELSE ensure_room(n, "resize")
    /\ UNCHANGED <<heapVars, vec, hand>>

reserve(n) ==
    /\ Ready /\ n > capacity
    /\ op' = [do |-> "grow", room |-> n, n |-> n, then |-> "nothing"]
    /\ UNCHANGED <<heapVars, vec, hand>>

\* reserve: the new storage, ...
Grow ==
    /\ Doing("grow")
    /\ \/ \E p \in 1 .. HeapSize :
            /\ kalloc(PointerBytes * op.room, p)
            /\ op' = [do |-> "adopt", room |-> op.room, n |-> op.n, then |-> op.then, at |-> p]
            /\ UNCHANGED <<vec, hand>>
       \/ kalloc_fails(PointerBytes * op.room)

\* ... to which the elements are moved.  Those left behind are null, so that
\* destroying them does nothing, and the old storage is freed.
Adopt ==
    /\ Doing("adopt")
    /\ vec' = [vec EXCEPT ![1] = [begin |-> op.at, slots |-> Contents(1) \o Fill(op.room - own.size, Raw),
                                  size |-> own.size]]
    /\ reset(own.begin)
    /\ op' = [do |-> "settle", n |-> op.n, then |-> op.then]
    /\ UNCHANGED hand

\* The new elements, once there is room: the caller's, or null ones.
Pushed == [own EXCEPT !.slots[own.size + 1] = hand, !.size = @ + 1]
Grown(n) == [own EXCEPT !.slots = [i \in DOMAIN @ |-> IF i \in own.size + 1 .. n THEN 0 ELSE @[i]], !.size = n]

Settle ==
    /\ Doing("settle")
    /\ vec' = [vec EXCEPT ![1] = CASE op.then = "push" -> Pushed
                                   [] op.then = "resize" -> Grown(op.n)
                                   [] op.then = "nothing" -> own]
    /\ hand' = IF op.then = "push" THEN 0 ELSE hand
    /\ op' = Idle
    /\ UNCHANGED heapVars

\* Mutants: the end moves without the destructor; the end does not move.
DestroyForgotten == UNCHANGED heapVars /\ vec' = [vec EXCEPT ![1].size = @ - 1]
DestroyAgain == reset(own.slots[own.size]) /\ vec' = [vec EXCEPT ![1].slots[own.size] = 0]

\* The last element is destroyed.
DestroyLast == reset(own.slots[own.size]) /\ vec' = [vec EXCEPT ![1].slots[own.size] = Raw, ![1].size = @ - 1]

\* destroy_range, backwards, then for clear the storage itself.
DestroyRange ==
    /\ Doing("destroy")
    /\ IF own.size > op.n THEN DestroyLast /\ UNCHANGED <<hand, op>>
       ELSE /\ op' = IF op.release THEN [do |-> "release"] ELSE Idle
            /\ UNCHANGED <<heapVars, vec, hand>>

\* clear, also the destructor.
clear ==
    /\ Ready
    /\ own.begin # 0
    /\ op' = [do |-> "destroy", n |-> 0, release |-> TRUE]
    /\ UNCHANGED <<heapVars, vec, hand>>

Release ==
    /\ Doing("release")
    /\ kfree(own.begin)
    /\ vec' = [vec EXCEPT ![1] = EmptyVector]
    /\ op' = Idle
    /\ UNCHANGED hand

\* Mutant: the shift stops one element early.
ShiftShort(s, n, i) == [j \in DOMAIN s |-> IF j \in i .. n - 2 THEN s[j + 1] ELSE s[j]]

\* The shift of erase: each move assignment swaps, so that what the
\* destructor left ends up in the last place.
Shift(s, n, i) == [j \in DOMAIN s |-> IF j \in i .. n - 1 THEN s[j + 1] ELSE IF j = n THEN s[i] ELSE s[j]]

erase(i) ==
    /\ Ready
    /\ i \in 1 .. own.size
    /\ reset(own.slots[i])
    /\ vec' = [vec EXCEPT ![1].slots = Shift([@ EXCEPT ![i] = Raw], own.size, i), ![1].size = @ - 1]
    /\ UNCHANGED <<hand, op>>

pop_back == erase(own.size)

\* operator=(kvector&&): the two change their storage.
MoveAssign == Ready /\ vec' = [v \in Vectors |-> vec[3 - v]] /\ UNCHANGED <<heapVars, hand, op>>

KStep == Grow \/ Adopt \/ Settle \/ DestroyRange \/ Release

KNext ==
    \/ knew \/ Drop \/ MoveAssign \/ KStep
    \/ push_back \/ pop_back \/ clear
    \/ \E n \in 0 .. MaxRoom : resize(n) \/ reserve(n)
    \/ \E i \in 1 .. own.size : erase(i)

-------------------------------------------------------------------------------
(* Properties                                                              *)

KTypeOK ==
    /\ Heap!TypeOK
    /\ Heap!PositiveBlocks(header)
    /\ \A v \in Vectors : /\ vec[v].begin \in 0 .. HeapSize
                          /\ vec[v].slots \in Seq(Raw .. HeapSize)
                          /\ vec[v].size \in 0 .. Len(vec[v].slots)
                          /\ Raw \notin ToSet(Contents(v))
    /\ hand \in 0 .. HeapSize
    /\ op.do \in {"idle", "grow", "adopt", "settle", "destroy", "release"}

\* The blocks that are the storage of a vector, and the pointers owned: the
\* caller's, and those in the places of a vector, the unused ones included.
Storage == {vec[v].begin : v \in Vectors} \cup (IF op.do = "adopt" THEN {op.at} ELSE {})
Places == UNION {{v} \X DOMAIN vec[v].slots : v \in Vectors}
Owners(p) == Cardinality({w \in Places : vec[w[1]].slots[w[2]] = p}) + (IF hand = p THEN 1 ELSE 0)

\* Every object has one owner, whatever grew, shrank, was erased or moved
\* (kvector with kowned_ptr): none leaks, none would be destroyed twice, and
\* no place behind the end still owns one.
OwnedOnce ==
    status = "live" =>
      /\ \A a \in DOMAIN allocated : a + 1 \in Storage \/ Owners(a + 1) = 1
      /\ \A v \in Vectors : \A i \in 1 .. Len(vec[v].slots) :
           LET p == vec[v].slots[i]
           IN p \notin {0, Raw} => i <= vec[v].size /\ p - 1 \in DOMAIN allocated /\ p \notin Storage

\* Once the vectors are cleared and the caller holds nothing, simple_heap is
\* one free block again (default_heap saves the size that has to be freed).
StorageReturned ==
    (status = "live" /\ hand = 0 /\ op = Idle /\ \A v \in Vectors : vec[v].begin = 0) => Heap!IsWhole

IsPrefixOrSame(s, t) == Len(s) <= Len(t) /\ SubSeq(t, 1, Len(s)) = s

\* What an operation may do to the elements: nothing, cut or extend the end,
\* take one out and keep the order of the others, or change vectors.  So
\* growth loses and reorders nothing (kvector::reserve, erase).
OrderKept ==
    [][\A v \in Vectors :
         LET s == Contents(v)  t == Contents(v)'
         IN \/ IsPrefixOrSame(s, t) \/ IsPrefixOrSame(t, s)
            \/ \E i \in 1 .. Len(s) : t = SubSeq(s, 1, i - 1) \o SubSeq(s, i + 1, Len(s))
            \/ t = Contents(3 - v)]_kvars

\* Through default_heap the vectors use simple_heap as it has to be used:
\* what is freed is a block that alloc gave, whole and once.
HeapUsed == Heap!Spec

\* An operation that began ends, unless the heap is exhausted (ensure_room,
\* destroy_range).
OpEnds == (op # Idle) ~> (op = Idle \/ status = "fatal")

\* Objects and storage of the vectors have one owner each and are returned in
\* whole (kvector, kowned_ptr, default_heap).
VectorsSound == OwnedOnce /\ StorageReturned

\* The steps of the vectors: each is one that simple_heap allows, keeps the
\* order of the elements, and belongs to an operation that ends.
VectorSteps == HeapUsed /\ OrderKept /\ OpEnds
===============================================================================
