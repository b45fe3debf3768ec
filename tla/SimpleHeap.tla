------------------------------ MODULE SimpleHeap ------------------------------
(***************************************************************************)
(* attos::simple_heap (attos/mem.cpp), the allocator under the kernel's    *)
(* physical page heap and under default_heap.                              *)
(*                                                                         *)
(* The free list is kept sorted by address, so it is represented by the    *)
(* function free from the address of each free block to its size; the list *)
(* order is the order of the domain.                                       *)
(*                                                                         *)
(* A REQUIRE that fails stops the machine: status "fatal".                 *)
(***************************************************************************)
EXTENDS Naturals

CONSTANTS HeapSize, Sizes

ASSUME HeapSizeAssumption == HeapSize \in Nat \ {0}
ASSUME SizesAssumption    == Sizes \subseteq Nat \ {0}

VARIABLES
    free,        \* start of each free block |-> its size (the list free_)
    allocated,   \* start of each block in the callers' hands |-> its size
    status       \* "live" | "destroyed" | "fatal"

vars == <<free, allocated, status>>

A == INSTANCE Allocator

Units == A!Units
Disjoint(a, n, b, m) == A!Disjoint(a, n, b, m)
With(f, x, v) == A!With(f, x, v)
Without(f, S) == A!Without(f, S)

-------------------------------------------------------------------------------
(* The helpers of the free list.                                           *)

\* The first address after block f where the run of touching blocks that
\* starts at f stops: the end of a block at which no block starts.
EndsRun(bl, f, e) ==
    /\ e \notin DOMAIN bl
    /\ \E x \in DOMAIN bl : x >= f /\ x + bl[x] = e

RunEnd(bl, f) ==
    CHOOSE e \in 0 .. HeapSize :
        /\ EndsRun(bl, f, e)
        /\ \A d \in 0 .. HeapSize : EndsRun(bl, f, d) => e <= d

\* coalesce_from(f): f absorbs its successors as long as they touch.
Coalesce(bl, f) ==
    LET e == RunEnd(bl, f)
    IN  [x \in {y \in DOMAIN bl : y <= f \/ e <= y} |->
            IF x = f THEN e - f ELSE bl[x]]

IsHead(bl, p) == \A x \in DOMAIN bl : p < x

\* The list node just before address p.
Prev(bl, p) ==
    CHOOSE x \in DOMAIN bl :
        /\ x < p
        /\ \A y \in DOMAIN bl : y < p => y <= x

\* Mutants: merging starts at the freed node itself; a new head is linked
\* without merging; the block before a gap swallows the gap.
InsertFreeFromNew(bl, p, n) == Coalesce(With(bl, p, n), p)
InsertFreeHeadUnmerged(bl, p, n) ==
    IF IsHead(bl, p) THEN With(bl, p, n)
    ELSE Coalesce(With(bl, p, n), Prev(bl, p))
InsertFreeSwallowsGap(bl, p, n) ==
    IF IsHead(bl, p) THEN Coalesce(With(bl, p, n), p)
    ELSE With(bl, Prev(bl, p), p + n - Prev(bl, p))

\* insert_free(p, n): a new head is coalesced with what follows it, any
\* other node starting from the node before it.
InsertFree(bl, p, n) ==
    Coalesce(With(bl, p, n), IF IsHead(bl, p) THEN p ELSE Prev(bl, p))

-------------------------------------------------------------------------------
Init ==
    /\ free = [x \in {0} |-> HeapSize]
    /\ allocated = [x \in {} |-> 0]
    /\ status = "live"

\* Mutant: the loop of alloc stops at a block that is one unit too small.
FirstFitOffByOne(a, n) ==
    /\ a \in DOMAIN free
    /\ n <= free[a] + 1
    /\ \A b \in DOMAIN free : n <= free[b] + 1 => a <= b

\* The first block of the list that is large enough for n units.
FirstFit(a, n) ==
    /\ a \in DOMAIN free
    /\ n <= free[a]
    /\ \A b \in DOMAIN free : n <= free[b] => a <= b

\* Mutant: an exact fit leaves an empty block behind.
TakeFrontKeepsEmpty(bl, a, n) ==
    With(Without(bl, {a}), a + n, bl[a] - n)

\* Block a without its first n units.
TakeFront(bl, a, n) ==
    IF bl[a] = n THEN Without(bl, {a})
    ELSE With(Without(bl, {a}), a + n, bl[a] - n)

Alloc(n) ==
    /\ status = "live"
    /\ \E a \in DOMAIN free :
        /\ FirstFit(a, n)
        /\ free' = TakeFront(free, a, n)
        /\ allocated' = With(allocated, a, n)
    /\ UNCHANGED status

\* REQUIRE(*fp != end_of_list && "Could not satisfy allocation request")
AllocFails(n) ==
    /\ status = "live"
    /\ \A a \in DOMAIN free : free[a] < n
    /\ status' = "fatal"
    /\ UNCHANGED <<free, allocated>>

\* Callers give back what alloc returned, with the size they asked for:
\* default_heap stores it in the block, physical_allocation in itself.
Free(a) ==
    /\ status = "live"
    /\ a \in DOMAIN allocated
    /\ free' = InsertFree(free, a, allocated[a])
    /\ allocated' = Without(allocated, {a})
    /\ UNCHANGED status

\* The destructor's condition: the list is the one block that the
\* constructor inserted.
IsWhole == 0 \in DOMAIN free /\ free[0] = HeapSize

Destroy ==
    /\ status = "live"
    /\ status' = IF IsWhole THEN "destroyed" ELSE "fatal"
    /\ UNCHANGED <<free, allocated>>

Next ==
    \/ \E n \in Sizes : Alloc(n) \/ AllocFails(n)
    \/ \E a \in DOMAIN allocated : Free(a)
    \/ Destroy

Spec == Init /\ [][Next]_vars

-------------------------------------------------------------------------------
(* Properties.                                                             *)

PositiveBlocks(f) ==
    /\ DOMAIN f \subseteq Units
    /\ f \in [DOMAIN f -> Nat \ {0}]

\* The shape of the state: free_ and the callers' blocks are non-empty
\* blocks that start inside the heap (simple_heap's members).
TypeOK ==
    /\ PositiveBlocks(free)
    /\ PositiveBlocks(allocated)
    /\ status \in {"live", "destroyed", "fatal"}

Apart(f, g) ==
    \A a \in DOMAIN f, b \in DOMAIN g : Disjoint(a, f[a], b, g[b])

SelfApart(f) ==
    \A a, b \in DOMAIN f : a # b => Disjoint(a, f[a], b, f[b])

Inside(f) == \A a \in DOMAIN f : a + f[a] <= HeapSize

Covers(f, u) == \E a \in DOMAIN f : a <= u /\ u < a + f[a]

\* alloc, free and coalescing neither lose memory nor hand it out twice:
\* free blocks and the callers' blocks tile the heap (simple_heap::alloc,
\* insert_free, coalesce_from).
Tiling ==
    /\ Inside(free) /\ Inside(allocated)
    /\ SelfApart(free) /\ SelfApart(allocated) /\ Apart(free, allocated)
    /\ \A u \in Units : Covers(free, u) \/ Covers(allocated, u)

\* Once every allocation has been freed, in whatever order, the list is a
\* single block again: ~simple_heap's REQUIRE cannot fail in a balanced
\* program, although insert_free does not merge every pair of neighbours.
BalancedIsWhole == DOMAIN allocated = {} => IsWhole

\* Why: the block at the base of the heap, if free, never touches the next
\* free block.  A block is freed there as the head of the list, and its
\* free neighbours are merged into it (insert_free's head case) or, later,
\* from it (coalesce_from(prev)).
BaseMerged == 0 \in DOMAIN free => free[0] \notin DOMAIN free

\* The inductive invariant of the proofs.
IInv == TypeOK /\ Tiling /\ BaseMerged

\* The heap implements the abstract allocator.
Implements == A!Spec
===============================================================================
