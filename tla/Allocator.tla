------------------------------ MODULE Allocator ------------------------------
(***************************************************************************)
(* What a heap promises its callers (attos/mem.h, class simple_heap):      *)
(* alloc(size) returns a region of the managed range that overlaps no      *)
(* region still in use, and free(ptr, size) gives exactly that region      *)
(* back.  Nothing is said about which region is returned, nor about when   *)
(* a request is refused.                                                   *)
(*                                                                         *)
(* Addresses are counted in units of sizeof(free_node) = 16 bytes from the *)
(* base of the heap: every request in the code is a multiple of 16 bytes   *)
(* (default_heap rounds up, the physical page heap allocates pages).       *)
(***************************************************************************)
EXTENDS Naturals

CONSTANTS
    HeapSize,   \* length of the managed range, in units
    Sizes       \* the request sizes, in units

VARIABLE allocated   \* start of each region in use |-> its size

Units == 0 .. HeapSize - 1

\* [a, a+n) and [b, b+m) have no unit in common.
Disjoint(a, n, b, m) == a + n <= b \/ b + m <= a

\* f with x mapped to v, and f without the points of S.
With(f, x, v) == [y \in DOMAIN f \cup {x} |-> IF y = x THEN v ELSE f[y]]
Without(f, S) == [y \in DOMAIN f \ S |-> f[y]]

Init == allocated = [a \in {} |-> 0]

Alloc(n) ==
    \E a \in Units :
        /\ a + n <= HeapSize
        /\ \A b \in DOMAIN allocated : Disjoint(a, n, b, allocated[b])
        /\ allocated' = With(allocated, a, n)

Free(a) == allocated' = Without(allocated, {a})

Next ==
    \/ \E n \in Sizes : Alloc(n)
    \/ \E a \in DOMAIN allocated : Free(a)

Spec == Init /\ [][Next]_allocated
==============================================================================
