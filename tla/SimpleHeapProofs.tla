--------------------------- MODULE SimpleHeapProofs ---------------------------
(***************************************************************************)
(* Proofs about SimpleHeap, for every heap size and every set of requests. *)
(***************************************************************************)
EXTENDS SimpleHeap, NaturalsInduction, WellFoundedInduction, TLAPS

(***************************************************************************)
(* Least and greatest elements of sets of natural numbers.                 *)
(***************************************************************************)

\* A non-empty set of naturals has a least element.
LEMMA LeastElement ==
    ASSUME NEW S \in SUBSET Nat, S # {}
    PROVE  \E m \in S : \A x \in S : m <= x
<1> DEFINE R == OpToRel(<, Nat)
<1>1. IsWellFoundedOn(R, Nat)
  BY NatLessThanWellFounded
<1>2. \A x, y \in Nat : x < y => <<x, y>> \in R
  BY DEF OpToRel
<1> HIDE DEF R
<1>3. PICK m \in S : \A y \in Nat : <<y, m>> \in R => y \notin S
  BY <1>1, WFMin
<1>4. \A x \in S : x \in Nat /\ ~(x < m)
  BY <1>2, <1>3
<1>5. \A x \in S : m <= x
  BY <1>4
<1> QED
  BY <1>5

\* A non-empty set of naturals with an upper bound has a greatest element.
LEMMA GreatestElement ==
    ASSUME NEW b \in Nat, NEW S \in SUBSET (0 .. b), S # {}
    PROVE  \E m \in S : \A x \in S : x <= m
<1> DEFINE T == {b - x : x \in S}
<1>1. T \in SUBSET Nat
  <2>1. \A x \in S : b - x \in Nat
    OBVIOUS
  <2> QED
    BY <2>1
<1>2. PICK t \in T : \A y \in T : t <= y
  BY <1>1, LeastElement, T # {}
<1>3. PICK m \in S : t = b - m
  BY <1>2
<1>4. \A x \in S : b - m <= b - x
  BY <1>2, <1>3
<1>5. \A x \in S : x <= m
  BY <1>4
<1> QED
  BY <1>5

USE HeapSizeAssumption, SizesAssumption

(***************************************************************************)
(* Block maps: functions from addresses to sizes.                          *)
(***************************************************************************)

\* A list of blocks that lie inside the heap and do not overlap.
Good(bl) == PositiveBlocks(bl) /\ Inside(bl) /\ SelfApart(bl)

\* What Good says of the blocks, one and two at a time.
LEMMA GoodFacts ==
    ASSUME NEW bl, Good(bl)
    PROVE  /\ \A x \in DOMAIN bl :
                 /\ x \in Nat /\ bl[x] \in Nat /\ 0 < bl[x]
                 /\ x + bl[x] <= HeapSize
           /\ \A x, y \in DOMAIN bl : x < y => x + bl[x] <= y
<1>1. \A x \in DOMAIN bl :
         x \in Nat /\ bl[x] \in Nat /\ 0 < bl[x] /\ x + bl[x] <= HeapSize
  BY DEF Good, PositiveBlocks, Inside, Units, A!Units
<1>2. ASSUME NEW x \in DOMAIN bl, NEW y \in DOMAIN bl, x < y
      PROVE  x + bl[x] <= y
  <2>1. Disjoint(x, bl[x], y, bl[y])
    BY <1>1, <1>2 DEF Good, SelfApart
  <2> QED
    BY <1>1, <1>2, <2>1 DEF Disjoint, A!Disjoint
<1> QED
  BY <1>1, <1>2

\* The converse of GoodFacts.
LEMMA GoodIntro ==
    ASSUME NEW bl, bl = [x \in DOMAIN bl |-> bl[x]],
           \A x \in DOMAIN bl :
                 /\ x \in Nat /\ bl[x] \in Nat /\ 0 < bl[x]
                 /\ x + bl[x] <= HeapSize,
           \A x, y \in DOMAIN bl : x < y => x + bl[x] <= y
    PROVE  Good(bl)
<1>1. PositiveBlocks(bl)
  <2>1. \A x \in DOMAIN bl : x \in Units /\ bl[x] \in Nat \ {0}
    BY DEF Units, A!Units
  <2> QED
    BY <2>1 DEF PositiveBlocks
<1>2. Inside(bl)
  BY DEF Inside
<1>3. SelfApart(bl)
  <2> SUFFICES ASSUME NEW x \in DOMAIN bl, NEW y \in DOMAIN bl, x # y
               PROVE  x + bl[x] <= y \/ y + bl[y] <= x
    BY DEF SelfApart, Disjoint, A!Disjoint
  <2>1. x < y \/ y < x
    OBVIOUS
  <2> QED
    BY <2>1
<1> QED
  BY <1>1, <1>2, <1>3 DEF Good

(***************************************************************************)
(* coalesce_from.                                                          *)
(***************************************************************************)

\* The run of touching blocks that starts at f ends, at the end of one of
\* its blocks, and has no hole.
LEMMA RunEndFacts ==
    ASSUME NEW bl, Good(bl), NEW f \in DOMAIN bl
    PROVE  /\ RunEnd(bl, f) \in 0 .. HeapSize
           /\ RunEnd(bl, f) \notin DOMAIN bl
           /\ f < RunEnd(bl, f)
           /\ \A x \in DOMAIN bl : x < RunEnd(bl, f) => x + bl[x] <= RunEnd(bl, f)
           /\ \A u \in f .. RunEnd(bl, f) - 1 : Covers(bl, u)
<1> DEFINE E == {e \in 0 .. HeapSize : EndsRun(bl, f, e)}
           Ends == {e \in 0 .. HeapSize : \E x \in DOMAIN bl : x >= f /\ x + bl[x] = e}
<1>0. /\ \A x \in DOMAIN bl :
            x \in Nat /\ bl[x] \in Nat /\ 0 < bl[x] /\ x + bl[x] <= HeapSize
      /\ \A x, y \in DOMAIN bl : x < y => x + bl[x] <= y
  BY GoodFacts
<1>1. E # {}
  <2>1. f + bl[f] \in Ends
    BY <1>0
  <2>2. PICK m \in Ends : \A x \in Ends : x <= m
    BY <2>1, GreatestElement
  <2>3. m \notin DOMAIN bl
    <3> SUFFICES ASSUME m \in DOMAIN bl PROVE FALSE
      OBVIOUS
    <3>1. m >= f
      BY <1>0, <2>2
    <3>2. m + bl[m] \in Ends
      BY <1>0, <3>1
    <3> QED
      BY <1>0, <2>2, <3>2
  <2> QED
    BY <2>2, <2>3 DEF EndsRun
<1>2. PICK m \in E : \A x \in E : m <= x
  <2>1. E \in SUBSET Nat
    OBVIOUS
  <2> QED
    BY <1>1, <2>1, LeastElement
<1>3. /\ RunEnd(bl, f) \in 0 .. HeapSize
      /\ EndsRun(bl, f, RunEnd(bl, f))
      /\ \A d \in 0 .. HeapSize : EndsRun(bl, f, d) => RunEnd(bl, f) <= d
  BY <1>2 DEF RunEnd
<1> DEFINE e == RunEnd(bl, f)
<1> HIDE DEF e
<1>4. e \in 0 .. HeapSize /\ e \notin DOMAIN bl
  BY <1>3 DEF EndsRun, e
<1>5. PICK y \in DOMAIN bl : y >= f /\ y + bl[y] = e
  BY <1>3 DEF EndsRun, e
<1>6. f < e
  BY <1>0, <1>4, <1>5
<1>7. ASSUME NEW x \in DOMAIN bl, x < e PROVE x + bl[x] <= e
  BY <1>0, <1>4, <1>5, <1>7
<1>8. ASSUME NEW u \in f .. e - 1 PROVE Covers(bl, u)
  <2> SUFFICES ASSUME ~Covers(bl, u) PROVE FALSE
    OBVIOUS
  <2> DEFINE Before == {d \in 0 .. u : d \in Ends}
  <2>1. f + bl[f] \in Before
    BY <1>0, <1>4, <1>6 DEF Covers
  <2>2. PICK d \in Before : \A x \in Before : x <= d
    BY <2>1, GreatestElement, u \in Nat, <1>4, <1>6, <1>0
  <2>3. d \in DOMAIN bl
    <3> SUFFICES ASSUME d \notin DOMAIN bl PROVE FALSE
      OBVIOUS
    <3>1. EndsRun(bl, f, d)
      BY <2>2 DEF EndsRun
    <3> QED
      BY <1>0, <1>3, <1>4, <2>2, <3>1 DEF e
  <2>4. d + bl[d] \in Ends /\ d <= u
    BY <1>0, <2>2, <2>3
  <2>5. u < d + bl[d]
    BY <1>0, <2>2, <2>3, <2>4
  <2> QED
    BY <2>3, <2>4, <2>5 DEF Covers
<1> QED
  BY <1>4, <1>6, <1>7, <1>8 DEF e

\* Coalescing from f keeps the list well formed, keeps exactly the same
\* units free, and leaves f apart from the block after it.
LEMMA CoalesceFacts ==
    ASSUME NEW bl, Good(bl), NEW f \in DOMAIN bl
    PROVE  LET c == Coalesce(bl, f) IN
           /\ Good(c)
           /\ \A u \in Units : Covers(bl, u) => Covers(c, u)
           /\ \A g : PositiveBlocks(g) /\ Apart(bl, g) => Apart(c, g)
           /\ DOMAIN c \subseteq DOMAIN bl
           /\ f \in DOMAIN c
           /\ f + c[f] \notin DOMAIN c
           /\ \A x \in DOMAIN c : x # f => c[x] = bl[x]
<1> DEFINE e == RunEnd(bl, f)
           c == Coalesce(bl, f)
<1>0. /\ \A x \in DOMAIN bl :
            x \in Nat /\ bl[x] \in Nat /\ 0 < bl[x] /\ x + bl[x] <= HeapSize
      /\ \A x, y \in DOMAIN bl : x < y => x + bl[x] <= y
  BY GoodFacts
<1>1. /\ e \in 0 .. HeapSize /\ e \notin DOMAIN bl /\ f < e
      /\ \A x \in DOMAIN bl : x < e => x + bl[x] <= e
      /\ \A u \in f .. e - 1 : Covers(bl, u)
  BY RunEndFacts
<1>2. /\ c = [x \in DOMAIN c |-> c[x]]
      /\ DOMAIN c = {y \in DOMAIN bl : y <= f \/ e <= y}
      /\ \A x \in DOMAIN c : c[x] = IF x = f THEN e - f ELSE bl[x]
  BY DEF Coalesce
<1> HIDE DEF e, c
<1>3. f \in DOMAIN c /\ c[f] = e - f /\ DOMAIN c \subseteq DOMAIN bl
  BY <1>0, <1>2
<1>4. Good(c)
  <2>1. ASSUME NEW x \in DOMAIN c
        PROVE  x \in Nat /\ c[x] \in Nat /\ 0 < c[x] /\ x + c[x] <= HeapSize
    BY <1>0, <1>1, <1>2, <1>3
  <2>2. ASSUME NEW x \in DOMAIN c, NEW y \in DOMAIN c, x < y
        PROVE  x + c[x] <= y
    <3>1. CASE x = f
      BY <3>1, <1>0, <1>1, <1>2, <1>3, <2>2
    <3>2. CASE x # f
      BY <3>2, <1>0, <1>2, <1>3, <2>2
    <3> QED
      BY <3>1, <3>2
  <2> QED
    BY <2>1, <2>2, <1>2, GoodIntro
<1>5. ASSUME NEW u \in Units, Covers(bl, u) PROVE Covers(c, u)
  <2>1. PICK x \in DOMAIN bl : x <= u /\ u < x + bl[x]
    BY <1>5 DEF Covers
  <2>2. u \in Nat
    BY DEF Units, A!Units
  <2>3. CASE f <= x /\ x < e
    <3>1. f <= u /\ u < f + c[f]
      BY <2>1, <2>2, <2>3, <1>0, <1>1, <1>3
    <3> QED
      BY <3>1, <1>3 DEF Covers
  <2>4. CASE x < f \/ e <= x
    <3>1. x \in DOMAIN c /\ c[x] = bl[x]
      BY <2>4, <1>0, <1>1, <1>2
    <3> QED
      BY <3>1, <2>1 DEF Covers
  <2> QED
    BY <2>3, <2>4, <1>0, <1>1
<1>6. ASSUME NEW g, PositiveBlocks(g), Apart(bl, g) PROVE Apart(c, g)
  <2> SUFFICES ASSUME NEW a \in DOMAIN c, NEW b \in DOMAIN g
               PROVE  a + c[a] <= b \/ b + g[b] <= a
    BY DEF Apart, Disjoint, A!Disjoint
  <2>1. \A x \in DOMAIN bl : x + bl[x] <= b \/ b + g[b] <= x
    BY <1>6 DEF Apart, Disjoint, A!Disjoint
  <2>2. b \in Nat /\ g[b] \in Nat /\ 0 < g[b]
    BY <1>6 DEF PositiveBlocks, Units, A!Units
  <2>3. CASE a # f
    BY <2>1, <2>3, <1>2, <1>3
  <2>4. CASE a = f
    <3> SUFFICES ASSUME b < e, f < b + g[b] PROVE FALSE
      BY <2>2, <2>4, <1>0, <1>1, <1>3
    <3>1. CASE f <= b
      <4>1. Covers(bl, b)
        BY <3>1, <2>2, <1>0, <1>1
      <4> QED
        BY <4>1, <2>1, <2>2, <1>0 DEF Covers
    <3>2. CASE b < f
      BY <3>2, <2>1, <2>2, <1>0
    <3> QED
      BY <3>1, <3>2, <2>2, <1>0
  <2> QED
    BY <2>3, <2>4
<1>7. f + c[f] \notin DOMAIN c
  BY <1>0, <1>1, <1>3
<1> QED
  BY <1>2, <1>3, <1>4, <1>5, <1>6, <1>7 DEF c

(***************************************************************************)
(* insert_free.                                                            *)
(***************************************************************************)

\* The block at the base of the heap does not touch the next one.
BaseApart(bl) == 0 \in DOMAIN bl => bl[0] \notin DOMAIN bl

\* The node before p exists unless p becomes the head.
LEMMA PrevFacts ==
    ASSUME NEW bl, Good(bl), NEW p \in Nat, p \notin DOMAIN bl, ~IsHead(bl, p)
    PROVE  /\ Prev(bl, p) \in DOMAIN bl
           /\ Prev(bl, p) < p
           /\ \A y \in DOMAIN bl : y < p => y <= Prev(bl, p)
<1> DEFINE S == {x \in DOMAIN bl : x < p}
<1>0. \A x \in DOMAIN bl : x \in Nat
  BY GoodFacts
<1>1. S # {}
  BY <1>0 DEF IsHead
<1>2. S \in SUBSET (0 .. p)
  BY <1>0
<1>3. PICK m \in S : \A x \in S : x <= m
  BY <1>1, <1>2, GreatestElement
<1>4. m \in DOMAIN bl /\ m < p /\ \A y \in DOMAIN bl : y < p => y <= m
  BY <1>3
<1> QED
  BY <1>4 DEF Prev

\* Freeing the block (p, n): the list stays well formed, the units of the
\* block become free and no others, and the base block stays merged.
LEMMA InsertFreeFacts ==
    ASSUME NEW bl, Good(bl), BaseApart(bl),
           NEW p \in Units, NEW n \in Nat \ {0}, p + n <= HeapSize,
           \A x \in DOMAIN bl : x + bl[x] <= p \/ p + n <= x
    PROVE  LET r == InsertFree(bl, p, n) IN
           /\ Good(r)
           /\ BaseApart(r)
           /\ \A u \in Units : Covers(bl, u) \/ (p <= u /\ u < p + n) => Covers(r, u)
           /\ \A g : /\ PositiveBlocks(g) /\ Apart(bl, g)
                     /\ \A b \in DOMAIN g : p + n <= b \/ b + g[b] <= p
                     => Apart(r, g)
<1> DEFINE w == With(bl, p, n)
           s == IF IsHead(bl, p) THEN p ELSE Prev(bl, p)
           r == Coalesce(w, s)
<1>0. /\ \A x \in DOMAIN bl :
            x \in Nat /\ bl[x] \in Nat /\ 0 < bl[x] /\ x + bl[x] <= HeapSize
      /\ \A x, y \in DOMAIN bl : x < y => x + bl[x] <= y
      /\ p \in Nat
  BY GoodFacts DEF Units, A!Units
<1>1. p \notin DOMAIN bl
  BY <1>0
<1>2. /\ w = [x \in DOMAIN w |-> w[x]]
      /\ DOMAIN w = DOMAIN bl \cup {p}
      /\ w[p] = n
      /\ \A x \in DOMAIN bl : w[x] = bl[x]
  BY <1>1 DEF With, A!With
<1> HIDE DEF w
<1>3. Good(w)
  <2>1. \A x \in DOMAIN w :
           x \in Nat /\ w[x] \in Nat /\ 0 < w[x] /\ x + w[x] <= HeapSize
    BY <1>0, <1>2
  <2>2. ASSUME NEW x \in DOMAIN w, NEW y \in DOMAIN w, x < y
        PROVE  x + w[x] <= y
    BY <1>0, <1>2, <2>2
  <2> QED
    BY <1>2, <2>1, <2>2, GoodIntro
<1>4. s \in DOMAIN w /\ s <= p
  BY <1>0, <1>1, <1>2, PrevFacts
<1>5. /\ Good(r)
      /\ \A u \in Units : Covers(w, u) => Covers(r, u)
      /\ \A g : PositiveBlocks(g) /\ Apart(w, g) => Apart(r, g)
      /\ DOMAIN r \subseteq DOMAIN w
      /\ s \in DOMAIN r
      /\ s + r[s] \notin DOMAIN r
      /\ \A x \in DOMAIN r : x # s => r[x] = w[x]
  <2> HIDE DEF s
  <2> QED
    BY <1>3, <1>4, CoalesceFacts
<1>6. ASSUME 0 \in DOMAIN r PROVE r[0] \notin DOMAIN r
  <2>0. \A x \in DOMAIN r : r[x] \in Nat
    BY <1>5, GoodFacts
  <2>1. CASE s = 0
    BY <2>0, <2>1, <1>5, <1>6
  <2>2. CASE s # 0
    <3>1. ~IsHead(bl, p)
      BY <2>2, <1>0, <1>2, <1>5, <1>6 DEF IsHead
    <3>2. s \in DOMAIN bl /\ s < p
      BY <3>1, <1>0, <1>1, PrevFacts
    <3> HIDE DEF s
    <3>3. 0 \in DOMAIN bl /\ r[0] = bl[0] /\ bl[0] <= s
      BY <3>2, <2>2, <1>0, <1>2, <1>5, <1>6
    <3>4. bl[0] \notin DOMAIN bl /\ bl[0] # p
      BY <3>2, <3>3, <1>0 DEF BaseApart
    <3> QED
      BY <3>3, <3>4, <1>2, <1>5
  <2> QED
    BY <2>1, <2>2
<1>7. ASSUME NEW u \in Units, Covers(bl, u) \/ (p <= u /\ u < p + n)
      PROVE  Covers(w, u)
  BY <1>2, <1>7 DEF Covers
<1>8. ASSUME NEW g, Apart(bl, g),
             \A b \in DOMAIN g : p + n <= b \/ b + g[b] <= p
      PROVE  Apart(w, g)
  BY <1>2, <1>8 DEF Apart, Disjoint, A!Disjoint
<1>9. r = InsertFree(bl, p, n)
  BY DEF InsertFree, w
<1> HIDE DEF r
<1> QED
  BY <1>5, <1>6, <1>7, <1>8, <1>9 DEF BaseApart

(***************************************************************************)
(* alloc.                                                                  *)
(***************************************************************************)

\* Taking n units off block a: the list stays well formed and apart from
\* the units handed out, which are the only ones it loses.
LEMMA TakeFrontFacts ==
    ASSUME NEW bl, Good(bl), BaseApart(bl),
           NEW a \in DOMAIN bl, NEW n \in Nat \ {0}, n <= bl[a]
    PROVE  LET t == TakeFront(bl, a, n) IN
           /\ Good(t)
           /\ BaseApart(t)
           /\ \A u \in Units : Covers(bl, u) => Covers(t, u) \/ (a <= u /\ u < a + n)
           /\ \A g : PositiveBlocks(g) /\ Apart(bl, g) => Apart(t, g)
           /\ \A x \in DOMAIN t : x + t[x] <= a \/ a + n <= x
<1> DEFINE t == TakeFront(bl, a, n)
           o == Without(bl, {a})
<1>0. /\ \A x \in DOMAIN bl :
            x \in Nat /\ bl[x] \in Nat /\ 0 < bl[x] /\ x + bl[x] <= HeapSize
      /\ \A x, y \in DOMAIN bl : x < y => x + bl[x] <= y
  BY GoodFacts
<1>1. /\ o = [x \in DOMAIN o |-> o[x]]
      /\ DOMAIN o = DOMAIN bl \ {a}
      /\ \A x \in DOMAIN o : o[x] = bl[x]
  BY DEF Without, A!Without
<1> HIDE DEF o
<1>2. /\ t = [x \in DOMAIN t |-> t[x]]
      /\ DOMAIN t = (DOMAIN bl \ {a}) \cup (IF bl[a] = n THEN {} ELSE {a + n})
      /\ \A x \in DOMAIN t : x \in DOMAIN bl /\ x # a => t[x] = bl[x]
      /\ bl[a] # n => t[a + n] = bl[a] - n /\ a + n \notin DOMAIN bl
  <2>1. CASE bl[a] = n
    <3>1. t = o
      BY <2>1 DEF TakeFront, o
    <3> QED
      BY <2>1, <3>1, <1>1
  <2>2. CASE bl[a] # n
    <3>1. t = With(o, a + n, bl[a] - n)
      BY <2>2 DEF TakeFront, o
    <3>2. a + n \notin DOMAIN bl
      BY <2>2, <1>0
    <3> HIDE DEF t
    <3>3. /\ t = [x \in DOMAIN t |-> t[x]]
          /\ DOMAIN t = DOMAIN o \cup {a + n}
          /\ t[a + n] = bl[a] - n
          /\ \A x \in DOMAIN o : x # a + n => t[x] = o[x]
      BY <3>1 DEF With, A!With
    <3> QED
      BY <2>2, <3>2, <3>3, <1>1
  <2> QED
    BY <2>1, <2>2
<1> HIDE DEF t
<1>3. Good(t)
  <2>1. ASSUME NEW x \in DOMAIN t
        PROVE  x \in Nat /\ t[x] \in Nat /\ 0 < t[x] /\ x + t[x] <= HeapSize
    BY <1>0, <1>2
  <2>2. ASSUME NEW x \in DOMAIN t, NEW y \in DOMAIN t, x < y
        PROVE  x + t[x] <= y
    BY <1>0, <1>2, <2>2
  <2> QED
    BY <1>2, <2>1, <2>2, GoodIntro
<1>4. BaseApart(t)
  <2> SUFFICES ASSUME 0 \in DOMAIN t PROVE t[0] \notin DOMAIN t
    BY DEF BaseApart
  <2>1. 0 \in DOMAIN bl /\ 0 # a /\ t[0] = bl[0]
    BY <1>0, <1>2
  <2>2. bl[0] \notin DOMAIN bl /\ bl[0] <= a
    BY <2>1, <1>0 DEF BaseApart
  <2> QED
    BY <2>1, <2>2, <1>0, <1>2
<1>5. ASSUME NEW u \in Units, Covers(bl, u), ~(a <= u /\ u < a + n)
      PROVE  Covers(t, u)
  <2>1. PICK x \in DOMAIN bl : x <= u /\ u < x + bl[x]
    BY <1>5 DEF Covers
  <2>2. u \in Nat
    BY DEF Units, A!Units
  <2>3. CASE x = a
    <3>1. a + n \in DOMAIN t /\ a + n <= u /\ u < a + n + t[a + n]
      BY <2>1, <2>2, <2>3, <1>0, <1>2, <1>5
    <3> QED
      BY <3>1 DEF Covers
  <2>4. CASE x # a
    BY <2>1, <2>4, <1>2 DEF Covers
  <2> QED
    BY <2>3, <2>4
<1>6. ASSUME NEW g, PositiveBlocks(g), Apart(bl, g) PROVE Apart(t, g)
  <2> SUFFICES ASSUME NEW x \in DOMAIN t, NEW b \in DOMAIN g
               PROVE  x + t[x] <= b \/ b + g[b] <= x
    BY DEF Apart, Disjoint, A!Disjoint
  <2>1. \A y \in DOMAIN bl : y + bl[y] <= b \/ b + g[b] <= y
    BY <1>6 DEF Apart, Disjoint, A!Disjoint
  <2>2. b \in Nat /\ g[b] \in Nat /\ 0 < g[b]
    BY <1>6 DEF PositiveBlocks, Units, A!Units
  <2> QED
    BY <2>1, <2>2, <1>0, <1>2
<1>7. \A x \in DOMAIN t : x + t[x] <= a \/ a + n <= x
  BY <1>0, <1>2
<1> QED
  BY <1>3, <1>4, <1>5, <1>6, <1>7 DEF t

(***************************************************************************)
(* The inductive invariant.                                                *)
(***************************************************************************)

\* IInv is Tiling and BaseMerged on top of well-formed block maps.
LEMMA IInvForm ==
    IInv <=> /\ Good(free) /\ Good(allocated) /\ BaseApart(free)
             /\ Apart(free, allocated)
             /\ \A u \in Units : Covers(free, u) \/ Covers(allocated, u)
             /\ status \in {"live", "destroyed", "fatal"}
BY DEF IInv, TypeOK, Tiling, BaseMerged, BaseApart, Good

\* The constructor establishes IInv.
LEMMA InitIInv == Init => IInv
<1> SUFFICES ASSUME Init PROVE IInv
  OBVIOUS
<1>1. /\ free = [x \in {0} |-> HeapSize]
      /\ DOMAIN allocated = {}
      /\ allocated = [x \in {} |-> 0]
      /\ status = "live"
  BY DEF Init
<1>2. TypeOK
  BY <1>1 DEF TypeOK, PositiveBlocks, Units, A!Units
<1>3. \A u \in Units : Covers(free, u)
  BY <1>1 DEF Covers, Units, A!Units
<1>4. Inside(free) /\ Inside(allocated) /\ SelfApart(free)
  BY <1>1 DEF Inside, SelfApart
<1>5. SelfApart(allocated) /\ Apart(free, allocated)
  BY <1>1 DEF SelfApart, Apart
<1>6. BaseMerged
  BY <1>1 DEF BaseMerged
<1> QED
  BY <1>2, <1>3, <1>4, <1>5, <1>6 DEF IInv, Tiling

\* alloc preserves IInv: what is handed out leaves the free list.
LEMMA AllocIInv ==
    ASSUME IInv, NEW n \in Sizes, Alloc(n)
    PROVE  IInv'
<1>1. PICK a \in DOMAIN free :
         /\ n <= free[a]
         /\ free' = TakeFront(free, a, n)
         /\ allocated' = With(allocated, a, n)
  BY DEF Alloc, FirstFit
<1>2. n \in Nat \ {0} /\ status' = status
  BY DEF Alloc
<1>3. /\ Good(free) /\ Good(allocated) /\ BaseApart(free)
      /\ Apart(free, allocated)
      /\ \A u \in Units : Covers(free, u) \/ Covers(allocated, u)
  BY IInvForm
<1>4. /\ Good(free') /\ BaseApart(free')
      /\ \A u \in Units : Covers(free, u) => Covers(free', u) \/ (a <= u /\ u < a + n)
      /\ Apart(free', allocated)
      /\ \A x \in DOMAIN free' : x + free'[x] <= a \/ a + n <= x
  BY <1>1, <1>2, <1>3, TakeFrontFacts DEF Good
<1>5. /\ \A x \in DOMAIN free :
            x \in Nat /\ free[x] \in Nat /\ 0 < free[x] /\ x + free[x] <= HeapSize
      /\ \A x \in DOMAIN allocated :
            /\ x \in Nat /\ allocated[x] \in Nat /\ 0 < allocated[x]
            /\ x + allocated[x] <= HeapSize
      /\ \A x, y \in DOMAIN allocated : x < y => x + allocated[x] <= y
  BY <1>3, GoodFacts
<1>6. \A x \in DOMAIN allocated : x + allocated[x] <= a \/ a + n <= x
  BY <1>1, <1>2, <1>3, <1>5 DEF Apart, Disjoint, A!Disjoint
<1>7. /\ allocated' = [x \in DOMAIN allocated' |-> allocated'[x]]
      /\ DOMAIN allocated' = DOMAIN allocated \cup {a}
      /\ allocated'[a] = n
      /\ \A x \in DOMAIN allocated : allocated'[x] = allocated[x]
  <2>1. a \notin DOMAIN allocated
    BY <1>2, <1>5, <1>6
  <2> QED
    BY <1>1, <2>1 DEF With, A!With
<1>8. Good(allocated')
  <2>1. \A x \in DOMAIN allocated' :
           /\ x \in Nat /\ allocated'[x] \in Nat /\ 0 < allocated'[x]
           /\ x + allocated'[x] <= HeapSize
    BY <1>1, <1>2, <1>5, <1>7
  <2>2. ASSUME NEW x \in DOMAIN allocated', NEW y \in DOMAIN allocated', x < y
        PROVE  x + allocated'[x] <= y
    BY <1>1, <1>2, <1>5, <1>6, <1>7, <2>2
  <2> QED
    BY <1>7, <2>1, <2>2, GoodIntro
<1>9. Apart(free', allocated')
  BY <1>4, <1>7 DEF Apart, Disjoint, A!Disjoint
<1>10. ASSUME NEW u \in Units PROVE Covers(free', u) \/ Covers(allocated', u)
  <2>1. Covers(free', u) \/ Covers(allocated, u) \/ (a <= u /\ u < a + n)
    BY <1>3, <1>4
  <2> QED
    BY <2>1, <1>7 DEF Covers
<1>11. status' \in {"live", "destroyed", "fatal"}
  BY <1>2, IInvForm
<1>12. BaseMerged'
  BY <1>4 DEF BaseMerged, BaseApart
<1> QED
  BY <1>4, <1>8, <1>9, <1>10, <1>11, <1>12
  DEF IInv, TypeOK, Tiling, Good

\* free preserves IInv: the block goes back into the list, merged or not.
LEMMA FreeIInv ==
    ASSUME IInv, NEW a \in DOMAIN allocated, Free(a)
    PROVE  IInv'
<1> DEFINE n == allocated[a]
<1>1. /\ free' = InsertFree(free, a, n)
      /\ allocated' = Without(allocated, {a})
      /\ status' = status
  BY DEF Free
<1>2. /\ Good(free) /\ Good(allocated) /\ BaseApart(free)
      /\ Apart(free, allocated)
      /\ \A u \in Units : Covers(free, u) \/ Covers(allocated, u)
  BY IInvForm
<1>3. /\ \A x \in DOMAIN allocated :
            /\ x \in Units /\ x \in Nat
            /\ allocated[x] \in Nat \ {0} /\ x + allocated[x] <= HeapSize
      /\ \A x, y \in DOMAIN allocated : x < y => x + allocated[x] <= y
  BY <1>2, GoodFacts DEF Good, PositiveBlocks
<1>4. \A x \in DOMAIN free : x + free[x] <= a \/ a + n <= x
  BY <1>2 DEF Apart, Disjoint, A!Disjoint
<1>5. /\ allocated' = [x \in DOMAIN allocated' |-> allocated'[x]]
      /\ DOMAIN allocated' = DOMAIN allocated \ {a}
      /\ \A x \in DOMAIN allocated' : allocated'[x] = allocated[x]
  BY <1>1 DEF Without, A!Without
<1>6. Good(allocated')
  <2>1. \A x \in DOMAIN allocated' :
           /\ x \in Nat /\ allocated'[x] \in Nat /\ 0 < allocated'[x]
           /\ x + allocated'[x] <= HeapSize
    BY <1>3, <1>5
  <2>2. ASSUME NEW x \in DOMAIN allocated', NEW y \in DOMAIN allocated', x < y
        PROVE  x + allocated'[x] <= y
    BY <1>3, <1>5, <2>2
  <2> QED
    BY <1>5, <2>1, <2>2, GoodIntro
<1>7. Apart(free, allocated')
  BY <1>2, <1>5 DEF Apart
<1>8. \A b \in DOMAIN allocated' : a + n <= b \/ b + allocated'[b] <= a
  BY <1>3, <1>5
<1>9. /\ Good(free') /\ BaseApart(free')
      /\ \A u \in Units : Covers(free, u) \/ (a <= u /\ u < a + n) => Covers(free', u)
      /\ Apart(free', allocated')
  BY <1>1, <1>2, <1>3, <1>4, <1>6, <1>7, <1>8, InsertFreeFacts DEF Good
<1>10. ASSUME NEW u \in Units PROVE Covers(free', u) \/ Covers(allocated', u)
  <2>1. CASE Covers(free, u)
    BY <2>1, <1>9
  <2>2. CASE Covers(allocated, u)
    <3>1. PICK x \in DOMAIN allocated : x <= u /\ u < x + allocated[x]
      BY <2>2 DEF Covers
    <3>2. CASE x = a
      BY <3>1, <3>2, <1>9
    <3>3. CASE x # a
      BY <3>1, <3>3, <1>5 DEF Covers
    <3> QED
      BY <3>2, <3>3
  <2> QED
    BY <2>1, <2>2, <1>2
<1>11. status' \in {"live", "destroyed", "fatal"}
  BY <1>1, IInvForm
<1>12. BaseMerged'
  BY <1>9 DEF BaseMerged, BaseApart
<1> QED
  BY <1>6, <1>9, <1>10, <1>11, <1>12 DEF IInv, TypeOK, Tiling, Good

\* Every step preserves IInv.
LEMMA NextIInv == IInv /\ [Next]_vars => IInv'
<1> SUFFICES ASSUME IInv, [Next]_vars PROVE IInv'
  OBVIOUS
<1>1. ASSUME NEW n \in Sizes, Alloc(n) PROVE IInv'
  BY <1>1, AllocIInv
<1>2. ASSUME NEW a \in DOMAIN allocated, Free(a) PROVE IInv'
  BY <1>2, FreeIInv
<1>3. ASSUME UNCHANGED <<free, allocated>>,
             status' \in {"live", "destroyed", "fatal"}
      PROVE  IInv'
  BY <1>3 DEF IInv, TypeOK, PositiveBlocks, Tiling, Inside, SelfApart, Apart,
              Covers, BaseMerged
<1>4. ASSUME NEW n \in Sizes, AllocFails(n) PROVE IInv'
  BY <1>3, <1>4 DEF AllocFails
<1>5. CASE Destroy
  BY <1>3, <1>5 DEF Destroy
<1>6. CASE UNCHANGED vars
  BY <1>3, <1>6 DEF vars, IInv, TypeOK
<1> QED
  BY <1>1, <1>2, <1>4, <1>5, <1>6 DEF Next

\* IInv is an invariant.
THEOREM IInvInvariant == Spec => []IInv
BY InitIInv, NextIInv, PTL DEF Spec

\* The free list and the callers' blocks keep their types.
THEOREM TypeCorrect == Spec => []TypeOK
<1>1. IInv => TypeOK
  BY DEF IInv
<1> QED
  BY <1>1, IInvInvariant, PTL

\* simple_heap neither loses memory nor hands a unit out twice.
THEOREM TilingCorrect == Spec => []Tiling
<1>1. IInv => Tiling
  BY DEF IInv
<1> QED
  BY <1>1, IInvInvariant, PTL

\* When everything has been freed the base block is the whole heap, so
\* the REQUIRE in ~simple_heap holds.
THEOREM BalancedHeapIsWhole == Spec => []BalancedIsWhole
<1>1. IInv => BalancedIsWhole
  <2> SUFFICES ASSUME IInv, DOMAIN allocated = {} PROVE IsWhole
    BY DEF BalancedIsWhole
  <2>1. \A u \in Units : \E x \in DOMAIN free : x <= u /\ u < x + free[x]
    BY DEF IInv, Tiling, Covers
  <2>2. /\ \A x \in DOMAIN free :
              x \in Nat /\ free[x] \in Nat /\ 0 < free[x] /\ x + free[x] <= HeapSize
        /\ \A x, y \in DOMAIN free : x < y => x + free[x] <= y
    BY IInvForm, GoodFacts
  <2>3. 0 \in DOMAIN free
    BY <2>1, <2>2 DEF Units, A!Units
  <2>4. free[0] = HeapSize
    <3> SUFFICES ASSUME free[0] < HeapSize PROVE FALSE
      BY <2>2, <2>3
    <3>1. PICK x \in DOMAIN free : x <= free[0] /\ free[0] < x + free[x]
      BY <2>1, <2>2, <2>3 DEF Units, A!Units
    <3>2. x = free[0]
      BY <2>2, <2>3, <3>1
    <3> QED
      BY <2>3, <3>2 DEF IInv, BaseMerged
  <2> QED
    BY <2>3, <2>4 DEF IsWhole
<1> QED
  BY <1>1, IInvInvariant, PTL

\* Every behaviour of simple_heap is one of the abstract allocator: alloc
\* returns a region inside the heap that overlaps no region in use.
THEOREM Refinement == Spec => Implements
<1>1. Init => A!Init
  BY DEF Init, A!Init
<1>2. IInv /\ [Next]_vars => [A!Next]_allocated
  <2> SUFFICES ASSUME IInv, [Next]_vars PROVE [A!Next]_allocated
    OBVIOUS
  <2>1. ASSUME NEW n \in Sizes, Alloc(n) PROVE A!Alloc(n)
    <3>1. PICK a \in DOMAIN free :
             n <= free[a] /\ allocated' = With(allocated, a, n)
      BY <2>1 DEF Alloc, FirstFit
    <3>2. n \in Nat
      OBVIOUS
    <3>3. a \in Nat /\ free[a] \in Nat /\ a + free[a] <= HeapSize /\ a \in A!Units
      BY IInvForm, GoodFacts DEF Good, PositiveBlocks, Units
    <3>4. \A b \in DOMAIN allocated : b \in Nat /\ allocated[b] \in Nat
      BY IInvForm, GoodFacts
    <3>5. \A b \in DOMAIN allocated : a + n <= b \/ b + allocated[b] <= a
      BY <3>1, <3>2, <3>3, <3>4, IInvForm DEF Apart, Disjoint, A!Disjoint
    <3>6. a + n <= HeapSize
      BY <3>1, <3>2, <3>3
    <3> QED
      BY <3>1, <3>3, <3>5, <3>6 DEF A!Alloc, A!Disjoint, With
  <2>2. ASSUME NEW a \in DOMAIN allocated, Free(a) PROVE A!Free(a)
    BY <2>2 DEF Free, A!Free, Without
  <2> QED
    BY <2>1, <2>2 DEF Next, A!Next, AllocFails, Destroy, vars
<1> QED
  BY <1>1, <1>2, IInvInvariant, PTL DEF Spec, Implements, A!Spec
===============================================================================
