---------------------------------- MODULE Tree ----------------------------------
(***************************************************************************)
(* attos::tree (attos/tree.h): an unbalanced search tree of linked nodes   *)
(* with parent pointers, in which the kernel keeps its memory mappings.    *)
(*                                                                         *)
(* A tree is [root, parent, left, right, ok]: ok says that no assert has   *)
(* failed.  A loop along the nodes is a fold of as many turns as there are *)
(* nodes.                                                                  *)
(***************************************************************************)
EXTENDS Integers, FiniteSets, SequencesExt

CONSTANTS
    Nodes,
    Key,     \* key of each node; keys may be equal
    Null

ASSUME TreeAssumption == IsFiniteSet(Nodes) /\ Key \in [Nodes -> Int] /\ Null \notin Nodes

Turns == [i \in 1 .. Cardinality(Nodes) |-> i]

EmptyTree ==
    LET none == [n \in Nodes |-> Null]
    IN [root |-> Null, parent |-> none, left |-> none, right |-> none, ok |-> TRUE]

Check(t, p) == [t EXCEPT !.ok = @ /\ p]

minimum_node(t, n) ==
    FoldLeft(LAMBDA m, i : IF m = Null THEN m ELSE IF t.left[m] = Null THEN m ELSE t.left[m], n, Turns)

\* Mutant: only one step upwards.
ClimbOnce(t, n) ==
    IF t.parent[n] = Null THEN n ELSE IF t.right[t.parent[n]] = n THEN t.parent[n] ELSE n

\* Upwards until the node is not its parent's right child.
Climb(t, n) ==
    FoldLeft(LAMBDA m, i : IF t.parent[m] = Null THEN m
                           ELSE IF t.right[t.parent[m]] = m THEN t.parent[m] ELSE m, n, Turns)

successor_node(t, n) ==
    IF n = Null THEN Null
    ELSE IF t.right[n] # Null THEN minimum_node(t, t.right[n])
    ELSE t.parent[Climb(t, n)]

\* The assertion of successor_node: the parent found has the node on its left.
ClimbOk(t, n) ==
    t.right[n] = Null =>
      LET top == Climb(t, n) IN t.parent[top] # Null => t.left[t.parent[top]] = top

-------------------------------------------------------------------------------
(* insert                                                                  *)

compare(n, m) == Key[n] < Key[m]

\* The place of a new node: its parent, and the side.
Place(t, n) ==
    FoldLeft(LAMBDA p, i :
                 IF p.at = Null THEN p
                 ELSE LET side == IF compare(n, p.at) THEN "left" ELSE "right"
                      IN [parent |-> p.at, side |-> side, at |-> t[side][p.at]],
             [parent |-> Null, side |-> "root", at |-> t.root], Turns)

do_insert(t, n) ==
    LET p == Place(t, n)
        u == Check(t, t.parent[n] = Null /\ t.left[n] = Null /\ t.right[n] = Null)
        v == [u EXCEPT !.parent[n] = p.parent]
    IN IF p.parent = Null THEN [v EXCEPT !.root = n] ELSE [v EXCEPT ![p.side][p.parent] = n]

-------------------------------------------------------------------------------
(* remove                                                                  *)

update_parent_of(t, removed, replacement) ==
    LET p == t.parent[removed]
    IN IF p = Null THEN t
       ELSE IF t.left[p] = removed THEN [t EXCEPT !.left[p] = replacement]
       ELSE [Check(t, t.right[p] = removed) EXCEPT !.right[p] = replacement]

SetParent(t, n, p) == IF n = Null THEN t ELSE [t EXCEPT !.parent[n] = p]

\* Mutant: the right child is forgotten.
ReparentLeft(t, n) == SetParent(t, t.left[n], n)

reparent_child_nodes(t, n) == SetParent(SetParent(t, t.left[n], n), t.right[n], n)

\* The successor is the right child: the node becomes its right child.
SwapWithChild(t, n, s) ==
    LET u == update_parent_of(Check(t, t.parent[s] = n), n, s)
    IN [u EXCEPT !.parent[s] = u.parent[n],
                 !.left[n] = u.left[s], !.left[s] = u.left[n],
                 !.right[n] = u.right[s], !.right[s] = n]

\* The successor is further down: they change places.
SwapWithFar(t, n, s) ==
    LET u == update_parent_of(update_parent_of(Check(t, s # t.left[n] /\ s # t.parent[n]), s, n), n, s)
    IN [u EXCEPT !.left[n] = u.left[s], !.left[s] = u.left[n],
                 !.right[n] = u.right[s], !.right[s] = u.right[n],
                 !.parent[n] = u.parent[s], !.parent[s] = u.parent[n]]

SwapWithSuccessor(t, n) ==
    LET s == successor_node(t, n)
        u == IF s = t.right[n] THEN SwapWithChild(t, n, s) ELSE SwapWithFar(t, n, s)
        v == reparent_child_nodes(reparent_child_nodes(u, n), s)
    IN IF v.root = n THEN [v EXCEPT !.root = s] ELSE v

\* The node without children but one, r, is taken out.
Unlinked(t, n, r) ==
    LET u == SetParent(update_parent_of(t, n, r), r, t.parent[n])
    IN [u EXCEPT !.root = IF @ = n THEN r ELSE @]

\* Mutant: the node keeps its parent.
RemoveKeepsParent(t, n) ==
    LET u == IF t.left[n] # Null /\ t.right[n] # Null THEN SwapWithSuccessor(t, n) ELSE t
        r == IF u.left[n] # Null THEN u.left[n] ELSE u.right[n]
    IN Unlinked([u EXCEPT !.left[n] = Null, !.right[n] = Null], n, r)

\* A node with two children changes places, after which it has one at most.
remove(t, n) ==
    LET u == IF t.left[n] # Null /\ t.right[n] # Null THEN SwapWithSuccessor(t, n) ELSE t
        r == IF u.left[n] # Null THEN u.left[n] ELSE u.right[n]
        v == Check(u, u.left[n] = Null \/ u.right[n] = Null)
    IN [Unlinked([v EXCEPT !.left[n] = Null, !.right[n] = Null], n, r) EXCEPT !.parent[n] = Null]

-------------------------------------------------------------------------------
(* Searches                                                                *)

\* Mutant: an element with the key itself is passed by.
LowerStrict(t, k) ==
    FoldLeft(LAMBDA p, i : IF p.n = Null THEN p
                           ELSE IF Key[p.n] <= k THEN [p EXCEPT !.n = t.right[p.n]]
                           ELSE [n |-> t.left[p.n], res |-> p.n],
             [n |-> t.root, res |-> Null], Turns).res

lower_bound(t, k) ==
    FoldLeft(LAMBDA p, i : IF p.n = Null THEN p
                           ELSE IF Key[p.n] < k THEN [p EXCEPT !.n = t.right[p.n]]
                           ELSE [n |-> t.left[p.n], res |-> p.n],
             [n |-> t.root, res |-> Null], Turns).res

upper_bound(t, k) ==
    FoldLeft(LAMBDA p, i : IF p.n = Null THEN p
                           ELSE IF k < Key[p.n] THEN [n |-> t.left[p.n], res |-> p.n]
                           ELSE [p EXCEPT !.n = t.right[p.n]],
             [n |-> t.root, res |-> Null], Turns).res

-------------------------------------------------------------------------------
(* The elements in order, by the shape of the tree alone, and check_tree.  *)

Walk(t) ==
    LET walk[d \in 0 .. Cardinality(Nodes)] ==
          IF d = 0 THEN [n \in Nodes \cup {Null} |-> <<>>]
          ELSE LET below == walk[d - 1]
               IN [n \in Nodes \cup {Null} |->
                     IF n = Null THEN <<>> ELSE below[t.left[n]] \o <<n>> \o below[t.right[n]]]
    IN walk[Cardinality(Nodes)]

InOrder(t) == Walk(t)[t.root]

check_tree(t) ==
    \A n \in ToSet(InOrder(t)) : /\ t.left[n] # Null => t.parent[t.left[n]] = n
                                 /\ t.right[n] # Null => t.parent[t.right[n]] = n
================================================================================
