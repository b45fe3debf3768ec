------------------------------ MODULE Containers ------------------------------
(***************************************************************************)
(* The containers the kernel and its programs use: a tree with an iterator,*)
(* two vectors on a heap, and a program that edits its command line in a   *)
(* vector.  They have no state in common, so a behaviour is one of them.   *)
(***************************************************************************)
EXTENDS Tree, KVector

CONSTANTS
    Bounds,   \* the keys searched for
    Letters, ExitWord, Suffix, cmd_max

VARIABLES
    part,     \* "tree" | "vectors" | "shell"
    tree,
    at,       \* the node of an iterator, Null for end()
    phase, cmd, line, run

Shell == INSTANCE Shell

tvars == <<tree, at>>
svars == <<phase, cmd, line, run>>
vars == <<part, kvars, tvars, svars>>

Order == InOrder(tree)

Init ==
    /\ part \in {"tree", "vectors", "shell"}
    /\ KInit /\ Shell!ShellInit
    /\ tree = EmptyTree /\ at = Null

insert(n) == n \notin ToSet(Order) /\ tree' = do_insert(tree, n) /\ UNCHANGED at

\* An iterator at the node that goes is given up by the caller.
Extract(n) ==
    /\ n \in ToSet(Order)
    /\ tree' = remove(tree, n)
    /\ at' = IF at = n THEN Null ELSE at

begin == at' = minimum_node(tree, tree.root) /\ UNCHANGED tree

\* operator++
Increment ==
    /\ at # Null
    /\ at' = successor_node(tree, at)
    /\ tree' = Check(tree, ClimbOk(tree, at))

Search(k) == at' \in {lower_bound(tree, k), upper_bound(tree, k)} /\ UNCHANGED tree

TreeNext ==
    \/ \E n \in Nodes : insert(n) \/ Extract(n)
    \/ begin \/ Increment
    \/ \E k \in Bounds : Search(k)

Next ==
    /\ UNCHANGED part
    /\ \/ part = "tree" /\ TreeNext /\ UNCHANGED <<kvars, svars>>
       \/ part = "vectors" /\ KNext /\ UNCHANGED <<tvars, svars>>
       \/ part = "shell" /\ Shell!ShellNext /\ UNCHANGED <<kvars, tvars>>

Fairness == WF_vars(KStep /\ UNCHANGED <<part, tvars, svars>>)

Spec == Init /\ [][Next]_vars /\ Fairness

-------------------------------------------------------------------------------
\* The tree's links are nodes or null (tree_node), and those of the vectors
\* are as they should be: places up to the end hold constructed elements.
TypeOK ==
    /\ tree.root \in Nodes \cup {Null}
    /\ \A side \in {"parent", "left", "right"} : tree[side] \in [Nodes -> Nodes \cup {Null}]
    /\ at \in Nodes \cup {Null}
    /\ KTypeOK /\ Shell!ShellTypeOK

\* No assertion of tree.h fails, and every child knows its parent
\* (check_tree), whatever is removed from whatever shape.
AssertsHold == tree.ok /\ check_tree(tree)

\* A node that is not in the tree can be removed again without harm, as
\* do_unmap_memory does with every mapping.
RemovedTwice == \A n \in Nodes \ ToSet(Order) : remove(tree, n) = tree

SL == INSTANCE SortedList WITH list <- Order, at <- at

\* The tree is the sorted list it stands for, step by step: insertions keep
\* equal keys in the order of their insertion, a removal takes out that
\* element and no other, and an iterator goes on from where it is through
\* the elements that are there now (tree::insert, remove, iterator).
Refines == SL!Spec

\* The searches descend along one path, and find in whatever shape the
\* removals have left the first element not below, and above, the key.
SearchesExact ==
    \A k \in Bounds :
      /\ lower_bound(tree, k) = SL!FirstIn(SelectSeq(Order, LAMBDA x : Key[x] >= k))
      /\ upper_bound(tree, k) = SL!FirstIn(SelectSeq(Order, LAMBDA x : Key[x] > k))

\* What is on the screen is the command (see Shell), after any typing
\* and erasing (userexe.cpp, main).
ScreenExact == Shell!ScreenExact

\* The name of the program stays in the vector while it runs (main).
FileNamed == Shell!FileNamed

\* The tree has the shape that its searches and removals rely on, after any
\* insertions and removals, doubled ones included (tree.h, mm.cpp:273).
TreeSound == TypeOK /\ AssertsHold /\ SearchesExact /\ RemovedTwice

\* The command on the screen and the name of the program that runs are what
\* was typed (userexe.cpp, main and tftp_execute).
ShellSound == ScreenExact /\ FileNamed
===============================================================================
