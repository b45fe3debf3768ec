--------------------------- MODULE MCMemoryManager ---------------------------
(* MemoryManager with tables of three entries: 81 virtual pages, of which  *)
(* 54 .. 80 are the kernel's, 54 .. 62 and 80 mapped when it starts.       *)
EXTENDS MemoryManager, TLC

\* The bump pointers start below an executable, and behind the identity map.
MCFreeVirtBase == [m \in Managers |-> IF m = Kernel THEN 65 ELSE 1]

\* The second section crosses into another page directory.
MCImage == <<[virt |-> 12, length |-> 1, type |-> {"read", "execute", "user"}],
             [virt |-> 17, length |-> 2, type |-> {"read", "write", "user"}]>>

Symmetry == Permutations(Users)
==============================================================================
