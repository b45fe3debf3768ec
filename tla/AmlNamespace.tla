---------------------------- MODULE AmlNamespace ----------------------------
(***************************************************************************)
(* The names of exp/aml/aml.cpp and the search rules of name_space.  A     *)
(* path is a sequence of name segments; a name string is a record: the     *)
(* root character, the number of parent prefix characters, and the path.   *)
(* bindings_ is a sequence of [name |-> path, id |-> node].                *)
(***************************************************************************)
EXTENDS Naturals, Sequences, SequencesExt, FiniteSetsExt

NameString(root, up, path) == [root |-> root, up |-> up, path |-> path]

(* find_binding by name: the index of the first binding with this name, or 0 *)
FindBinding(bs, path) == SelectInSeq(bs, LAMBDA b : b.name = path)

(* open_scope: what it requires, and the namespace it leaves *)
OpenLegal(name) == name.up = 0
Opened(cur, name) == (IF name.root THEN <<>> ELSE cur) \o name.path

(***************************************************************************)
(* lookup_binding.  A single segment is looked for in the current scope    *)
(* and then in its parents; every other form is looked for from the root,  *)
(* also a name with parent prefixes: they are only required to exist.      *)
(***************************************************************************)
LookupLegal(cur, name) == name.root \/ name.up <= Len(cur)

SearchRules(name) == ~name.root /\ name.up = 0 /\ Len(name.path) = 1

Lookup(bs, cur, name) ==
    LET hit(k) == FindBinding(bs, SubSeq(cur, 1, k) \o name.path)
        found  == {k \in 0..Len(cur) : hit(k) # 0}
    IN CASE ~SearchRules(name) -> FindBinding(bs, name.path)
         [] OTHER              -> IF found = {} THEN 0 ELSE hit(Max(found))
=============================================================================
