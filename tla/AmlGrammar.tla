----------------------------- MODULE AmlGrammar -----------------------------
(***************************************************************************)
(* The grammar that exp/aml/aml.cpp reads: what follows each opcode, as a  *)
(* sequence of symbols.  The opcodes are the enumerators of the source     *)
(* (and_, if_ ... without the underscore).                                 *)
(*                                                                         *)
(*   "arg"    parse_term_arg, a null result is passed on                   *)
(*   "arg?"   parse_term_arg, the result is used without looking at it     *)
(*   "super"  parse_super_name       "target"  parse_target                *)
(*   "name"   parse_name_string      "data"    parse_data_ref_object       *)
(*   "pkg"    adjust_with_pkg_length "open"    name_space::open_scope      *)
(*   "byte"   bytes without a meaning here                                 *)
(*   "flags"  the flags of a method or a mutex                             *)
(*   "num"    the number of elements of a package                          *)
(*   "terms"  parse_term_list or parse_object_list, and REQUIRE of it      *)
(*   "stmts"  parse_term_list, a null result is passed on                  *)
(*   "fields" parse_field_list       "elems"   the elements of a package   *)
(*   "skip"   the rest of the package is not parsed                        *)
(*   "else"   the optional else of an if                                   *)
(***************************************************************************)
EXTENDS Naturals, Sequences

ArgOrLocal == {"local_0", "local_1", "local_2", "local_3", "local_4", "local_5",
               "local_6", "local_7", "arg_0", "arg_1", "arg_2", "arg_3",
               "arg_4", "arg_5", "arg_6"}

(* opcodes whose node is the value itself; the width is that of make_const_node's T *)
ConstBits == [zero |-> 8, one |-> 8, ones |-> 8,
              byte |-> 8, word |-> 16, dword |-> 32, qword |-> 64]

(* the data objects that are a package of their own: parse_data_object *)
DataGrammar ==
    [buffer  |-> <<"pkg", "arg?", "skip">>,
     package |-> <<"pkg", "num", "elems">>]

BinaryOps  == {"add", "concat", "subtract", "multiply", "shift_left",
               "shift_right", "and", "or", "xor", "index"}
UnaryOps   == {"not", "find_set_left_bit", "find_set_right_bit"}
NoTarget   == {"increment", "decrement", "size_of", "object_type"}
LogicalOps == {"land", "lor", "lequal", "lgreater", "lless"}

(* is_type2_opcode *)
Type2Ops ==
    BinaryOps \cup UnaryOps \cup NoTarget \cup LogicalOps
        \cup {"divide", "deref_of", "lnot", "mid", "cond_ref_of", "sleep",
              "acquire", "release"}

(* op_node_base<arity>::parse: the arguments, then the target if there is one *)
OpNode(arity, target) ==
    [i \in 1..arity |-> "arg"] \o (IF target THEN <<"target">> ELSE <<>>)

(* parse_type2_opcode.  lnot in front of a comparison is one node for both: what is read is the same *)
Type2Grammar(op) ==
    CASE op \in BinaryOps  -> OpNode(2, TRUE)
      [] op \in UnaryOps   -> OpNode(1, TRUE)
      [] op \in NoTarget   -> OpNode(1, FALSE)
      [] op \in LogicalOps -> OpNode(2, FALSE)
      [] op = "divide"     -> <<"arg?", "arg?", "target", "target">>
      [] op \in {"deref_of", "sleep"} -> <<"arg?">>
      [] op = "lnot"       -> <<"arg">>
      [] op = "mid"        -> OpNode(3, TRUE)
      [] op = "cond_ref_of" -> <<"super", "target">>
      [] op = "acquire"    -> <<"super", "byte">>
      [] op = "release"    -> <<"super">>

CreateFields == {"create_dword_field", "create_word_field", "create_byte_field",
                 "create_bit_field", "create_qword_field"}

(* parse_term_obj: NameSpaceModifierObject and DefMethod *)
ScopeGrammar ==
    [name   |-> <<"name", "open", "data">>,
     scope  |-> <<"pkg", "name", "open", "terms">>,
     method |-> <<"pkg", "name", "open", "flags", "skip">>]

(* parse_term_obj: the statements *)
StatementGrammar ==
    [store        |-> <<"arg", "super">>,
     notify       |-> <<"super", "arg?">>,
     if           |-> <<"pkg", "arg", "stmts", "else">>,
     while        |-> <<"pkg", "arg", "stmts">>,
     noop         |-> <<>>,
     return       |-> <<"arg">>,
     mutex        |-> <<"name", "flags">>,
     create_field |-> <<"arg?", "arg?", "arg?", "name">>,
     fatal        |-> <<"byte", "byte", "arg?">>]

(* parse_term_obj: regions, fields and the objects with an object list *)
ObjectGrammar ==
    [op_region    |-> <<"name", "byte", "arg?", "arg?">>,
     field        |-> <<"pkg", "name", "byte", "fields">>,
     device       |-> <<"pkg", "name", "open", "terms">>,
     processor    |-> <<"pkg", "name", "byte", "byte", "byte", "open", "terms">>,
     power_res    |-> <<"pkg", "name", "byte", "byte", "open", "terms">>,
     thermal_zone |-> <<"pkg", "name", "open", "terms">>,
     index_field  |-> <<"pkg", "name", "name", "byte", "fields">>]

TermGrammar(op) ==
    CASE op \in DOMAIN ScopeGrammar     -> ScopeGrammar[op]
      [] op \in DOMAIN StatementGrammar -> StatementGrammar[op]
      [] op \in DOMAIN ObjectGrammar    -> ObjectGrammar[op]
      [] op \in CreateFields            -> <<"arg?", "arg?", "name", "open">>
      [] op \in Type2Ops                -> Type2Grammar(op)

TermOps == DOMAIN ScopeGrammar \cup DOMAIN StatementGrammar \cup DOMAIN ObjectGrammar
               \cup CreateFields \cup Type2Ops

(* opcodes of nodes that register a name when they are complete *)
Binders    == {"name", "method"} \cup CreateFields
Containers == {"scope", "device", "processor", "power_res", "thermal_zone"}

(***************************************************************************)
(* parse_pkg_length and adjust_with_pkg_length on the bytes b of a view:   *)
(* the number of bytes the package extends over, its length included, or   *)
(* 0 when a REQUIRE fails.                                                 *)
(***************************************************************************)
PkgLengthBytes(b) == 1 + (b[1] \div 64)

PkgLengthValue(b) ==
    CASE PkgLengthBytes(b) = 1 -> b[1]
      [] PkgLengthBytes(b) = 2 -> (b[1] % 16) + 16 * b[2]
      [] PkgLengthBytes(b) = 3 -> (b[1] % 16) + 16 * (b[2] + 256 * b[3])

PkgExtent(b, size) ==
    IF \/ PkgLengthBytes(b) = 4              \* "TODO: Handle 3 extra PkgLength bytes"
       \/ PkgLengthBytes(b) > size
       \/ PkgLengthValue(b) < PkgLengthBytes(b)
       \/ PkgLengthValue(b) > size
    THEN 0
    ELSE PkgLengthValue(b)
=============================================================================
