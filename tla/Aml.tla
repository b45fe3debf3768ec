--------------------------------- MODULE Aml ---------------------------------
(***************************************************************************)
(* The AML interpreter of exp/aml/aml.cpp: the recursive descent parser    *)
(* over a definition block, the namespace it fills, and process(), which   *)
(* then looks at the _HID or _ADR of every device and runs it when it is a *)
(* method.                                                                 *)
(*                                                                         *)
(* The input is chosen token by token while it is read; a token (opcode,   *)
(* name string, package length, constant) counts one in pos and in the     *)
(* lengths.  The stack holds the active parse functions: a list, or a term *)
(* with the grammar symbols it has still to read; the symbol that is being *)
(* parsed by the frame above stays in front.  REQUIRE stops the machine:   *)
(* pc is "fatal".                                                          *)
(***************************************************************************)
EXTENDS AmlGrammar, AmlNamespace, TLC

CONSTANTS Names,      \* the name strings a table may use
          Tables,     \* bounds on the tables: [ops |-> opcodes used, size |-> tokens]
          BodySize,   \* tokens of the body of a method that is evaluated
          MaxCount,   \* bound on a method's arguments and a package's elements
          FirstRoom,  \* the first capacity of a kvector (10 in containers.h)
          HID, ADR    \* the segments _HID and _ADR

VARIABLES ops,        \* the opcodes that occur in this table
          pc, pos, stack,
          cur,        \* name_space::cur_namespace_
          bindings,   \* name_space::bindings_
          room,       \* its capacity
          node,       \* the nodes alive that have a name or are a container
          it,         \* process(): index of the device loop
          table       \* history: the bindings when the table was parsed

vars == <<ops, pc, pos, stack, cur, bindings, room, node, it, table>>
names == <<cur, bindings, room, node>>

Lists    == {"terms", "fields", "elems"}
Dangling == 0

(* what a Name can stand for besides a constant of 8 to 64 bits; value holds strings of up to 64 characters *)
ShortString == 65
LongString  == 66
Composite   == 67

Frame(op, todo, end) ==
    [op |-> op, todo |-> todo, end |-> end, name |-> NameString(TRUE, 0, <<>>),
     opened |-> FALSE, old |-> <<>>, mark |-> Len(node), val |-> 0, count |-> 0,
     bad |-> FALSE]

(* a node: its opcode, the argument count of a method or the kind of a Name's object, and the chain of helper scopes *)
Node(op, val) == [op |-> op, val |-> val, next |-> 0, prev |-> 0]

(* process() registers \_OS_ and \_OSI before it parses *)
Predefined == <<Node("string", ShortString), Node("method", 1)>>
PredefinedNames == <<[name |-> <<"_OS_">>, id |-> 1], [name |-> <<"_OSI">>, id |-> 2]>>

(* Mutant: the last place is used twice. *)
RoomOneShort(have, n) == IF n <= have + 1 THEN have
                         ELSE Max({n - 1, IF have = 0 THEN FirstRoom ELSE 2 * have})

Room(have, n) == IF n <= have THEN have
                 ELSE Max({n, IF have = 0 THEN FirstRoom ELSE 2 * have})

Init ==
    /\ pc = "parse" /\ pos = 0 /\ cur = <<>> /\ it = 1 /\ table = <<>>
    /\ node = Predefined /\ bindings = PredefinedNames /\ room = Room(0, 2)
    /\ \E t \in Tables : ops = t.ops /\ stack = <<Frame("terms", <<>>, t.size)>>

-----------------------------------------------------------------------------
(* Helpers: the frame on top, and what a step does to the stack *)

Parsing  == pc \in {"parse", "eval"}
Top      == Last(stack)
IsList   == Top.op \in Lists
Wants(s) == Parsing /\ ~IsList /\ Top.todo # <<>> /\ Head(Top.todo) = s
HasToken == pos < Top.end

ItemDone(f) == IF f.op = "elems" THEN [f EXCEPT !.count = @ + 1]
               ELSE IF f.op \in Lists THEN f
               ELSE [f EXCEPT !.todo = Tail(@)]

WithTop(f) == [stack EXCEPT ![Len(stack)] = f]
Pushed(op, todo) == Append(stack, Frame(op, todo, Top.end))

(* the frame on top is complete: the one below continues behind it *)
Returned(bad) ==
    [Front(stack) EXCEPT ![Len(stack) - 1] = [ItemDone(@) EXCEPT !.bad = @ \/ bad]]

(* REQUIRE fails: the machine halts and nothing of the state is used again *)
Stop == /\ pc' = "fatal" /\ pos' = 0 /\ stack' = <<>> /\ it' = 1 /\ table' = <<>>
        /\ cur' = <<>> /\ bindings' = <<>> /\ node' = <<>> /\ room' = 0 /\ ops' = {}

Read(newStack) == /\ HasToken
                  /\ pos' = pos + 1
                  /\ stack' = newStack
                  /\ UNCHANGED <<ops, pc, names, it, table>>

(* ~container_node *)
Unlink(nodes, id) ==
    LET n == nodes[id] IN
    [i \in DOMAIN nodes |->
        [nodes[i] EXCEPT !.next = IF i = n.prev THEN n.next ELSE @,
                         !.prev = IF i = n.next THEN n.prev ELSE @]]

(* the nodes created since mark are destroyed, and their bindings with them: ~scope_registration *)
Destroyed(nodes, mark) ==
    SubSeq(FoldLeft(Unlink, nodes, [i \in 1..(Len(nodes) - mark) |-> mark + i]), 1, mark)

Released(bs, mark) == SelectSeq(bs, LAMBDA b : b.id <= mark)

(***************************************************************************)
(* A parse function returns a null node.  op_node_base::parse, parse_list  *)
(* and the statements pass it on and drop what they have parsed; an "arg?" *)
(* takes it as if it were a node; the caller of a term list that is not a  *)
(* statement's, process() and do_eval have a REQUIRE.                      *)
(***************************************************************************)
Meets == {i \in 1..Len(stack) : /\ stack[i].op \notin Lists
                                /\ Head(stack[i].todo) \in {"arg?", "terms"}}

NullResult ==
    IF Meets = {} THEN Stop
    ELSE LET m == Max(Meets)
             f == stack[m]
             mark == IF m = Len(stack) THEN Len(node) ELSE stack[m + 1].mark
             unused == f.op = "create_field" /\ Len(f.todo) = 3   \* bit_index is not kept
         IN IF Head(f.todo) = "terms" THEN Stop
            ELSE /\ stack' = Append(SubSeq(stack, 1, m - 1),
                                    [ItemDone(f) EXCEPT !.bad = @ \/ ~unused])
                 /\ pos' = pos + 1
                 /\ node' = Destroyed(node, mark)
                 /\ bindings' = Released(bindings, mark)
                 /\ UNCHANGED <<ops, pc, cur, room, it, table>>

-----------------------------------------------------------------------------
(* Leaves of the grammar *)

(* consume() and its relatives at the end of the view *)
EndOfData ==
    /\ Parsing /\ ~IsList /\ Top.todo # <<>> /\ ~HasToken
    /\ Head(Top.todo) \in {"byte", "flags", "num", "pkg", "name", "data", "arg", "arg?", "super", "target"}
    /\ Stop

ReadByte == Wants("byte") /\ Read(WithTop(ItemDone(Top)))

(* MethodFlags: bits 0-2 are the argument count; SyncFlags: the upper half must be 0 *)
ReadFlags ==
    /\ Wants("flags")
    /\ \/ Top.op = "method" /\ \E n \in 0..MaxCount : Read(WithTop([ItemDone(Top) EXCEPT !.val = n]))
       \/ Top.op = "mutex" /\ Read(WithTop(ItemDone(Top)))
       \/ Top.op = "mutex" /\ HasToken /\ Stop

ReadNum ==
    /\ Wants("num")
    /\ \E n \in 0..MaxCount : Read(WithTop([ItemDone(Top) EXCEPT !.val = n]))

(* Mutant: the length is counted from behind its own encoding. *)
ReadPkgFromBehind ==
    /\ Wants("pkg")
    /\ \E len \in 1..(Top.end - pos) : Read(WithTop([ItemDone(Top) EXCEPT !.end = pos + 1 + len]))

(* adjust_with_pkg_length: the package must lie in the view *)
ReadPkg ==
    /\ Wants("pkg")
    /\ \/ \E len \in 1..(Top.end - pos) : Read(WithTop([ItemDone(Top) EXCEPT !.end = pos + len]))
       \/ HasToken /\ Stop

ReadName ==
    /\ Wants("name")
    /\ \E n \in Names : Read(WithTop([ItemDone(Top) EXCEPT !.name = n]))

SkipRest ==
    /\ Wants("skip")
    /\ pos' = Top.end
    /\ stack' = WithTop(ItemDone(Top))
    /\ UNCHANGED <<ops, pc, names, it, table>>

-----------------------------------------------------------------------------
(* Operands *)

(* parse_type2_opcode, "Method invocation": whatever the name is bound to now decides how much is read *)
NameRef(n) ==
    LET k == Lookup(bindings, cur, n)
        d == node[bindings[k].id]
    IN /\ HasToken
       /\ IF ~LookupLegal(cur, n) THEN Stop
          ELSE IF k = 0 THEN NullResult
          ELSE IF d.op = "method" THEN Read(Pushed("expr", OpNode(d.val, FALSE)))
          ELSE Read(WithTop(ItemDone(Top)))

(* parse_data_object.  Kind is what a Name whose object this is evaluates to *)
DataObject ==
    \/ \E op \in ops \cap DOMAIN ConstBits :
         Read(WithTop([ItemDone(Top) EXCEPT !.val = IF Top.op = "name" THEN ConstBits[op] ELSE @]))
    \/ \E long \in BOOLEAN :
         "string" \in ops /\ Read(WithTop([ItemDone(Top) EXCEPT
              !.val = IF Top.op # "name" THEN @ ELSE IF long THEN LongString ELSE ShortString]))
    \/ \E op \in ops \cap DOMAIN DataGrammar :
         Read([Pushed(op, DataGrammar[op]) EXCEPT
              ![Len(stack)].val = IF Top.op = "name" THEN Composite ELSE @])

(* parse_data_ref_object of anything that is not a data object: REQUIRE(is_data_object(op)) *)
ReadData == Wants("data") /\ (DataObject \/ (HasToken /\ Stop))

(* parse_term_arg *)
ReadArg ==
    /\ Wants("arg") \/ Wants("arg?")
    /\ \/ ops \cap ArgOrLocal # {} /\ Read(WithTop(ItemDone(Top)))      \* parse_arg_or_local
       \/ DataObject
       \/ \E op \in ops \cap Type2Ops : Read(Pushed("expr", Type2Grammar(op)))
       \/ \E n \in Names : NameRef(n)
       \/ HasToken /\ Stop                                             \* not a Type2Opcode

(* parse_super_name: names are not looked up; of the Type6Opcodes only index is allowed *)
SuperName ==
    \/ Read(WithTop(ItemDone(Top)))
    \/ Read(Pushed("expr", Type2Grammar("index")))
    \/ HasToken /\ Stop

ReadSuper  == Wants("super") /\ SuperName
ReadTarget == Wants("target") /\ (SuperName \/ Read(WithTop(ItemDone(Top))))   \* NullName

-----------------------------------------------------------------------------
(* Scopes and lists *)

OpenScope ==
    /\ Wants("open")
    /\ IF ~OpenLegal(Top.name) THEN Stop
       ELSE /\ cur' = Opened(cur, Top.name)
            /\ stack' = WithTop([ItemDone(Top) EXCEPT !.opened = TRUE, !.old = cur])
            /\ UNCHANGED <<ops, pc, pos, bindings, room, node, it, table>>

EnterList ==
    \E s \in Lists \cup {"stmts"} :
        /\ Wants(s)
        /\ stack' = Pushed(IF s = "stmts" THEN "terms" ELSE s, <<>>)
        /\ UNCHANGED <<ops, pc, pos, names, it, table>>

(* the end of an if: its package is read, an else may follow it in the enclosing view *)
MaybeElse ==
    /\ Wants("else")
    /\ LET outer == stack[Len(stack) - 1].end IN
       \/ /\ stack' = WithTop(ItemDone(Top)) /\ UNCHANGED pos
       \/ /\ pos < outer
          /\ pos' = pos + 1
          /\ stack' = WithTop([Top EXCEPT !.end = outer, !.todo = <<"pkg", "stmts">>])
    /\ UNCHANGED <<ops, pc, names, it, table>>

(* parse_list with parse_term_obj: the next term *)
NextTerm ==
    /\ Parsing /\ Top.op = "terms" /\ HasToken
    /\ \/ \E op \in ops \cap TermOps : Read(Pushed(IF op \in Type2Ops THEN "expr" ELSE op, TermGrammar(op)))
       \/ \E n \in Names : NameRef(n)
       \/ Stop                                                         \* "Unhandled opcode"

NextElement ==
    /\ Parsing /\ Top.op = "elems" /\ HasToken
    /\ \/ Read(WithTop(ItemDone(Top)))                                 \* a NameString
       \/ DataObject
       \/ Stop

(* Mutant: a name that is bound already is bound again. *)
BindAgain(path, old, n, newStack, newPos) ==
    /\ node' = Append(node, n)
    /\ bindings' = Append(bindings, [name |-> path, id |-> Len(node) + 1])
    /\ room' = Room(room, Len(bindings) + 1)
    /\ cur' = old /\ stack' = newStack /\ pos' = newPos
    /\ UNCHANGED <<ops, pc, it, table>>

(* name_space::close_scope for a node that is complete; the name must be new *)
Bind(path, old, n, newStack, newPos) ==
    IF FindBinding(bindings, path) # 0 THEN Stop
    ELSE /\ node' = Append(node, n)
         /\ bindings' = Append(bindings, [name |-> path, id |-> Len(node) + 1])
         /\ room' = Room(room, Len(bindings) + 1)
         /\ it' = IF pc = "eval" /\ room' # room THEN Dangling ELSE it
         /\ cur' = old
         /\ stack' = newStack /\ pos' = newPos
         /\ UNCHANGED <<ops, pc, table>>

(* Mutant: a reserved field is looked at but not consumed. *)
NextFieldStuck ==
    /\ Parsing /\ Top.op = "fields" /\ HasToken
    /\ UNCHANGED vars

(* parse_field_list: a reserved or an access field, or a named one (parse_named_field) *)
NextField ==
    /\ Parsing /\ Top.op = "fields" /\ HasToken
    /\ \/ pos + 1 < Top.end /\ pos' = pos + 2 /\ UNCHANGED <<ops, pc, stack, names, it, table>>
       \/ \E n \in {m \in Names : SearchRules(m)} :
            /\ pos + 1 < Top.end
            /\ Bind(cur \o n.path, cur, Node("named_field", 0), stack, pos + 2)
       \/ Stop

-----------------------------------------------------------------------------
(* The end of a frame *)

FinishTerm ==
    /\ Parsing /\ ~IsList /\ Top.todo = <<>>
    /\ Top.op \notin Binders \cup Containers
    /\ stack' = Returned(Top.bad)
    /\ UNCHANGED <<ops, pc, pos, names, it, table>>

FinishBinder ==
    /\ Parsing /\ ~IsList /\ Top.todo = <<>>
    /\ Top.op \in Binders \cup (Containers \ {"scope"})
    /\ Bind(cur, Top.old, Node(Top.op, Top.val), Returned(Top.bad), pos)

(* container_node::merge: the new helper goes to the end of the chain *)
RECURSIVE ChainEnd(_, _)
ChainEnd(nodes, i) == IF nodes[i].next = 0 THEN i ELSE ChainEnd(nodes, nodes[i].next)

(* Mutant: the new helper is put behind the head, whatever follows it. *)
MergedBehindHead(nodes, head) ==
    Append([nodes EXCEPT ![head].next = Len(nodes) + 1], [Node("scope", 0) EXCEPT !.prev = head])

Merged(nodes, head) ==
    LET last == ChainEnd(nodes, head)
        id   == Len(nodes) + 1
    IN Append([nodes EXCEPT ![last].next = id], [Node("scope", 0) EXCEPT !.prev = last])

(* Mutant: marking the registration dead leaves the scope open. *)
FinishScopeOpen ==
    /\ Parsing /\ Top.op = "scope" /\ Top.todo = <<>>
    /\ LET k == Lookup(bindings, cur, Top.name)
       IN IF k = 0 THEN Bind(cur, Top.old, Node("scope", 0), Returned(Top.bad), pos)
          ELSE /\ node[bindings[k].id].op \in {"scope", "device"}
               /\ node' = Merged(node, bindings[k].id)
               /\ stack' = Returned(Top.bad)
               /\ UNCHANGED <<ops, pc, pos, cur, bindings, room, it, table>>

(* DefScope: the name is looked up from inside the scope that was opened for it *)
FinishScope ==
    /\ Parsing /\ Top.op = "scope" /\ Top.todo = <<>>
    /\ LET k    == Lookup(bindings, cur, Top.name)
           head == bindings[k].id
           outside == pc = "eval" /\ head <= stack[1].mark   \* a helper is not printed
       IN IF k = 0
          THEN Bind(cur, Top.old, Node("scope", 0), Returned(Top.bad), pos)
          ELSE IF node[head].op \notin {"scope", "device"} THEN Stop
          ELSE /\ cur' = Top.old                             \* mark_dead
               /\ node' = Merged(node, head)
               /\ stack' = Returned(Top.bad /\ ~outside)
               /\ UNCHANGED <<ops, pc, pos, bindings, room, it, table>>

(* a list is read up to the end of its view; REQUIRE(elements.empty() || num_elements == elements.size()) *)
FinishList ==
    /\ Parsing /\ IsList /\ ~HasToken /\ Len(stack) > 1
    /\ IF Top.op = "elems" /\ Top.count \notin {0, stack[Len(stack) - 1].val} THEN Stop
       ELSE stack' = Returned(Top.bad) /\ UNCHANGED <<ops, pc, pos, names, it, table>>

-----------------------------------------------------------------------------
(* process() *)

TableParsed ==
    /\ pc = "parse" /\ IsList /\ ~HasToken /\ Len(stack) = 1
    /\ pc' = "print" /\ table' = bindings
    /\ stack' = <<>>
    /\ UNCHANGED <<ops, pos, names, it>>

AtDevice == pc = "print" /\ it \in 1..Len(bindings)

(* the property that print() finds: _HID, or else _ADR, or none *)
Property ==
    LET dev == bindings[it]
        at(p) == FindBinding(bindings, dev.name \o <<p>>)
    IN IF node[dev.id].op # "device" THEN 0
       ELSE IF at(HID) # 0 THEN at(HID) ELSE at(ADR)

SkipBinding ==
    /\ AtDevice /\ Property = 0
    /\ it' = it + 1
    /\ UNCHANGED <<ops, pc, pos, stack, names, table>>

(* eval of a name_node: a constant or a short string; a _HID must have 16 to 32 bits *)
Printable(b) ==
    \/ node[b.id].val = ShortString
    \/ node[b.id].val <= 64 /\ (Last(b.name) = HID => node[b.id].val \in 16..32)

PrintName ==
    /\ AtDevice /\ Property # 0
    /\ node[bindings[Property].id].op # "method"
    /\ IF node[bindings[Property].id].op = "name" /\ Printable(bindings[Property])
       THEN it' = it + 1 /\ UNCHANGED <<ops, pc, pos, stack, names, table>>
       ELSE Stop

(* method_node::do_eval parses the body, in a scope opened by print() *)
EvalMethod ==
    /\ AtDevice /\ Property # 0
    /\ node[bindings[Property].id].op = "method"
    /\ \E len \in 0..BodySize :
         /\ pc' = "eval" /\ pos' = 0
         /\ cur' = cur \o bindings[Property].name
         /\ stack' = <<[Frame("terms", <<>>, len) EXCEPT !.opened = TRUE, !.old = cur,
                          !.name = NameString(FALSE, 0, bindings[Property].name)]>>
    /\ UNCHANGED <<ops, bindings, room, node, it, table>>

(* Mutant: the parsed body is kept. *)
BodyKept ==
    /\ pc = "eval" /\ IsList /\ ~HasToken /\ Len(stack) = 1
    /\ cur' = Top.old /\ pc' = "print" /\ it' = it + 1 /\ stack' = <<>>
    /\ UNCHANGED <<ops, pos, bindings, room, node, table>>

(* do_eval prints the list, following every operand, and drops it; print() restores the scope *)
BodyParsed ==
    /\ pc = "eval" /\ IsList /\ ~HasToken /\ Len(stack) = 1
    /\ node' = Destroyed(node, Top.mark)
    /\ bindings' = Released(bindings, Top.mark)
    /\ cur' = Top.old
    /\ pc' = IF Top.bad \/ it = Dangling THEN "undefined" ELSE "print"
    /\ it' = IF it = Dangling THEN it ELSE it + 1
    /\ stack' = <<>>
    /\ UNCHANGED <<ops, pos, room, table>>

(* the end of process(): the parse tree, \_OSI, \_OS_ and the namespace are destroyed *)
Teardown ==
    /\ pc = "print" /\ it > Len(bindings)
    /\ pc' = IF cur = <<>> THEN "done" ELSE "fatal"
    /\ node' = Destroyed(node, 0)
    /\ bindings' = Released(bindings, 0)
    /\ UNCHANGED <<ops, pos, stack, cur, room, it, table>>

Halted == pc \in {"done", "fatal", "undefined"} /\ UNCHANGED vars

Next ==
    \/ EndOfData \/ ReadByte \/ ReadFlags \/ ReadNum \/ ReadPkg \/ ReadName \/ SkipRest
    \/ ReadData \/ ReadArg \/ ReadSuper \/ ReadTarget
    \/ OpenScope \/ EnterList \/ MaybeElse \/ NextTerm \/ NextElement \/ NextField
    \/ FinishTerm \/ FinishBinder \/ FinishScope \/ FinishList
    \/ TableParsed \/ SkipBinding \/ PrintName \/ EvalMethod \/ BodyParsed \/ Teardown
    \/ Halted

(* one thread parses; nothing keeps it from its next step *)
Spec == Init /\ [][Next]_vars /\ WF_vars(Next)

-----------------------------------------------------------------------------
(* Properties *)

(* Where the parser and the device loop can be; bindings_ never holds more than its room
   (kvector::push_back, through which aml.cpp:797 adds a binding). *)
TypeOK ==
    /\ pc \in {"parse", "print", "eval", "done", "fatal", "undefined"}
    /\ pos \in 0..Max({BodySize} \cup {t.size : t \in Tables})
    /\ \A i \in DOMAIN stack : stack[i].mark <= Len(node) /\ stack[i].op \in STRING
    /\ it \in 0..(Len(table) + 1) \cup {1}
    /\ Len(bindings) <= room

(* Wherever the parser is, cur_namespace_ (aml.cpp:699) is the path of the innermost scope
   that is open, and each open_scope has saved the path of the one around it: nothing that a
   term did inside, a merge or an evaluation included, shifts the names declared after it.
   With no scope open it is empty, which ~name_space requires (aml.cpp:539). *)
ScopeRestored ==
    LET open == SelectSeq(stack, LAMBDA f : f.opened)
        n    == Len(open)
    IN IF n = 0 THEN cur = <<>>
       ELSE /\ open[1].old = <<>>
            /\ \A i \in 1..n : Opened(open[i].old, open[i].name)
                                   = (IF i = n THEN cur ELSE open[i + 1].old)

(* Every binding names one node that is alive, no name is bound twice, and the only nodes
   without a binding are the helpers of a merged scope: no lookup (aml.cpp:708) can return
   a node that was destroyed with a list that failed or with a method's body. *)
BindingsLive ==
    /\ \A i, j \in DOMAIN bindings :
          i # j => bindings[i].name # bindings[j].name /\ bindings[i].id # bindings[j].id
    /\ {bindings[i].id : i \in DOMAIN bindings} = {i \in DOMAIN node : node[i].prev = 0}

(* The chain of a scope and its helpers is doubly linked, has no cycle, and starts at a
   scope or a device: the REQUIREs of merge and ~container_node (aml.cpp:1664-1689). *)
ChainsSound ==
    \A i \in DOMAIN node :
        /\ node[i].next # 0 => node[i].next \in (i + 1)..Len(node) /\ node[node[i].next].prev = i
        /\ node[i].prev # 0 => node[node[i].prev].next = i /\ node[i].op = "scope"
        /\ node[i].next # 0 => node[i].op \in {"scope", "device"}

(* A nested package lies inside the one around it and the parser never stands behind the
   end of its view (adjust_with_pkg_length, aml.cpp:841), so data.moved_to(pkg.end()) never
   skips into what belongs to an outer term. *)
InsidePackages ==
    /\ \A i \in 1..(Len(stack) - 1) : stack[i + 1].end <= stack[i].end
    /\ stack # <<>> => pos <= Top.end

(* Evaluating the _HID or _ADR method of a device (aml.cpp:2057) leaves the namespace as it
   was parsed, whatever the body declared or reopened, and no scope open. *)
EvalKeepsTable ==
    pc = "print" =>
        bindings = table /\ cur = <<>>

(* Every table is read to its end or stops at a REQUIRE: no input makes a list or a
   statement loop without consuming (parse_list, aml.cpp:970; parse_field_list, aml.cpp:1470). *)
Terminates == <>(pc \in {"done", "fatal", "undefined"})

(* The parser and the namespace stay sound through declarations, merges, failures and the
   evaluation of methods: the scope that is open, the bindings, the chains of merged scopes,
   the extents of packages, and the table as it was parsed (name_space, aml.cpp:521). *)
ParserSound ==
    TypeOK /\ ScopeRestored /\ BindingsLive /\ ChainsSound /\ InsidePackages /\ EvalKeepsTable
=============================================================================
