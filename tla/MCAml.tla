------------------------------- MODULE MCAml -------------------------------
EXTENDS Aml

(* one device name and the property segment, alone, from the root, with a prefix, and joined *)
MCNames == {NameString(FALSE, 0, <<"DEV">>), NameString(FALSE, 0, <<"HID">>),
            NameString(TRUE, 0, <<"DEV">>), NameString(TRUE, 0, <<"DEV", "HID">>),
            NameString(FALSE, 1, <<"DEV">>)}

(* every opcode in a short table, and longer tables of declarations, of scopes and of statements *)
AllOps == TermOps \cup DOMAIN ConstBits \cup DOMAIN DataGrammar \cup {"string", "local_0"}
MCTables == {[ops |-> AllOps, size |-> 4],
             [ops |-> {"device", "method", "scope", "return"}, size |-> 10],
             [ops |-> {"device", "name", "word", "string", "qword"}, size |-> 8],
             [ops |-> {"if", "divide", "method", "local_0", "while"}, size |-> 8],
             [ops |-> {"field", "package", "buffer", "one", "name"}, size |-> 8]}
============================================================================
