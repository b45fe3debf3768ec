------------------------------ MODULE DisasmTable ------------------------------
(***************************************************************************)
(* The instruction table of exp/disasm/disasm.cpp: for every opcode the    *)
(* operands with their addressing mode and type, or the group a prefix or  *)
(* the ModR/M byte selects from.  Names are reduced to whether there is    *)
(* one.  Opcodes from 256 are those behind an 0F byte.                     *)
(***************************************************************************)
EXTENDS Integers, Sequences

\* operand_info_helpers: <<addressing mode, operand type>>
Eb == <<"E", "b">>
Ev == <<"E", "v">>
Ew == <<"E", "w">>
Ey == <<"E", "y">>
Ez == <<"E", "z">>
Gb == <<"G", "b">>
Gv == <<"G", "v">>
Gy == <<"G", "y">>
Ib == <<"I", "b">>
Iv == <<"I", "v">>
Iw == <<"I", "w">>
Iz == <<"I", "z">>
Iub == <<"I", "ub">>
Jb == <<"J", "b">>
Jz == <<"J", "z">>
Ob == <<"O", "b">>
Ov == <<"O", "v">>
Mm == <<"M", "mem">>
Md == <<"M", "d">>
Mdq == <<"M", "dq">>
Mw == <<"M", "w">>
Cd == <<"C", "d">>
Dd == <<"D", "d">>
Rd == <<"R", "d">>
Sw == <<"S", "w">>
Ux == <<"U", "x">>
V(type) == <<"V", type>>
W(type) == <<"W", type>>
R8 == <<"low", "b">>
R16 == <<"low", "w">>
R64v == <<"low", "v">>
R64 == <<"low", "q">>
rAL == <<"rax", "b">>
rAX == <<"rax", "w">>
rAXz == <<"rax", "z">>
rCL == <<"rcx", "b">>
rDX == <<"rdx", "w">>
const1 == <<"const1", "b">>

\* instruction_info
Entry(known, flags, operands, group) ==
    [known |-> known, flags |-> flags, operands |-> operands, group |-> group]
Unknown == Entry(FALSE, {}, <<>>, <<>>)
Ins(operands) == Entry(TRUE, {}, operands, <<>>)
InsF(flag, operands) == Entry(TRUE, {flag}, operands, <<>>)

\* A group of names: the operands are the same, the reg field chooses the name.
Names(known, operands) ==
    Entry(TRUE, {"reg"}, operands, [g \in 0 .. 7 |-> Entry(g \in known, {}, operands, <<>>)])

\* A group of instructions.  g maps the indices that are filled to entries.
Group(flags, size, g) ==
    Entry(TRUE, flags, <<>>, [i \in 0 .. size - 1 |-> IF i \in DOMAIN g THEN g[i] ELSE Unknown])
ByPrefix(g) == Group({"prefix"}, 4, g)
ByReg(g) == Group({"reg"}, 8, g)
ByRegMem(g) == Group({"reg", "mem"}, 16, g)
ByRegPrefix(g) == Group({"reg", "prefix"}, 32, g)

At(i, entry) == [j \in {i} |-> entry]
Both(f, g) == [j \in DOMAIN f \cup DOMAIN g |-> IF j \in DOMAIN f THEN f[j] ELSE g[j]]

\* The six forms of an arithmetic instruction.
Arithmetic == <<<<Eb, Gb>>, <<Ev, Gv>>, <<Gb, Eb>>, <<Gv, Ev>>, <<rAL, Ib>>, <<rAXz, Iz>>>>

Table00(o) ==
    CASE o < \h40 /\ o % 8 < 6    -> Ins(Arithmetic[(o % 8) + 1])
      [] o \in \h50 .. \h5f       -> Ins(<<R64>>)
      [] o = \h63                 -> Ins(<<Gv, Ez>>)
      [] o = \h69                 -> Ins(<<Gv, Ev, Iz>>)
      [] o = \h6b                 -> Ins(<<Gv, Ev, Ib>>)
      [] o \in {\h6d, \h6f}       -> Ins(<<>>)
      [] o \in \h70 .. \h7f \ {\h7a, \h7b} -> Ins(<<Jb>>)
      [] OTHER                    -> Unknown

Table80(o) ==
    CASE o = \h80                 -> Names(0 .. 7, <<Eb, Ib>>)
      [] o = \h81                 -> Names(0 .. 7, <<Ev, Iz>>)
      [] o = \h83                 -> Names(0 .. 7, <<Ev, Ib>>)
      [] o \in {\h84, \h86, \h88} -> Ins(<<Eb, Gb>>)
      [] o \in {\h85, \h87, \h89} -> Ins(<<Ev, Gv>>)
      [] o = \h8a                 -> Ins(<<Gb, Eb>>)
      [] o = \h8b                 -> Ins(<<Gv, Ev>>)
      [] o = \h8c                 -> Ins(<<Ev, Sw>>)
      [] o = \h8d                 -> Ins(<<Gv, Mm>>)
      [] o = \h8e                 -> Ins(<<Sw, Ew>>)
      [] o = \h8f                 -> InsF("f64", <<Ev>>)
      [] o = \h90 -> ByPrefix([i \in 0 .. 2 |-> Ins(IF i = 1 THEN <<R16, rAX>> ELSE <<>>)])
      [] o \in \h91 .. \h97       -> Ins(<<R64v, rAXz>>)
      [] o \in {\h98, \h99}       -> Ins(<<>>)
      [] o \in {\h9c, \h9d}       -> InsF("d64", <<>>)
      [] o = \ha1                 -> Ins(<<rAXz, Ov>>)
      [] o = \ha2                 -> Ins(<<Ob, rAL>>)
      [] o \in {\ha4, \ha5, \ha6, \haa, \hab, \hae, \haf} -> Ins(<<>>)
      [] o = \ha8                 -> Ins(<<rAL, Ib>>)
      [] o = \ha9                 -> Ins(<<rAXz, Iz>>)
      [] o \in \hb0 .. \hb7       -> Ins(<<R8, Ib>>)
      [] o \in \hb8 .. \hbf       -> Ins(<<R64v, Iv>>)
      [] OTHER                    -> Unknown

\* Shift group 2 has no /6; group 3 no /1, and only its /0 has an immediate.
Shift(operands) == Names(0 .. 7 \ {6}, operands)
Group3(E, I) == ByReg([g \in 0 .. 7 \ {1} |-> Ins(IF g = 0 THEN <<E, I>> ELSE <<E>>)])
Group5 == [g \in {0, 1, 2, 4, 6} |-> IF g < 2 THEN Ins(<<Ev>>) ELSE InsF("f64", <<Ev>>)]

TableC0(o) ==
    CASE o = \hc0                 -> Shift(<<Eb, Iub>>)
      [] o = \hc1                 -> Shift(<<Ev, Iub>>)
      [] o = \hc2                 -> Ins(<<Iw>>)
      [] o = \hc6                 -> Ins(<<Eb, Ib>>)
      [] o = \hc7                 -> Ins(<<Ev, Iz>>)
      [] o = \hc8                 -> Ins(<<Iw, Ib>>)
      [] o = \hcd                 -> Ins(<<Ib>>)
      [] o \in {\hc3, \hcc, \hcf, \hf4, \hfa, \hfb, \hfc, \hfd} -> Ins(<<>>)
      [] o \in {\hd0, \hd2}       -> Shift(<<Eb, IF o = \hd0 THEN const1 ELSE rCL>>)
      [] o \in {\hd1, \hd3}       -> Shift(<<Ev, IF o = \hd1 THEN const1 ELSE rCL>>)
      [] o = \he4                 -> Ins(<<rAL, Ib>>)
      [] o \in {\he8, \he9}       -> Ins(<<Jz>>)
      [] o = \heb                 -> Ins(<<Jb>>)
      [] o = \hec                 -> Ins(<<rAL, rDX>>)
      [] o = \hed                 -> Ins(<<rAXz, rDX>>)
      [] o = \hee                 -> Ins(<<rDX, rAL>>)
      [] o = \hef                 -> Ins(<<rDX, rAXz>>)
      [] o = \hf6                 -> Group3(Eb, Ib)
      [] o = \hf7                 -> Group3(Ev, Iz)
      [] o = \hfe                 -> ByReg([g \in {0, 1} |-> Ins(<<Eb>>)])
      [] o = \hff                 -> ByReg(Group5)
      [] OTHER                    -> Unknown

\* The scalar forms behind F3 (single) and F2 (double).
Scalars(single, double) == ByPrefix([i \in {2, 3} |-> Ins(IF i = 2 THEN single ELSE double)])

Table0F00(o) ==
    CASE o = \h00 -> ByReg([g \in 0 .. 3 |-> Ins(<<IF g < 2 THEN Mw ELSE Ew>>)])
      [] o = \h01 -> ByRegMem([g \in 0 .. 3 \cup {10} |-> Ins(IF g < 4 THEN <<Mm>> ELSE <<>>)])
      [] o = \h0d -> Ins(<<Eb>>)
      [] o = \h10 -> ByPrefix([i \in {0, 2, 3} |->
                       Ins(CASE i = 0 -> <<V("ps"), W("ps")>> [] i = 2 -> <<V("x"), W("ss")>>
                             [] i = 3 -> <<V("x"), W("sd")>>)])
      [] o = \h11 -> ByPrefix([i \in {0, 2, 3} |->
                       Ins(LET t == IF i = 0 THEN "ps" ELSE IF i = 2 THEN "ss" ELSE "sd"
                           IN <<W(t), V(t)>>)])
      [] o = \h18 -> ByReg(At(0, Ins(<<Eb>>)))
      [] o = \h1f -> Ins(<<Ev>>)
      [] o = \h20 -> Ins(<<Rd, Cd>>)
      [] o = \h22 -> Ins(<<Cd, Rd>>)
      [] o = \h23 -> Ins(<<Dd, Rd>>)
      [] o = \h28 -> Ins(<<V("ps"), W("ps")>>)
      [] o = \h29 -> ByPrefix(At(0, Ins(<<W("ps"), V("ps")>>)))
      [] o = \h2a -> Scalars(<<V("ss"), Ey>>, <<V("sd"), Ey>>)
      [] o = \h2c -> Scalars(<<Gy, W("ss")>>, <<Gy, W("sd")>>)
      [] o = \h2f -> ByPrefix(Both(At(0, Ins(<<V("ss"), W("ss")>>)), At(1, Ins(<<V("sd"), W("sd")>>))))
      [] o \in {\h05, \h07} \cup \h30 .. \h35 -> Ins(<<>>)
      [] OTHER    -> Unknown

Table0F40(o) ==
    CASE o \in \h40 .. \h4f \ {\h4a, \h4b} -> Ins(<<Gv, Ev>>)
      [] o \in {\h54, \h57}       -> ByPrefix(At(0, Ins(<<V("ps"), W("ps")>>)))
      [] o = \h58                 -> ByPrefix(At(3, Ins(<<V("sd"), W("sd")>>)))
      [] o \in {\h59, \h5c, \h5e} -> Scalars(<<V("ss"), W("ss")>>, <<V("sd"), W("sd")>>)
      [] o = \h5a                 -> Scalars(<<V("x"), W("x")>>, <<V("ss"), W("sd")>>)
      [] o = \h5b                 -> ByPrefix(At(0, Ins(<<V("ps"), W("dq")>>)))
      [] o = \h6e                 -> ByPrefix(At(1, Ins(<<V("y"), Ey>>)))
      [] o = \h6f                 -> ByPrefix([i \in {1, 2} |-> Ins(<<V("x"), W("x")>>)])
      [] o = \h73                 -> ByRegPrefix(At(11, Ins(<<Ux, Ib>>)))
      [] o = \h7e                 -> ByPrefix(At(1, Ins(<<Ey, V("q")>>)))
      [] o = \h7f                 -> ByPrefix([i \in {1, 2} |-> Ins(<<W("x"), V("x")>>)])
      [] OTHER                    -> Unknown

Group15 == [g \in 0 .. 3 \cup {14} |->
              Ins(IF g < 2 THEN <<Mm>> ELSE IF g < 4 THEN <<Md>> ELSE <<>>)]

Table0F80(o) ==
    CASE o \in \h80 .. \h8f \ {\h8a, \h8b} -> Ins(<<Jz>>)
      [] o \in \h90 .. \h9f \ {\h9a, \h9b} -> Ins(<<Eb>>)
      [] o = \ha2                 -> Ins(<<>>)
      [] o \in {\hb0, \hc0}       -> Ins(<<Eb, Gb>>)
      [] o \in {\ha3, \hab, \hb1, \hb3, \hc1} -> Ins(<<Ev, Gv>>)
      [] o = \hae                 -> ByRegMem(Group15)
      [] o \in {\haf, \hbc, \hbd} -> Ins(<<Gv, Ev>>)
      [] o \in {\hb6, \hbe}       -> Ins(<<Gv, Eb>>)
      [] o \in {\hb7, \hbf}       -> Ins(<<Gv, Ew>>)
      [] o = \hba                 -> Names(4 .. 7, <<Ev, Ib>>)
      [] o = \hc7                 -> ByRegPrefix(At(1, Ins(<<Mdq>>)))
      [] o \in \hc8 .. \hcf       -> Ins(<<R64v>>)
      [] o = \he6                 -> ByPrefix(At(2, Ins(<<V("x"), W("pd")>>)))
      [] o = \hef                 -> ByPrefix(At(1, Ins(<<V("x"), W("x")>>)))
      [] OTHER                    -> Unknown

Opcodes == 0 .. 511

instructions == [o \in Opcodes |->
    CASE o < \h80             -> Table00(o)
      [] o \in \h80 .. \hbf   -> Table80(o)
      [] o \in \hc0 .. \hff   -> TableC0(o)
      [] o \in \h100 .. \h13f -> Table0F00(o - 256)
      [] o \in \h140 .. \h17f -> Table0F40(o - 256)
      [] OTHER                -> Table0F80(o - 256)]

===============================================================================
