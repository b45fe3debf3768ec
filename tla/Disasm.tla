--------------------------------- MODULE Disasm ---------------------------------
(***************************************************************************)
(* The disassembler of exp/disasm/disasm.cpp: do_disasm, which decodes one *)
(* instruction, inside the loop of disasm_section.  The code bytes are     *)
(* chosen as they are read: a prefix, an opcode (after an optional 0F), a  *)
(* ModR/M and a SIB byte; of displacements and immediates only the number  *)
(* of bytes is kept.  A failed assert ends the program.                    *)
(***************************************************************************)
EXTENDS DisasmTable

CONSTANTS
    Rexes,        \* the REX prefixes that occur, as sets of {"W", "R", "X", "B"}
    Legacy,       \* the other prefixes that occur
    Modrms,       \* the ModR/M bytes that occur, as records [mod, reg, rm]
    Sibs,         \* the SIB bytes that occur, as records [scale, index, base]
    MaxPrefixes,  \* prefix bytes of an instruction
    End           \* size of the section (virtual_end - virtual_address)

ASSUME DisasmAssumption ==
    /\ Legacy \subseteq {"lock", "repnz", "rep", "cs", "gs", "opsize"}
    /\ Rexes \subseteq SUBSET {"W", "R", "X", "B"}
    /\ Modrms \subseteq [mod : 0 .. 3, reg : 0 .. 7, rm : 0 .. 7]
    /\ Sibs \subseteq [scale : 0 .. 3, index : 0 .. 7, base : 0 .. 7]
    /\ MaxPrefixes \in Nat /\ End \in Nat

VARIABLES
    pc,
    at,         \* offset of the instruction in the section
    len,        \* ins.len
    prefixes,   \* ins.prefixes, the REX bits among them
    rex,        \* the last REX prefix
    opcode,
    info,       \* the entry chosen so far
    group,      \* ins.group
    modrm,
    operands,   \* ins.operands
    used,       \* used_prefixes
    sib,        \* the SIB byte
    given       \* history: the prefixes in force, and the bytes they take

vars == <<pc, at, len, prefixes, rex, opcode, info, group, modrm, operands, used, sib, given>>

NoPrefix == [set |-> {}, bytes |-> 0]
NoSib == [scale |-> 0, index |-> 0, base |-> 0]
NoModrm == [mod |-> 0, reg |-> 0, rm |-> 0]

\* A fresh decoded_instruction.
Fresh(pc_, at_) ==
    /\ pc' = pc_ /\ at' = at_ /\ len' = 0
    /\ prefixes' = {} /\ rex' = {} /\ used' = {} /\ sib' = NoSib /\ given' = NoPrefix
    /\ opcode' = 0 /\ info' = Unknown /\ group' = -1 /\ modrm' = NoModrm /\ operands' = <<>>

Init ==
    /\ pc = "prefix" /\ at = 0 /\ len = 0
    /\ prefixes = {} /\ rex = {} /\ used = {} /\ sib = NoSib /\ given = NoPrefix
    /\ opcode = 0 /\ info = Unknown /\ group = -1 /\ modrm = NoModrm /\ operands = <<>>

-------------------------------------------------------------------------------
(* Prefixes and opcode.                                                    *)

\* Mutant: the prefix is looked at and not consumed.
PrefixPeeked(n) == n

PrefixLen(n) == n + 1

Given(set) == given' = [set |-> set, bytes |-> PrefixLen(len)]

LegacyPrefix ==
    /\ pc = "prefix" /\ len < MaxPrefixes
    /\ \E p \in Legacy : prefixes' = prefixes \cup {p} /\ Given(given.set \cup {p})
    /\ len' = PrefixLen(len)
    /\ UNCHANGED <<pc, at, rex, opcode, info, group, modrm, operands, used, sib>>

\* The last REX counts, but the bits of all of them stay in ins.prefixes.
RexPrefix ==
    /\ pc = "prefix" /\ len < MaxPrefixes
    /\ \E r \in Rexes :
         /\ rex' = r \cup {"rex"}
         /\ prefixes' = prefixes \cup r \cup {"rex"}
         /\ Given((given.set \ {"W", "R", "X", "B"}) \cup r \cup {"rex"})
    /\ len' = PrefixLen(len)
    /\ UNCHANGED <<pc, at, opcode, info, group, modrm, operands, used, sib>>

has_modrm(entry) ==
    \E i \in DOMAIN entry.operands : entry.operands[i][1] \in {"C", "D", "E", "G", "M", "R", "S", "V", "W"}

PrefixGroup ==
    IF "opsize" \in prefixes THEN 1 ELSE IF "rep" \in prefixes THEN 2
    ELSE IF "repnz" \in prefixes THEN 3 ELSE 0

\* The prefix that chose the group is part of the instruction and taken out.
Consumed == CASE PrefixGroup = 1 -> {"opsize"} [] PrefixGroup = 2 -> {"rep"}
              [] PrefixGroup = 3 -> {"repnz"} [] PrefixGroup = 0 -> {}

ConsumePrefix(entry) ==
    /\ prefixes' = IF "prefix" \in entry.flags THEN prefixes \ Consumed ELSE prefixes
    /\ used' = IF "prefix" \in entry.flags THEN used \cup Consumed ELSE used

\* An opcode byte, or 0F and a second one.  Prefix bytes are no opcodes.
PrefixBytes == {\hf0, \hf2, \hf3, \h2e, \h65, \h66, \h0f} \cup (\h40 .. \h4f)

NeedsModrm(entry) == "reg" \in entry.flags \/ has_modrm(entry)

ReadOpcode ==
    /\ pc = "prefix"
    /\ \E o \in Opcodes \ PrefixBytes :
         /\ opcode' = o
         /\ len' = len + (IF o < 256 THEN 1 ELSE 2)
         /\ LET entry == instructions[o] IN
            IF NeedsModrm(entry)
            THEN pc' = "modrm" /\ UNCHANGED <<info, group, prefixes, used>>
            ELSE IF entry.group = <<>>
            THEN pc' = "operands" /\ info' = entry /\ UNCHANGED <<group, prefixes, used>>
            ELSE /\ group' = PrefixGroup
                 /\ info' = entry.group[PrefixGroup]
                 /\ ConsumePrefix(entry)
                 /\ pc' = IF has_modrm(entry.group[PrefixGroup]) THEN "late modrm" ELSE "operands"
    /\ UNCHANGED <<at, rex, modrm, operands, sib, given>>

\* The index in the group, for the groups that depend on the ModR/M byte.
GroupIndex(entry, m) ==
    m.reg + (CASE "prefix" \in entry.flags -> 8 * PrefixGroup
               [] "mem" \in entry.flags -> IF m.mod = 3 THEN 8 ELSE 0
               [] OTHER -> 0)

GroupAsserts(entry, m) ==
    \/ {"reg", "prefix"} \subseteq entry.flags /\ m.mod # 3 /\ opcode # \h1c7
    \/ "mem" \in entry.flags /\ opcode = \h101 /\ m.mod = 3 /\ m.rm # 0

ReadModrm ==
    /\ pc = "modrm"
    /\ LET entry == instructions[opcode] IN
       \E m \in Modrms :
         /\ modrm' = m
         /\ len' = len + 1
         /\ IF GroupAsserts(entry, m)
            THEN pc' = "assert" /\ UNCHANGED <<info, group, prefixes, used>>
            ELSE IF "reg" \notin entry.flags
            THEN pc' = "operands" /\ info' = entry /\ UNCHANGED <<group, prefixes, used>>
            ELSE /\ group' = GroupIndex(entry, m)
                 /\ info' = entry.group[GroupIndex(entry, m)]
                 /\ ConsumePrefix(entry)
                 /\ pc' = "operands"
    /\ UNCHANGED <<at, rex, opcode, operands, sib, given>>

ReadModrmLate ==
    /\ pc = "late modrm"
    /\ \E m \in Modrms : modrm' = m
    /\ len' = len + 1
    /\ pc' = "operands"
    /\ UNCHANGED <<at, prefixes, rex, opcode, info, group, operands, used, sib, given>>

-------------------------------------------------------------------------------
(* Operands.  A decoded operand is its kind, the register (or the base of  *)
(* an address), its width in bits, the bytes read for it, the prefixes it  *)
(* accounts for, and whether an assert failed.                             *)

\* rex as the operands see it: f64 forces 64 bits
RexW == "W" \in rex \/ "f64" \in info.flags
Opsize == "opsize" \in prefixes
Ext(bit) == IF bit \in rex THEN 8 ELSE 0

Operand(kind, reg, bits, bytes, uses) ==
    [kind |-> kind, reg |-> reg, bits |-> bits, bytes |-> bytes, uses |-> uses, ok |-> TRUE]
Failed == [Operand("none", 0, 0, 0, {}) EXCEPT !.ok = FALSE]
Reg(bits, reg, uses) == Operand("reg", reg, bits, 0, uses)
RexUse(bit) == {"rex", bit}

do_reg(type, reg, uses) ==
    CASE type = "b" -> Reg(8, reg, uses)
      [] type = "w" -> Reg(16, reg, uses)
      [] type \in {"v", "y"} -> Reg(IF RexW THEN 64 ELSE 32, reg, uses)
      [] type \in {"dq", "ss", "sd", "pd", "ps", "x"} -> Operand("xmm", reg, 128, 0, uses)
      [] OTHER -> Failed

LowBits(type) ==
    LET reg == (opcode % 8) + Ext("B")
        uses == IF "B" \in rex THEN RexUse("B") ELSE {}
    IN CASE type = "q" -> Reg(64, reg, uses)
         [] type = "v" -> IF RexW THEN Reg(64, reg, uses \cup RexUse("W"))
                          ELSE IF Opsize THEN Reg(16, reg, uses \cup {"opsize"})
                          ELSE Reg(32, reg, uses)
         [] type = "b" -> Reg(8, reg, uses \cup {"rex"})
         [] type = "w" -> Reg(16, reg, uses)

Rax(type) ==
    CASE type = "b" -> Reg(8, 0, {})
      [] type = "w" -> Reg(16, 0, {})
      [] type = "z" /\ ~Opsize -> Reg(IF RexW THEN 64 ELSE 32, 0, RexUse("W"))
      [] type = "z" /\ Opsize -> IF RexW THEN Failed ELSE Reg(16, 0, {"opsize"})

\* E, M and W with mod 3: a register
RmReg(mode, type) ==
    LET op == IF Opsize
              THEN IF type \in {"v", "b", "w"}
                   THEN Reg(16, modrm.rm + Ext("B"), {"opsize"} \cup (IF "B" \in rex THEN RexUse("B") ELSE {}))
                   ELSE Failed
              ELSE IF type = "z" THEN Reg(32, modrm.rm + Ext("B"), {"rex", "B", "W"})
              ELSE do_reg(type, modrm.rm + Ext("B"), {"rex", "B", "W"})
    IN IF mode = "M" \/ (mode = "W" /\ op.kind # "xmm") THEN Failed ELSE op

\* Mutant: a base of 5 in the SIB byte never means a 32-bit displacement.
MemBytesNoBase(b) ==
    (IF modrm.rm = 4 THEN 1 ELSE 0)
    + (IF modrm.mod = 1 THEN 1
       ELSE IF modrm.mod = 2 \/ (modrm.mod = 0 /\ modrm.rm = 5) THEN 4 ELSE 0)

\* The SIB byte and the displacement
MemBytes(b) ==
    (IF modrm.rm = 4 THEN 1 ELSE 0)
    + (IF modrm.mod = 1 THEN 1
       ELSE IF \/ modrm.mod = 2
               \/ modrm.mod = 0 /\ modrm.rm = 5
               \/ modrm.mod = 0 /\ modrm.rm = 4 /\ b.base = 5
            THEN 4 ELSE 0)

\* 16 is rip, 255 no base
MemBase(b) ==
    IF modrm.rm = 4 THEN IF modrm.mod = 0 /\ b.base = 5 THEN 255 ELSE b.base + Ext("B")
    ELSE IF modrm.mod = 0 /\ modrm.rm = 5 THEN 16 ELSE modrm.rm + Ext("B")

\* Mutant: the packed integer moves have no memory form.
MemWidthScalar(mode, type) ==
    CASE mode = "W" -> IF type \in {"ss", "sd", "ps"}
                       THEN <<IF type = "ss" THEN 32 ELSE IF type = "sd" THEN 64 ELSE 128, {}>>
                       ELSE <<-1, {}>>
      [] mode # "W" /\ type \in {"mem", "b", "w", "d", "dq"} ->
           IF Opsize THEN <<-1, {}>>
           ELSE <<CASE type = "mem" -> 0 [] type = "b" -> 8 [] type = "w" -> 16
                    [] type = "d" -> 32 [] type = "dq" -> 64, {}>>
      [] mode # "W" /\ type = "z" -> IF Opsize THEN <<16, {"opsize"}>> ELSE <<32, {}>>
      [] mode # "W" /\ type = "y" -> IF RexW THEN <<64, RexUse("W")>> ELSE <<32, {}>>
      [] mode # "W" /\ type = "v" -> IF ~Opsize THEN <<IF RexW THEN 64 ELSE 32, RexUse("W")>>
                                     ELSE IF RexW THEN <<-1, {}>> ELSE <<16, {"opsize"} \cup RexUse("W")>>

\* The width of a memory operand, the prefixes it used, or Failed
MemWidth(mode, type) ==
    CASE mode = "W" -> IF type \in {"ss", "sd", "ps", "x"}
                       THEN <<IF type = "ss" THEN 32 ELSE IF type = "sd" THEN 64 ELSE 128, {}>>
                       ELSE <<-1, {}>>
      [] mode # "W" /\ type \in {"mem", "b", "w", "d", "dq"} ->
           IF Opsize THEN <<-1, {}>>
           ELSE <<CASE type = "mem" -> 0 [] type = "b" -> 8 [] type = "w" -> 16
                    [] type = "d" -> 32 [] type = "dq" -> 64, {}>>
      [] mode # "W" /\ type = "z" -> IF Opsize THEN <<16, {"opsize"}>> ELSE <<32, {}>>
      [] mode # "W" /\ type = "y" -> IF RexW THEN <<64, RexUse("W")>> ELSE <<32, {}>>
      [] mode # "W" /\ type = "v" -> IF ~Opsize THEN <<IF RexW THEN 64 ELSE 32, RexUse("W")>>
                                     ELSE IF RexW THEN <<-1, {}>> ELSE <<16, {"opsize"} \cup RexUse("W")>>

RmMem(mode, type, b) ==
    LET w == MemWidth(mode, type)
        uses == IF modrm.rm = 4 THEN {"rex", "B", "X"}
                ELSE IF MemBase(b) # 16 /\ "B" \in rex THEN RexUse("B") ELSE {}
    IN IF w[1] < 0 THEN Failed
       ELSE Operand("mem", MemBase(b), w[1], MemBytes(b), uses \cup w[2])

\* Mutant: a byte register of the reg field is named by its 16-bit size.
RegFieldWide(type) ==
    IF Opsize \/ type = "b" THEN Reg(16, modrm.reg + Ext("R"), {"opsize"})
    ELSE do_reg(type, modrm.reg + Ext("R"), {"rex", "R", "W"})

RegField(type) ==
    IF Opsize THEN Reg(16, modrm.reg + Ext("R"), {"opsize"} \cup (IF "R" \in rex THEN RexUse("R") ELSE {}))
    ELSE do_reg(type, modrm.reg + Ext("R"), {"rex", "R", "W"})

Immediate(type) ==
    CASE type \in {"b", "ub"} -> Operand("imm", 0, 8, 1, {})
      [] type = "w" -> Operand("imm", 0, 16, 2, {})
      [] type \in {"v", "z"} -> IF type = "v" /\ RexW THEN Operand("imm", 0, 64, 8, RexUse("W"))
                                ELSE IF Opsize THEN Operand("imm", 0, 16, 2, {"opsize"})
                                ELSE Operand("imm", 0, 32, 4, {})

Decode(mode, type, b) ==
    CASE mode = "low" -> LowBits(type)
      [] mode = "rax" -> Rax(type)
      [] mode = "rcx" -> Reg(8, 1, {})
      [] mode = "rdx" -> Reg(16, 2, {})
      [] mode = "const1" -> Operand("imm", 0, 1, 0, {})
      [] mode \in {"E", "M", "W"} -> IF modrm.mod = 3 THEN RmReg(mode, type) ELSE RmMem(mode, type, b)
      [] mode = "G" -> RegField(type)
      [] mode = "I" -> Immediate(type)
      [] mode = "J" -> Operand("disp", 0, 0, IF type = "b" THEN 1 ELSE 4, {})
      [] mode = "C" -> Operand("creg", modrm.reg + Ext("R"), 64, 0, RexUse("R"))
      [] mode = "D" -> IF "R" \in rex THEN Failed ELSE Operand("dreg", modrm.reg, 64, 0, {})
      [] mode = "S" -> IF "R" \in rex THEN Failed ELSE Operand("sreg", modrm.reg, 16, 0, {})
      [] mode = "R" -> IF modrm.mod = 3 THEN Reg(64, modrm.rm + Ext("B"), RexUse("B")) ELSE Failed
      [] mode = "U" -> IF modrm.mod = 3
                       THEN Operand("xmm", modrm.rm + Ext("R"), 128, 0, RexUse("R")) ELSE Failed
      [] mode = "V" -> Operand("xmm", modrm.reg + Ext("R"), 128, 0, RexUse("R"))
      [] mode = "O" -> Operand("abs", 0, 0, 8, {})

SibRead(mode) == mode \in {"E", "M", "W"} /\ modrm.mod # 3 /\ modrm.rm = 4

DecodeOperand ==
    /\ pc = "operands" /\ Len(operands) < Len(info.operands)
    /\ LET o == info.operands[Len(operands) + 1] IN
       \E s \in IF SibRead(o[1]) THEN Sibs ELSE {sib} :
         LET d == Decode(o[1], o[2], s) IN
         /\ sib' = s
         /\ operands' = Append(operands, d)
         /\ len' = len + d.bytes
         /\ used' = used \cup d.uses
         /\ pc' = IF d.ok THEN "operands" ELSE "assert"
    /\ UNCHANGED <<at, prefixes, rex, opcode, info, group, modrm, given>>

-------------------------------------------------------------------------------
(* disasm_section                                                          *)

Known == info.known

\* The tables of register names have 16 entries, 6 for segments and 8 for
\* debug registers.
PrintAsserts ==
    \E i \in DOMAIN operands :
      operands[i].reg >= (CASE operands[i].kind = "sreg" -> 6 [] operands[i].kind = "dreg" -> 8
                            [] operands[i].kind = "mem" -> 256 [] OTHER -> 16)

\* Prefixes that are shown, or ignored: rep hides an operand size prefix
Shown ==
    {"rex", "W", "R", "X", "B", "lock"}
    \cup (IF "rep" \in prefixes THEN {"rep", "opsize"} ELSE {})
    \cup (IF \E i \in DOMAIN operands : operands[i].kind = "mem" /\ operands[i].reg # 16
          THEN {"cs", "gs"} ELSE {})

Unused == prefixes \ used

Decoded == pc = "operands" /\ Len(operands) = Len(info.operands)

PrintUnknown == Decoded /\ ~Known /\ Fresh("unknown", at)

PrintFails ==
    /\ Decoded /\ Known /\ PrintAsserts
    /\ pc' = "assert"
    /\ UNCHANGED <<at, len, prefixes, rex, opcode, info, group, modrm, operands, used, sib, given>>

PrintUnused == Decoded /\ Known /\ ~PrintAsserts /\ Unused \ Shown # {} /\ Fresh("unused", at)

\* Mutant: the loop ends only when it meets the end of the section exactly.
PrintNextExact ==
    /\ Decoded /\ Known /\ ~PrintAsserts /\ Unused \subseteq Shown
    /\ IF at + len # End THEN Fresh("prefix", at + len) ELSE Fresh("done", End)

PrintNext ==
    /\ Decoded /\ Known /\ ~PrintAsserts /\ Unused \subseteq Shown
    /\ IF at + len < End THEN Fresh("prefix", at + len) ELSE Fresh("done", End)

Over == pc \in {"done", "unknown", "unused", "assert"}

Next ==
    \/ LegacyPrefix \/ RexPrefix \/ ReadOpcode \/ ReadModrm \/ ReadModrmLate \/ DecodeOperand
    \/ PrintUnknown \/ PrintFails \/ PrintUnused \/ PrintNext
    \/ (Over /\ UNCHANGED vars)

\* The loops run; the input has no more than MaxPrefixes prefixes in a row.
Spec == Init /\ [][Next]_vars /\ WF_vars(Next)

-------------------------------------------------------------------------------
(* Reference: the encoding as the architecture defines it (64-bit mode),   *)
(* for the opcodes the table knows.                                        *)

\* Opcodes with a ModR/M byte, by rows of the opcode maps.
RefModrm(o) ==
    \/ o < \h40 /\ o % 8 < 4
    \/ o \in {\h63, \h69, \h6b, \hc0, \hc1, \hc6, \hc7, \hf6, \hf7, \hfe, \hff}
    \/ o \in \h80 .. \h8f \/ o \in \hd0 .. \hd3
    \/ /\ o >= 256
       /\ ~(o - 256) \in {\h05, \h07, \ha2} \cup \h30 .. \h37 \cup \h80 .. \h8f \cup \hc8 .. \hcf

Has(p) == p \in given.set

\* Bytes of immediates: 16-bit only with 66 and without REX.W.
RefZ == IF Has("opsize") /\ ~Has("W") THEN 2 ELSE 4

RefImmediate(o) ==
    CASE o < \h40 -> IF o % 8 = 4 THEN 1 ELSE IF o % 8 = 5 THEN RefZ ELSE 0
      [] o \in {\h6b, \h80, \h83, \ha8, \hc0, \hc1, \hc6, \hcd, \he4, \heb, \h1ba, \h173} -> 1
      [] o \in \h70 .. \h7f \/ o \in \hb0 .. \hb7 -> 1
      [] o \in {\h69, \h81, \ha9, \hc7} -> RefZ
      [] o \in \hb8 .. \hbf -> IF Has("W") THEN 8 ELSE RefZ
      [] o = \hc2 -> 2
      [] o = \hc8 -> 3
      [] o \in {\he8, \he9} \cup \h180 .. \h18f -> 4
      [] o \in \ha0 .. \ha3 -> 8
      [] o \in {\hf6, \hf7} /\ modrm.reg < 2 -> IF o = \hf6 THEN 1 ELSE RefZ
      [] OTHER -> 0

\* SIB and displacement.
RefAddress ==
    LET hasSib == modrm.mod # 3 /\ modrm.rm = 4 IN
    (IF hasSib THEN 1 ELSE 0)
    + (CASE modrm.mod = 0 -> IF modrm.rm = 5 \/ (hasSib /\ sib.base = 5) THEN 4 ELSE 0
         [] modrm.mod = 1 -> 1
         [] modrm.mod = 2 -> 4
         [] modrm.mod = 3 -> 0)

RefLength ==
    given.bytes + (IF opcode < 256 THEN 1 ELSE 2)
    + (IF RefModrm(opcode) THEN 1 + RefAddress ELSE 0) + RefImmediate(opcode)

\* The width an operand type has: REX.W wins over 66.
RefWidth(mode, type) ==
    CASE type = "b" -> 8
      [] type = "w" -> 16
      [] type = "d" -> IF mode = "R" THEN 64 ELSE 32
      [] type = "q" -> 64
      [] type = "y" -> IF Has("W") THEN 64 ELSE 32
      [] type = "z" /\ mode # "rax" -> IF Has("opsize") /\ ~Has("W") THEN 16 ELSE 32
      [] type = "v" \/ mode = "rax" -> IF Has("W") THEN 64 ELSE IF Has("opsize") THEN 16 ELSE 32

-------------------------------------------------------------------------------
(* Properties.                                                             *)

\* Types; an instruction has at most max_operands operands.
TypeOK ==
    /\ pc \in {"prefix", "modrm", "late modrm", "operands", "done", "unknown", "unused", "assert"}
    /\ at \in 0 .. End /\ len \in 0 .. MaxPrefixes + 3 + 5 + 8
    /\ opcode \in Opcodes /\ group \in -1 .. 31
    /\ Len(operands) <= 3
    /\ used \cup prefixes \subseteq {"lock", "repnz", "rep", "cs", "gs", "opsize", "rex", "W", "R", "X", "B"}

Printable == Decoded /\ Known /\ ~PrintAsserts

\* The length the decoder finds, on which every later instruction of the
\* section depends, is the one the architecture defines, for every opcode of
\* the table, ModR/M and SIB form and prefix.  Not for 66 together with
\* REX.W, where the decoder takes 66 although REX.W wins.
LengthExact == Printable /\ ~(Has("opsize") /\ Has("W")) => len = RefLength

\* General registers and memory operands have the width the prefixes say:
\* a prefix that a group took is not applied to the operands again, and one
\* that none took is.  Not for 66 with REX.W, nor with byte operands, which
\* the decoder prints as 16-bit registers.
WidthsExact ==
    Printable /\ ~(Has("opsize") /\ (Has("W") \/ \E i \in DOMAIN operands : info.operands[i][2] = "b")) =>
      \A i \in DOMAIN operands :
        LET mode == info.operands[i][1]  type == info.operands[i][2] IN
        /\ operands[i].kind = "reg" \/ (operands[i].kind = "mem" /\ mode = "E")
        /\ "f64" \notin info.flags
        => operands[i].bits = RefWidth(mode, type)

\* Code that uses neither 66 nor undefined forms never trips an assert: what
\* is not in the table ends the listing instead.  Undefined: a register where
\* memory is required, memory for a control register move, segment registers
\* 6 and 7, debug and segment registers with REX.R, the unlisted members of
\* 0F 01.  The memory forms of cvtdq2ps and cvtdq2pd are defined, and trip it.
PlainDecodes ==
    pc = "assert" /\ ~Has("opsize") =>
      \/ \E i \in DOMAIN info.operands :
           LET mode == info.operands[i][1] IN
           \/ mode = "M" /\ modrm.mod = 3
           \/ mode = "R" /\ modrm.mod # 3
           \/ mode = "S" /\ (modrm.reg >= 6 \/ Has("R"))
           \/ mode = "D" /\ Has("R")
      \/ opcode = \h101 /\ modrm.mod = 3 /\ modrm.rm # 0
      \/ opcode \in {\h173, \h15b, \h1e6} /\ modrm.mod # 3

\* The listing ends: every round of the section loop moves on, and the prefix
\* loop consumes what it reads.
Terminates == <>Over

\* Every instruction that decodes has the length and the operand widths the
\* architecture defines (do_disasm).
DecodesExactly == TypeOK /\ LengthExact /\ WidthsExact

\* Plain code is listed to the end: no assert stops it, and no loop does
\* (disasm_section).
ListsAll == []PlainDecodes /\ Terminates
===============================================================================
