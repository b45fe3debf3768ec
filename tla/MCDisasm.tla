-------------------------------- MODULE MCDisasm --------------------------------
(***************************************************************************)
(* Instance of Disasm: every opcode, the ModR/M and SIB bytes that differ  *)
(* in how they are decoded (r/m 4 and 5, SIB base 5, all of reg for the    *)
(* groups), up to two prefixes, and a section of two bytes, so that the    *)
(* loop goes round after a one-byte instruction.                           *)
(***************************************************************************)
EXTENDS Disasm

MCRexes == {{}, {"W"}, {"R", "B"}}
MCLegacy == {"opsize", "rep", "repnz", "cs", "lock"}

Modrm(mods, regs, rms) == [mod : mods, reg : regs, rm : rms]
MCModrms == Modrm(0 .. 3, {1}, {1, 4, 5}) \cup Modrm({0, 3}, 0 .. 7, {0})
MCSibs == {[scale |-> 1, index |-> 4, base |-> 5], [scale |-> 2, index |-> 1, base |-> 0]}

===============================================================================
