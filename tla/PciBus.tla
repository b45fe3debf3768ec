--------------------------------- MODULE PciBus ---------------------------------
(***************************************************************************)
(* Configuration space and the sizing of base address registers            *)
(* (kernel/pci.cpp).                                                       *)
(*                                                                         *)
(* A register of RegBits bits stands for one of 32; the low flag bits keep *)
(* their widths (two of an I/O register, four of a memory register).       *)
(***************************************************************************)
EXTENDS Integers, SequencesExt

CONSTANTS
    NumBars,    \* base address registers of a function
    RegBits     \* width of a register

ASSUME PciAssumption == NumBars \in Nat \ {0} /\ RegBits \in Nat /\ RegBits > 4

AllOnes == 2 ^ RegBits - 1

-------------------------------------------------------------------------------
(* The hardware.  A register decodes size bytes: the address bits below    *)
(* size, and those the card does not have (beyond range), are hard-wired,  *)
(* and flags are read only.  A register that is not there has size range.  *)

write_config_dword(bar, v) ==
    [bar EXCEPT !.value = ((v % bar.range) \div bar.size) * bar.size + bar.flags]

Decodes(bar) == IF bar.size = bar.range THEN 0 ELSE bar.size

-------------------------------------------------------------------------------
(* read_bars                                                               *)

bar_is_io(v) == v % 2 = 1
bar_mem_type(v) == (v \div 2) % 4
wide_bar == 2

\* Mutant: the flag bits are taken for address bits.
BarSizeFlags(orig, probe) == (2 ^ RegBits - probe) % 2 ^ RegBits

\* Invert bits and increment 1: what sticks of a register full of ones.
BarSize(orig, probe) ==
    LET bits == IF bar_is_io(orig) THEN probe - (probe % 4) ELSE probe - (probe % 16)
    IN (2 ^ RegBits - bits) % 2 ^ RegBits

\* Mutant: the register keeps the ones.
RestoredNot(bar, orig) == bar

Restored(bar, orig) == write_config_dword(bar, orig)

Sized(bar) == Restored(write_config_dword(bar, AllOnes), bar.value)
Probe(bar) == write_config_dword(bar, AllOnes).value

IsWide(v) == ~bar_is_io(v) /\ bar_mem_type(v) # 0

\* The REQUIREs on a register that takes the next one with it.
WideOk(regs, i) ==
    /\ bar_mem_type(regs[i].value) = wide_bar /\ i # NumBars
    /\ regs[i + 1].value = 0 /\ Probe(regs[i + 1]) = AllOnes

\* One turn of the loop; a is [regs, res, skip, ok].
ReadBar(a, i) ==
    LET orig == a.regs[i].value
        wide == IsWide(orig)
        sized == [a.regs EXCEPT ![i] = Sized(@)]
    IN IF ~a.ok THEN a
       ELSE IF a.skip THEN [a EXCEPT !.skip = FALSE]
       ELSE IF orig = 0 THEN a
       ELSE IF wide /\ ~WideOk(a.regs, i) THEN [a EXCEPT !.ok = FALSE]
       ELSE [regs |-> IF wide THEN [sized EXCEPT ![i + 1] = Sized(@)] ELSE sized,
             res  |-> Append(a.res, [address |-> orig, size |-> BarSize(orig, Probe(a.regs[i]))]),
             skip |-> wide, ok |-> TRUE]

read_bars(regs) ==
    LET after[i \in 0 .. NumBars] ==
          IF i = 0 THEN [regs |-> regs, res |-> <<>>, skip |-> FALSE, ok |-> TRUE]
          ELSE ReadBar(after[i - 1], i)
    IN after[NumBars]

-------------------------------------------------------------------------------
(* What read_bars has to find: the registers that are in use, without the  *)
(* upper halves, with the sizes they decode.                               *)

UpperHalf(regs, i) == i > 1 /\ regs[i - 1].value # 0 /\ IsWide(regs[i - 1].value)

BarsInUse(regs) ==
    LET used == SelectSeq([i \in 1 .. NumBars |-> i],
                          LAMBDA i : regs[i].value # 0 /\ ~UpperHalf(regs, i))
    IN [k \in DOMAIN used |-> [address |-> regs[used[k]].value, size |-> Decodes(regs[used[k]])]]
================================================================================
