--------------------------------- MODULE Unwind ---------------------------------
(***************************************************************************)
(* The stack trace that a stopped machine prints (attos/pe.cpp,            *)
(* kernel/isr.cpp): from the unwind codes of each function to its caller.  *)
(*                                                                         *)
(* A function is [begin, end, codes]; its unwind codes are slots of        *)
(* [off, op, info], last prologue step first.  Some codes take the next    *)
(* slot, whose info is a count of words.  Addresses of code are small      *)
(* numbers, 0 is none; the stack is a sequence of words, rsp an index.     *)
(***************************************************************************)
EXTENDS Integers, SequencesExt

CONSTANTS
    Functions,    \* the function tables of the images, one sequence for each
    Images,       \* [first, last] of each image: the kernel, a user program
    Symbols,      \* addresses in the kernel's debug information, ascending
    MaxFrames

-------------------------------------------------------------------------------
(* unwind_once                                                             *)

\* Mutant: the end of a function is not part of it.
InFunctionStrict(f, rip) == f.begin <= rip /\ rip < f.end

InFunction(f, rip) == f.begin <= rip /\ rip <= f.end

runtime_function_info(table, rip) == SelectInSeq(table, LAMBDA f : InFunction(f, rip))

ret(stack, rsp) == [rsp |-> rsp + 1, rip |-> stack[rsp]]
iret(stack, rsp) == [rsp |-> stack[rsp + 3], rip |-> stack[rsp]]

TwoSlots == {"ALLOC_LARGE", "SAVE_NONVOL", "SAVE_XMM128"}

\* Steps of the prologue that have not been made yet are not undone.
Ignored(code, offset) == code.off > offset

\* Words that a code gives back; next is the slot after it.  (A frame register
\* is not followed, and the far forms, which the compiler does not use here,
\* stop the machine: they are left out.)
Words(code, next) ==
    CASE code.op = "PUSH_NONVOL" -> 1
      [] code.op = "ALLOC_SMALL" -> code.info + 1
      [] code.op = "ALLOC_LARGE" -> next.info
      [] OTHER -> 0

\* One turn of the loop over the codes; a is [rsp, skip, frame].
UnwindCode(f, offset, a, i) ==
    LET code == f.codes[i]
        next == f.codes[IF i < Len(f.codes) THEN i + 1 ELSE i]
    IN IF a.frame THEN a
       ELSE IF a.skip THEN [a EXCEPT !.skip = FALSE]
       ELSE IF code.op = "PUSH_MACHFRAME" THEN [a EXCEPT !.frame = ~Ignored(code, offset)]
       ELSE [a EXCEPT !.skip = code.op \in TwoSlots,
                      !.rsp = @ + IF Ignored(code, offset) THEN 0 ELSE Words(code, next)]

unwind_once(stack, c, table) ==
    LET n == runtime_function_info(table, c.rip)
        f == table[n]
        a == FoldLeft(LAMBDA x, i : UnwindCode(f, c.rip - f.begin, x, i),
                      [rsp |-> c.rsp, skip |-> FALSE, frame |-> FALSE],
                      [i \in DOMAIN f.codes |-> i])
    IN IF n = 0 THEN ret(stack, c.rsp)   \* a leaf function
       ELSE IF a.frame THEN iret(stack, a.rsp) ELSE ret(stack, a.rsp)

-------------------------------------------------------------------------------
(* print_stack                                                             *)

find_image(rip) == SelectInSeq(Images, LAMBDA im : im.first <= rip /\ rip <= im.last)

\* The last symbol that is not behind the address.
closest_symbol(addr) ==
    LET behind == SelectInSeq(Symbols, LAMBDA s : s > addr)
    IN Symbols[IF behind = 0 THEN Len(Symbols) ELSE behind - 1]

\* A line names the kernel's symbol, or the user program.
print_address(im, addr) ==
    LET of == IF im = 1 THEN closest_symbol(addr) ELSE Images[im].first
    IN [of |-> of, plus |-> addr - of]

\* One turn of the loop; a is [context, lines, skip, done].
PrintFrame(stack, a) ==
    LET rip == a.context.rip
        im == find_image(rip)
    IN IF a.done \/ rip = 0 \/ im = 0 THEN [a EXCEPT !.done = TRUE]
       ELSE [a EXCEPT !.context = unwind_once(stack, @, Functions[im]),
                      !.lines = IF a.skip = 0 THEN Append(@, print_address(im, rip)) ELSE @,
                      !.skip = IF @ = 0 THEN 0 ELSE @ - 1]

print_stack(stack, context, skip) ==
    FoldLeft(LAMBDA a, i : PrintFrame(stack, a),
             [context |-> context, lines |-> <<>>, skip |-> skip, done |-> FALSE],
             [i \in 1 .. MaxFrames |-> i]).lines

-------------------------------------------------------------------------------
(* The stack that a chain of calls leaves (what compiled prologues do): a  *)
(* chain lists the places where each function is, innermost first.         *)

FunctionAt(rip) ==
    LET all == UNION {ToSet(Functions[im]) : im \in DOMAIN Functions}
        here == {f \in all : f.begin <= rip /\ rip <= f.end}
    IN IF here = {} THEN [begin |-> rip, end |-> rip, codes |-> <<>>]
       ELSE CHOOSE f \in here : TRUE

\* Slots that are codes, not operands.
CodeSlots(f) == {i \in DOMAIN f.codes : f.codes[i].op # "operand"}

\* Words on the stack for the steps the prologue has made.
FrameWords(f, at) ==
    LET done == {i \in CodeSlots(f) : f.begin + f.codes[i].off <= at}
        w(i) == Words(f.codes[i], f.codes[IF i < Len(f.codes) THEN i + 1 ELSE i])
    IN FoldLeft(LAMBDA n, i : IF i \in done THEN n + w(i) ELSE n, 0, [i \in DOMAIN f.codes |-> i])

Interrupted(f) == \E i \in CodeSlots(f) : f.codes[i].op = "PUSH_MACHFRAME"

\* The stack below (outside of) the first k activations of the chain; words
\* that hold no address are 0.  An interrupt leaves rip, cs, flags, rsp, ss.
StackOf(chain) ==
    FoldLeft(LAMBDA s, k :
                 LET f == FunctionAt(chain[k])
                     caller == IF k < Len(chain) THEN chain[k + 1] ELSE 0
                     own == s \o [i \in 1 .. FrameWords(f, chain[k]) |-> 0]
                 IN IF Interrupted(f) THEN own \o <<caller, 0, 0, Len(own) + 6, 0>>
                    ELSE Append(own, caller),
             <<>>, [k \in DOMAIN chain |-> k])

\* What print_stack has to show of it: the place in each function.
PlacesOf(chain, skip) ==
    [k \in 1 .. Len(chain) - skip |->
        LET rip == chain[k + skip]
            of == IF find_image(rip) = 1 THEN FunctionAt(rip).begin ELSE Images[2].first
        IN [of |-> of, plus |-> rip - of]]
================================================================================
