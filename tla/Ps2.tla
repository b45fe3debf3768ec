---------------------------------- MODULE Ps2 ----------------------------------
(***************************************************************************)
(* The keyboard (kernel/ps2.cpp): the controller with its one-byte output  *)
(* buffer, the interrupt handler that fills a queue, and a program that    *)
(* polls it through ko_keyboard::read and yields (kernel/kernel.cpp,       *)
(* exp/userexe/userexe.cpp).                                               *)
(*                                                                         *)
(* Scan codes are abstracted to what the code tells apart: "make" is a key *)
(* press, "break" a release that scan_code_set_1 translates, "other" a     *)
(* release that it does not, and "E0", "E1" are the prefixes.              *)
(*                                                                         *)
(* Interrupts are enabled everywhere but in user mode and inside           *)
(* interrupt_disabler scopes; such a scope is one step.                    *)
(***************************************************************************)
EXTENDS Naturals, SequencesExt

CONSTANTS
    Size,        \* of buffer_: a power of two
    Uint32,      \* number of values of uint32_t
    Strokes,     \* what the user does: sequences of scan codes
    MaxStrokes,
    MayOverrun,  \* TRUE: the user types although the queue may be full
    NoByte       \* the controller's output buffer is empty

ASSUME SizeAssumption == Size \in Nat \ {0} /\ Uint32 \in Nat /\ Uint32 >= 2 * Size /\ Uint32 % Size = 0

Codes == {"make", "break", "other", "E0", "E1"}
Bytes == Codes \cup {NoByte}

ASSUME StrokeAssumption ==
    /\ Strokes \subseteq Seq(Codes) /\ NoByte \notin Codes
    /\ MaxStrokes \in Nat /\ MayOverrun \in BOOLEAN

VARIABLES
    wire,      \* bytes the keyboard has still to send
    out,       \* the controller's output buffer (status_mask_output_full)
    irq,       \* interrupt request latched
    elems, read_pos, write_pos,   \* buffer_
    pc,        \* where the program is
    skip,      \* read_key: bytes of a prefixed sequence still to be ignored
    typed, taken,  \* history: bytes typed, bytes popped
    due, keys,     \* history: keys read_key has to return, and has returned
    strokes        \* number of strokes so far

queue == <<elems, read_pos, write_pos>>
vars == <<wire, out, irq, elems, read_pos, write_pos, pc, skip, typed, taken, due, keys, strokes>>

-------------------------------------------------------------------------------
(* fixed_size_queue                                                        *)

\* Mutant: positions that do not wrap.
Unbounded(n) == n

uint32_t(n) == n % Uint32

size == (Uint32 + write_pos - read_pos) % Uint32
empty == size = 0

\* Mutant: one place of the queue is never used.
FullOneEarly == size >= Size - 1

full == size = Size

push(b) ==
    /\ elems' = [elems EXCEPT ![write_pos % Size] = b]
    /\ write_pos' = uint32_t(write_pos + 1)
    /\ UNCHANGED read_pos

\* Mutant: the newest element is taken.
FrontNewest == elems[(write_pos + Size - 1) % Size]

front == elems[read_pos % Size]

pop ==
    /\ read_pos' = uint32_t(read_pos + 1)
    /\ UNCHANGED <<elems, write_pos>>

\* begin() to end()
Contents == [i \in 1 .. size |-> elems[(read_pos + i - 1) % Size]]

-------------------------------------------------------------------------------
Init ==
    /\ wire = <<>> /\ out = NoByte /\ irq = FALSE
    /\ elems \in [0 .. Size - 1 -> {NoByte}] /\ read_pos = 0 /\ write_pos = 0
    /\ pc = "user" /\ skip = 0
    /\ typed = <<>> /\ taken = <<>> /\ due = 0 /\ keys = 0
    /\ strokes = 0

(* The keyboard and its controller.                                        *)

\* A release that is not part of a prefixed sequence is a key.
KeysOf(stroke) ==
    IF Range(stroke) \cap {"E0", "E1"} # {} THEN 0
    ELSE Cardinality({i \in DOMAIN stroke : stroke[i] = "break"})

\* Bytes between the user and the queue.
UnderWay == Len(wire) + (IF out = NoByte THEN 0 ELSE 1)

Type(stroke) ==
    /\ strokes < MaxStrokes
    /\ MayOverrun \/ UnderWay + size + Len(stroke) <= Size
    /\ strokes' = strokes + 1
    /\ wire' = wire \o stroke
    /\ typed' = typed \o stroke
    /\ due' = due + KeysOf(stroke)
    /\ UNCHANGED <<out, irq, queue, pc, skip, taken, keys>>

\* The next byte is loaded when the last one has been read, and signalled.
Send ==
    /\ wire # <<>> /\ out = NoByte
    /\ out' = Head(wire)
    /\ wire' = Tail(wire)
    /\ irq' = TRUE
    /\ UNCHANGED <<queue, pc, skip, typed, taken, due, keys, strokes>>

-------------------------------------------------------------------------------
(* Interrupts.                                                             *)

InterruptsEnabled == pc # "user"

\* An interrupt ends a halt.
Woken == CASE pc = "yielded" -> "user" [] pc = "halted" -> "get" [] OTHER -> pc

Panic == pc = "panic"

\* controller_impl::isr.  With a full queue it does not read the data port.
isr ==
    /\ irq /\ InterruptsEnabled /\ ~Panic
    /\ irq' = FALSE
    /\ \/ /\ out = NoByte
          /\ pc' = "panic"
          /\ UNCHANGED <<out, queue>>
       \/ /\ out # NoByte
          /\ pc' = Woken
          /\ IF ~full THEN push(out) /\ out' = NoByte ELSE UNCHANGED <<out, queue>>
    /\ UNCHANGED <<wire, skip, typed, taken, due, keys, strokes>>

\* Mutant: IRQ 0 has no handler.
NoTick == FALSE

\* IRQ 0: interrupt_timer
Tick ==
    /\ InterruptsEnabled /\ ~Panic
    /\ pc' = Woken
    /\ UNCHANGED <<wire, out, irq, queue, skip, typed, taken, due, keys, strokes>>

-------------------------------------------------------------------------------
(* The program: my_keyboard::read_key, or any loop that polls and yields.  *)

Goto(there) ==
    /\ pc' = there
    /\ UNCHANGED <<wire, out, irq, queue, skip, typed, taken, due, keys, strokes>>

\* yield: interrupts are enabled, then the processor is halted
Yield == pc = "user" /\ Goto("yield")
YieldHalt == pc = "yield" /\ Goto("yielded")

\* ko_keyboard::read with room for one key: interrupt_enabler
Read == pc = "user" /\ Goto("poll")

\* Mutant: any byte counts as a key.
AnyByteAvailable == ~empty

key_available == \E i \in 1 .. size : Contents[i] \in {"break", "other"}

\* Mutant: polling reads the data port although the handler does, too.
PollReadsPort ==
    /\ pc = "poll"
    /\ pc' = IF key_available THEN "get" ELSE "user"
    /\ out' = NoByte
    /\ UNCHANGED <<wire, irq, queue, skip, typed, taken, due, keys, strokes>>

Poll == pc = "poll" /\ Goto(IF key_available THEN "get" ELSE "user")

\* get_scan_key: while (buffer_empty()) __halt();
TestEmpty == pc = "get" /\ Goto(IF empty THEN "halt" ELSE "pop")
Halt == pc = "halt" /\ Goto("halted")

\* get_scan_key's pop, and what read_key does with the byte.
Pop ==
    /\ pc = "pop"
    /\ pop
    /\ taken' = Append(taken, front)
    /\ IF skip > 0
       THEN skip' = skip - 1 /\ pc' = "get" /\ UNCHANGED keys
       ELSE \/ front = "E0" /\ skip' = 1 /\ pc' = "get" /\ UNCHANGED keys
            \/ front = "E1" /\ skip' = 2 /\ pc' = "get" /\ UNCHANGED keys
            \/ front \in {"make", "other"} /\ pc' = "get" /\ UNCHANGED <<skip, keys>>
            \/ front = "break" /\ pc' = "user" /\ keys' = keys + 1 /\ UNCHANGED skip
    /\ UNCHANGED <<wire, out, irq, typed, due, strokes>>

Program == Yield \/ YieldHalt \/ Read \/ Poll \/ TestEmpty \/ Halt \/ Pop

Next == (\E s \in Strokes : Type(s)) \/ Send \/ isr \/ Tick \/ Program

\* The controller and the timer do not stop, a pending interrupt is not put
\* off each time interrupts are enabled, and the program reads the keyboard
\* again and again.
Fairness ==
    /\ WF_vars(Send) /\ SF_vars(isr) /\ WF_vars(Tick)
    /\ WF_vars(YieldHalt \/ Poll \/ TestEmpty \/ Halt \/ Pop) /\ SF_vars(Read)

Spec == Init /\ [][Next]_vars
FairSpec == Spec /\ Fairness

-------------------------------------------------------------------------------
(* Properties.                                                             *)

\* The shape of the state.
TypeOK ==
    /\ wire \in Seq(Codes) /\ out \in Bytes /\ irq \in BOOLEAN
    /\ elems \in [0 .. Size - 1 -> Bytes]
    /\ read_pos \in 0 .. Uint32 - 1 /\ write_pos \in 0 .. Uint32 - 1
    /\ pc \in {"user", "yield", "yielded", "poll", "get", "halt", "halted", "pop", "panic"}
    /\ skip \in 0 .. 2
    /\ typed \in Seq(Codes) /\ taken \in Seq(Bytes)

\* No byte is lost, doubled or reordered between the keyboard and read_key,
\* whatever the interrupt handler interrupts and when the positions of the
\* queue wrap (fixed_size_queue, isr).
NothingLost ==
    typed = taken \o Contents \o (IF out = NoByte THEN <<>> ELSE <<out>>) \o wire

\* The handler only runs with a byte to read (REQUIRE in isr).
IsrHasByte == pc # "panic" /\ (irq => out # NoByte)

\* A byte in the controller is signalled until it is read; only a handler
\* that found the queue full leaves it there.
Signalled == MayOverrun \/ (out # NoByte => irq)

\* The queue holds no more than its Size elements, although size is the
\* difference of two wrapping positions, and get_scan_key takes none from an
\* empty one; a user who waits for room leaves it for every byte under way.
QueueBounded ==
    /\ size <= Size
    /\ pc = "pop" => ~empty
    /\ MayOverrun \/ UnderWay + size <= Size

\* No prefixed or untranslated key has been read.
Plain == Range(taken) \cap {"E0", "E1", "other"} = {}

\* While there are only plain keys, nothing is ignored, and a read_key that has
\* begun has the byte that key_available saw still before it.
KeyPromised ==
    Plain => skip = 0 /\ (pc \in {"get", "pop"} => key_available)

\* A program that has asked key_available does not wait in read_key
\* (ko_keyboard::read), unless a prefixed or untranslated key was among the
\* bytes: key_available looks at single bytes and counts those keys, too.
PlainKeysReady == Plain => pc \notin {"halt", "halted"}

\* Every key typed is returned to the program in the end (read_key).
KeysArrive == <>[](keys = due)

\* The handler and the reader agree about every byte: none is handled that is
\* not there (isr), none stays unannounced, and a byte that key_available saw
\* is one read_key returns.
ReadersAgree ==
    TypeOK /\ QueueBounded /\ IsrHasByte /\ Signalled /\ KeyPromised /\ PlainKeysReady
================================================================================
