---------------------------------- MODULE Shell ---------------------------------
(***************************************************************************)
(* The interactive program (exp/userexe/userexe.cpp): it asks for an       *)
(* address, sends the DSDT, runs one program and then edits a command line *)
(* in a kvector of characters, printing and comparing it as a C string.    *)
(*                                                                         *)
(* Words are shorter than the program's: ExitWord for "EXIT", Suffix for   *)
(* ".EXE".                                                                 *)
(***************************************************************************)
EXTENDS Integers, SequencesExt, FiniteSetsExt

CONSTANTS
    Letters,    \* the plain keys; "X" and "space" are among them
    ExitWord,
    Suffix,
    cmd_max,
    FirstRoom   \* of kvector

VARIABLES
    phase,   \* "dhcp" | "dsdt" | "first" | "prompt" | "exit"
    cmd,     \* the vector: [slots, size]
    line,    \* the characters on the screen's last line
    run      \* tftp_execute: [step, file]

Nul == "NUL"
Unset == "unset"    \* memory that was never written
NoCommand == [slots |-> <<>>, size |-> 0]
Resting == [step |-> "none", file |-> <<>>]

ShellInit == phase = "dhcp" /\ cmd = NoCommand /\ line = <<>> /\ run = Resting

Typed == SubSeq(cmd.slots, 1, cmd.size)

\* push_back, with the room kvector makes.
Pushed(c, x) ==
    LET cap == Len(c.slots)
        room == IF c.size < cap THEN cap ELSE IF cap # 0 THEN 2 * cap ELSE FirstRoom
        slots == c.slots \o [i \in 1 .. room - cap |-> Unset]
    IN [slots |-> [slots EXCEPT ![c.size + 1] = x], size |-> c.size + 1]

PushedAll(c, s) == FoldLeft(Pushed, c, s)

\* pop_back: the character stays in memory.
Popped(c) == [c EXCEPT !.size = @ - 1]

\* The C string that starts at place i; without a terminator it runs on into
\* whatever is there.
Text(c, i) ==
    LET ends == {j \in i .. Len(c.slots) : c.slots[j] = Nul}
    IN IF ends = {} THEN SubSeq(c.slots, i, Len(c.slots)) \o <<Unset>>
       ELSE SubSeq(c.slots, i, Min(ends) - 1)

-------------------------------------------------------------------------------
(* Before the prompt                                                       *)

\* do_dhcp, whose result is ignored, then dump_dsdt.
Start ==
    \/ phase = "dhcp" /\ phase' = "dsdt" /\ UNCHANGED <<cmd, line, run>>
    \/ /\ phase = "dsdt" /\ phase' = "first"
       /\ run' = [step |-> "read", file |-> <<"T">> \o Suffix]
       /\ UNCHANGED <<cmd, line>>

-------------------------------------------------------------------------------
(* tftp_execute                                                            *)

\* What follows tftp_execute: the prompt, with an empty command.
Executed == run' = Resting /\ phase' = "prompt" /\ cmd' = NoCommand /\ line' = <<>>

\* The file, or nothing when it failed or escape was pressed.
ReadFile ==
    /\ run.step = "read"
    /\ \/ run' = [run EXCEPT !.step = "open"] /\ UNCHANGED <<phase, cmd, line>>
       \/ Executed

\* The handle of the process, start_exe, the exit code; at the end of the
\* block the handle is closed.
RunFile ==
    \/ \E s \in {<<"open", "start">>, <<"start", "exit code">>} :
         run.step = s[1] /\ run' = [run EXCEPT !.step = s[2]] /\ UNCHANGED <<phase, cmd, line>>
    \/ run.step = "exit code" /\ Executed

-------------------------------------------------------------------------------
(* The prompt                                                              *)

AtPrompt == phase = "prompt" /\ run = Resting

Letter(k) ==
    /\ AtPrompt
    /\ cmd.size < cmd_max
    /\ cmd' = Pushed(cmd, k)
    /\ line' = Append(line, k)
    /\ UNCHANGED <<phase, run>>

\* clearline: as many spaces as a command may have characters.
Cleared == SubSeq(line, cmd_max + 1, Len(line))

\* Mutant: the last character is not overwritten.
BackNotErased == Popped(cmd)

\* The command without its last character, in whose place a NUL is left to
\* end what is printed.
Back == Popped([cmd EXCEPT !.slots[cmd.size] = Nul])

BackSpace ==
    /\ AtPrompt
    /\ cmd.size > 0
    /\ cmd' = Back
    /\ line' = Cleared \o Text(Back, 1)
    /\ UNCHANGED <<phase, run>>

Terminated == Pushed(cmd, Nul)
IsExit == Text(Terminated, 1) = ExitWord
IsRun == Terminated.size > 3 /\ cmd.slots[1] = "X" /\ cmd.slots[2] = "space"

\* Mutant: the terminator stays before the suffix.
WithSuffixBehind == PushedAll(Terminated, Suffix \o <<Nul>>)

\* The command with the suffix.
WithSuffix == PushedAll(Popped(Terminated), Suffix \o <<Nul>>)

\* An empty command does nothing.
Enter ==
    /\ AtPrompt
    /\ cmd.size > 0
    /\ \/ IsExit /\ phase' = "exit" /\ cmd' = Terminated /\ line' = <<>> /\ UNCHANGED run
       \/ /\ ~IsExit /\ IsRun
          /\ cmd' = WithSuffix
          /\ run' = [step |-> "read", file |-> Text(WithSuffix, 3)]
          /\ line' = <<>>
          /\ UNCHANGED phase
       \/ ~IsExit /\ ~IsRun /\ cmd' = NoCommand /\ line' = <<>> /\ UNCHANGED <<phase, run>>

Escape == AtPrompt /\ phase' = "exit" /\ line' = <<>> /\ UNCHANGED <<cmd, run>>

ShellNext == Start \/ ReadFile \/ RunFile \/ BackSpace \/ Enter \/ Escape \/ \E k \in Letters : Letter(k)

-------------------------------------------------------------------------------
ShellTypeOK ==
    /\ phase \in {"dhcp", "dsdt", "first", "prompt", "exit"}
    /\ cmd.size \in 0 .. Len(cmd.slots)
    /\ run.step \in {"none", "read", "open", "start", "exit code"}

\* What is on the screen is the command, after whatever typing and erasing:
\* a backspace prints the vector as a C string, which ends at the character
\* just erased and not at an older one behind it (main).
ScreenExact == AtPrompt => line = Typed

\* A program is asked for by the name that was typed, with the suffix, and
\* that name lies in the vector unchanged until the program has ended.
FileNamed ==
    (phase = "prompt" /\ run # Resting) =>
      /\ Len(run.file) > Len(Suffix)
      /\ run.file = Text(cmd, 3)
      /\ Typed = <<"X", "space">> \o run.file \o <<Nul>>
      /\ SubSeq(run.file, Len(run.file) - Len(Suffix) + 1, Len(run.file)) = Suffix
===============================================================================
