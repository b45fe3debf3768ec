----------------------------- MODULE UserProcess -----------------------------
(***************************************************************************)
(* User processes and system calls: class user_process, syscall_handler    *)
(* and usermode_test (kernel/kernel.cpp), with the part of cpu_manager     *)
(* they use (kernel/cpu_manager.cpp).                                      *)
(*                                                                         *)
(* There is no scheduler.  A process runs until it starts another one      *)
(* (start_exe switches to it at once) or exits (the first running process  *)
(* of the global list is resumed, or the kernel when there is none).       *)
(*                                                                         *)
(* The list links every process object, newest first.  It is represented   *)
(* by the order it keeps: older[p] is the set of processes behind p.       *)
(* hack_set_user_image follows current_process_ and is left out.  What a   *)
(* device does on read and write belongs to the modules of the devices.    *)
(***************************************************************************)
EXTENDS Naturals, FiniteSets

CONSTANTS
    Proc,         \* process objects that can exist at the same time
    Root,         \* the process usermode_test puts on its stack
    MaxObjects,   \* user_process::max_objects
    NoProc,       \* nullptr
    NoObj,        \* an empty slot of objects_
    Kernel        \* the kernel's own memory manager

Devices == {"ethdev", "keyboard", "hack-acpi-dsdt"}

ASSUME RootAssumption       == Root \in Proc /\ IsFiniteSet(Proc)
ASSUME MaxObjectsAssumption == MaxObjects \in Nat \ {0}
ASSUME SentinelAssumption ==
    /\ NoProc \notin Proc
    /\ Kernel \notin Proc /\ Kernel # NoProc
    /\ NoObj \notin Proc \cup Devices
    /\ Proc \cap Devices = {}

VARIABLES
    state,     \* state_ of each process object; "none": no such object
    older,     \* the processes behind each one in the list
    objects,   \* objects_ of each process
    context,   \* context_: "zero", "saved" (by its start_exe of another one),
               \* "used" (loaded into the registers: out of date)
    starter,   \* history: the process that started each one
    current,   \* current_process_
    cr3,       \* whose memory manager is switched to
    rsp0,      \* tss_.rsp0 # 0: switch_to_context has a stack to return to
    phase,     \* of usermode_test: "start", "user", "back", "done"
    panic      \* the REQUIRE that failed, or "no"

vars == <<state, older, objects, context, starter, current, cr3, rsp0, phase, panic>>

Handles == 1 .. MaxObjects

\* Mutant: slots numbered from 0.
NoObjectsFromZero == [h \in 0 .. MaxObjects |-> NoObj]
NoObjects == [h \in Handles |-> NoObj]

Live == {p \in Proc : state[p] # "none"}
Running == {p \in Proc : state[p] = "running"}

-------------------------------------------------------------------------------
(* Panics: the first group is a user program's fault, the second would be  *)
(* the kernel's own.                                                       *)

UserFaults == {"out of handles", "bad handle", "protocol", "already started",
               "not exited", "undefined cast", "bad request"}
KernelFaults == {"destroyed while in use", "bad switch", "exit code", "rsp0"}

Panic(why) ==
    /\ panic' = why
    /\ UNCHANGED <<state, older, objects, context, starter, current, cr3, rsp0, phase>>

-------------------------------------------------------------------------------
Init ==
    /\ state = [p \in Proc |-> "none"]
    /\ older = [p \in Proc |-> {}]
    /\ objects = [p \in Proc |-> NoObjects]
    /\ context = [p \in Proc |-> "zero"]
    /\ starter = [p \in Proc |-> NoProc]
    /\ current = NoProc
    /\ cr3 = Kernel
    /\ rsp0 = FALSE
    /\ phase = "start"
    /\ panic = "no"

\* usermode_test up to the switch: the constructor links Root, the image is
\* mapped, the process is started and switched to.  The ten round trips to
\* restore_original_context before it leave rsp0 as they found it.
EnterUserMode ==
    /\ phase = "start" /\ panic = "no"
    /\ IF rsp0 THEN Panic("rsp0") ELSE
       /\ state' = [state EXCEPT ![Root] = "running"]
       /\ older' = [older EXCEPT ![Root] = Live]
       /\ context' = [context EXCEPT ![Root] = "used"]
       /\ current' = Root
       /\ cr3' = Root
       /\ rsp0' = TRUE
       /\ phase' = "user"
       /\ UNCHANGED <<objects, starter, panic>>

-------------------------------------------------------------------------------
(* System calls of the current process p.                                  *)

InUserMode(p) == phase = "user" /\ panic = "no" /\ current = p

HandleValid(p, h) == h \in Handles /\ objects[p][h] # NoObj

\* Mutant: object_open does not look for a free slot.
FreeSlotFirst(p, h) == h = 1

\* The slot object_open picks: the first free one.
FreeSlot(p, h) ==
    /\ objects[p][h] = NoObj
    /\ \A i \in Handles : i < h => objects[p][i] # NoObj

Full(p) == \A h \in Handles : objects[p][h] # NoObj

CreateProcess(p) ==
    /\ InUserMode(p)
    /\ \/ /\ Full(p)
          /\ Panic("out of handles")
       \/ \E h \in Handles, c \in Proc \ Live :
            /\ c # Root
            /\ FreeSlot(p, h)
            /\ state' = [state EXCEPT ![c] = "created"]
            /\ older' = [older EXCEPT ![c] = Live]
            /\ objects' = [objects EXCEPT ![p][h] = c, ![c] = NoObjects]
            /\ context' = [context EXCEPT ![c] = "zero"]
            /\ starter' = [starter EXCEPT ![c] = NoProc]
            /\ UNCHANGED <<current, cr3, rsp0, phase, panic>>

CreateDevice(p, d) ==
    /\ InUserMode(p)
    /\ \/ /\ Full(p)
          /\ Panic("out of handles")
       \/ \E h \in Handles :
            /\ FreeSlot(p, h)
            /\ objects' = [objects EXCEPT ![p][h] = d]
            /\ UNCHANGED <<state, older, context, starter, current, cr3, rsp0, phase, panic>>

\* ~user_process: resetting objects_ destroys the processes among them, and
\* so on.  The processes destroyed with c: the least set with c in it that
\* holds the objects of its members.
Closed(S) == \A x \in S, h \in Handles : objects[x][h] \in Proc => objects[x][h] \in S

\* Mutant: ~user_process does not reset objects_.
DestroyedAlone(c) == {c}

DestroyedWith(c) ==
    {x \in Live : \A S \in SUBSET Live : c \in S /\ Closed(S) => x \in S}

\* The REQUIREs of ~user_process.
MayDestroy(x) == state[x] \in {"created", "exited"} /\ current # x

\* The destructors of D run: each leaves the list and frees its tables.
Destroy(D) ==
    /\ state' = [x \in Proc |-> IF x \in D THEN "none" ELSE state[x]]
    /\ older' = [x \in Proc |-> IF x \in D THEN {} ELSE older[x] \ D]
    /\ context' = [x \in Proc |-> IF x \in D THEN "zero" ELSE context[x]]
    /\ starter' = [x \in Proc |-> IF x \in D THEN NoProc ELSE starter[x]]

\* object_close(h)
Close(p, h) ==
    /\ InUserMode(p)
    /\ \/ /\ ~HandleValid(p, h)
          /\ Panic("bad handle")
       \/ /\ HandleValid(p, h) /\ objects[p][h] \in Devices
          /\ objects' = [objects EXCEPT ![p][h] = NoObj]
          /\ UNCHANGED <<state, older, context, starter, current, cr3, rsp0, phase, panic>>
       \/ /\ HandleValid(p, h) /\ objects[p][h] \in Proc
          /\ LET D == DestroyedWith(objects[p][h]) IN
             IF \E x \in D : ~MayDestroy(x) THEN Panic("destroyed while in use") ELSE
             /\ Destroy(D)
             /\ objects' = [x \in Proc |->
                              IF x \in D THEN NoObjects
                              ELSE IF x = p THEN [objects[p] EXCEPT ![h] = NoObj]
                              ELSE objects[x]]
             /\ UNCHANGED <<current, cr3, rsp0, phase, panic>>

\* Mutant: start_exe does not save the caller's context.
UnsavedContexts(p, c) == [context EXCEPT ![c] = "used"]

\* start_exe saves the registers of p in its context_ and loads those of c.
SwitchContexts(p, c) == [context EXCEPT ![p] = "saved", ![c] = "used"]

\* start_exe: map the image into process c, save the caller's context, and
\* switch to c.  The REQUIREs of alloc_and_copy_section reject a process
\* that was started before.
StartExe(p, h) ==
    /\ InUserMode(p)
    /\ \/ /\ ~HandleValid(p, h)
          /\ Panic("bad handle")
       \/ /\ HandleValid(p, h) /\ objects[p][h] \notin Proc
          /\ Panic("protocol")
       \/ /\ HandleValid(p, h) /\ objects[p][h] \in Proc
          /\ LET c == objects[p][h] IN
             IF state[c] # "created" THEN Panic("already started") ELSE
             /\ state' = [state EXCEPT ![c] = "running"]
             /\ context' = SwitchContexts(p, c)
             /\ starter' = [starter EXCEPT ![c] = p]
             /\ current' = c
             /\ cr3' = c
             /\ UNCHANGED <<older, objects, rsp0, phase, panic>>

ProcessExitCode(p, h) ==
    /\ InUserMode(p)
    /\ \/ ~HandleValid(p, h) /\ Panic("bad handle")
       \/ HandleValid(p, h) /\ objects[p][h] \notin Proc /\ Panic("protocol")
       \/ /\ HandleValid(p, h) /\ objects[p][h] \in Proc
          /\ state[objects[p][h]] # "exited"
          /\ Panic("not exited")

\* The protocols do_get_protocol finds in an object.
Protocols(o) ==
    CASE o = "ethdev" -> {"read", "write"}
      [] o = "keyboard" -> {"read"}
      [] o = "hack-acpi-dsdt" -> {"hack_mem_map"}
      [] OTHER -> {"process"}

\* read, write and mem_map_info: only the failures change this state.
\* ethdev_hw_address casts without a check.
UseObject(p, h, proto) ==
    /\ InUserMode(p)
    /\ \/ ~HandleValid(p, h) /\ Panic("bad handle")
       \/ /\ HandleValid(p, h) /\ proto \notin Protocols(objects[p][h])
          /\ proto # "hw_address"
          /\ Panic("protocol")
       \/ /\ HandleValid(p, h) /\ objects[p][h] # "ethdev"
          /\ proto = "hw_address"
          /\ Panic("undefined cast")

\* The requests refused whatever the state: an unknown system call or device
\* name, a device the machine does not have, an image that cannot be mapped
\* or for which there is no memory.
BadRequest(p) == InUserMode(p) /\ Panic("bad request")

\* Mutant: exit takes the last running process of the list.
LastRunning(R, q) == q \in R /\ \A r \in R : r = q \/ q \in older[r]

\* The process exit resumes: the first running one in the list.
FirstRunning(R, q) == q \in R /\ \A r \in R : r = q \/ r \in older[q]

\* next->switch_to(regs)
ResumeProcess(q) ==
    /\ current' = q
    /\ cr3' = q
    /\ context' = [context EXCEPT ![q] = "used"]
    /\ UNCHANGED <<rsp0, phase>>

\* Mutant: the exited process's page tables stay loaded.
ResumeKernelOnUserTables ==
    /\ current' = NoProc
    /\ rsp0' = FALSE
    /\ phase' = "back"
    /\ UNCHANGED <<context, cr3>>

\* kmemory_manager().switch_to(); restore_original_context()
ResumeKernel ==
    /\ current' = NoProc
    /\ cr3' = Kernel
    /\ rsp0' = FALSE
    /\ phase' = "back"
    /\ UNCHANGED context

Exit(p) ==
    /\ InUserMode(p)
    /\ LET R == Running \ {p} IN
       \/ /\ state[p] # "running"
          /\ Panic("bad switch")
       \/ /\ state[p] = "running" /\ R = {} /\ ~rsp0
          /\ Panic("rsp0")
       \/ /\ state[p] = "running"
          /\ state' = [state EXCEPT ![p] = "exited"]
          /\ \/ \E q \in R : FirstRunning(R, q) /\ ResumeProcess(q)
             \/ R = {} /\ rsp0 /\ ResumeKernel
          /\ UNCHANGED <<older, objects, starter, panic>>

\* The rest of usermode_test: the exit code is read and Root goes out of
\* scope.
LeaveUserMode ==
    /\ phase = "back" /\ panic = "no"
    /\ LET D == DestroyedWith(Root) IN
       IF state[Root] # "exited" THEN Panic("exit code")
       ELSE IF \E x \in D : ~MayDestroy(x) THEN Panic("destroyed while in use") ELSE
       /\ Destroy(D)
       /\ objects' = [x \in Proc |-> IF x \in D THEN NoObjects ELSE objects[x]]
       /\ phase' = "done"
       /\ UNCHANGED <<current, cr3, rsp0, panic>>

\* Handles a program may pass: the valid range and its neighbours.
AnyHandle == 0 .. MaxObjects + 1

Syscall(p) ==
    \/ CreateProcess(p)
    \/ \E d \in Devices : CreateDevice(p, d)
    \/ \E h \in AnyHandle :
        \/ Close(p, h)
        \/ StartExe(p, h)
        \/ ProcessExitCode(p, h)
        \/ \E proto \in {"read", "write", "hack_mem_map", "hw_address"} : UseObject(p, h, proto)
    \/ BadRequest(p)
    \/ Exit(p)

Next == EnterUserMode \/ (\E p \in Proc : Syscall(p)) \/ LeaveUserMode

Spec == Init /\ [][Next]_vars

-------------------------------------------------------------------------------
(* Properties.                                                             *)

\* The shape of the state (user_process's members and statics).
TypeOK ==
    /\ state \in [Proc -> {"none", "created", "running", "exited"}]
    /\ older \in [Proc -> SUBSET Proc]
    /\ objects \in [Proc -> [Handles -> Proc \cup Devices \cup {NoObj}]]
    /\ context \in [Proc -> {"zero", "saved", "used"}]
    /\ starter \in [Proc -> Proc \cup {NoProc}]
    /\ current \in Proc \cup {NoProc}
    /\ cr3 \in Proc \cup {Kernel}
    /\ rsp0 \in BOOLEAN
    /\ phase \in {"start", "user", "back", "done"}
    /\ panic \in {"no"} \cup UserFaults \cup KernelFaults

\* No sequence of system calls makes a REQUIRE fail that guards the
\* kernel's own state: no process is destroyed while it runs or waits for
\* one it started, directly or with the process that owns it
\* (~user_process), and switches always find a running process.
NoKernelFault == panic \notin KernelFaults

\* Every process object but Root is in exactly one slot of one live
\* process, and no slot refers to a destroyed one (kowned_ptr objects_).
OwnedOnce ==
    /\ \A p \in Proc, h \in Handles : objects[p][h] \in Proc =>
         /\ state[p] # "none" /\ state[objects[p][h]] # "none"
         /\ objects[p][h] # Root
    /\ \A p, q \in Proc, h, i \in Handles :
         objects[p][h] \in Proc /\ objects[p][h] = objects[q][i] => p = q /\ h = i
    /\ \A c \in Live \ {Root} : \E p \in Proc, h \in Handles : objects[p][h] = c

\* The processor never runs on the page tables of a process other than the
\* current one, and so never on those of a destroyed one (mm_->switch_to
\* in set_as_current, kmemory_manager().switch_to in exit).
AddressSpace ==
    /\ current # NoProc => cr3 = current /\ state[current] = "running"
    /\ current = NoProc => cr3 = Kernel

\* A process that waits has the context its start_exe saved, so that the
\* exit that resumes it returns from that call and from no earlier one.
WaitersSaved == \A p \in Running : p # current => context[p] = "saved"

\* Leaving usermode_test destroys every process there is: none leaks with
\* its memory manager and pages, whatever was left open.
NothingLeaks == phase = "done" => Live = {}

\* When a process exits, the process that started it goes on, although the
\* code picks the first running one of a global list and keeps no link to
\* the starter; when Root exits, the kernel goes on.
ResumesStarter ==
    [][\A p \in Proc : state[p] = "running" /\ state'[p] = "exited"
                          => current' = starter[p]]_vars

-------------------------------------------------------------------------------
(* The inductive invariant of the proofs.                                  *)

\* older is a strict order on the live processes.
ListOrder ==
    /\ \A p \in Proc : older[p] \subseteq Live /\ p \notin older[p]
    /\ \A p \in Proc : state[p] = "none" => older[p] = {}
    /\ \A p \in Proc : \A q \in older[p] : older[q] \subseteq older[p]
    /\ older[Root] = {}

\* The owner of a process was created before it.
OwnersOlder ==
    \A p \in Proc, h \in Handles : objects[p][h] \in Proc => p \in older[objects[p][h]]

\* The running processes are a chain: the current one is the newest, and
\* next before each one comes its starter.
Chain ==
    /\ current # NoProc => Running \subseteq {current} \cup older[current]
    /\ current = NoProc => Running = {}
    /\ starter[Root] = NoProc
    /\ \A p \in Running \ {Root} :
         /\ starter[p] \in Running
         /\ starter[p] \in older[p]
         /\ \A q \in Running : q \in older[p] => q = starter[p] \/ q \in older[starter[p]]

Phases ==
    /\ phase = "start" => Live = {}
    /\ rsp0 <=> phase = "user"
    /\ phase = "user" <=> current # NoProc
    /\ phase = "user" => state[Root] = "running"
    /\ phase = "back" => state[Root] = "exited"

IInv ==
    /\ TypeOK /\ NoKernelFault /\ OwnedOnce /\ AddressSpace /\ WaitersSaved
    /\ NothingLeaks /\ ListOrder /\ OwnersOlder /\ Chain /\ Phases

\* Address space and saved registers belong to the right process after every
\* sequence of system calls: CR3 to the current process, a context of the
\* latest start_exe to each one that waits (switch_to, switch_to_context).
ContextsSound == TypeOK /\ AddressSpace /\ WaitersSaved
===============================================================================
