--------------------------------- MODULE Kernel ---------------------------------
(***************************************************************************)
(* The kernel from stage3_entry to its return (kernel/kernel.cpp), with    *)
(* the interrupts that come meanwhile (kernel/isr.cpp): descriptor tables, *)
(* memory area, interrupt controller, handlers of the timer, the keyboard  *)
(* and the network card, PCI and ACPI enumeration, user mode, and the      *)
(* destructors in reverse order.                                           *)
(*                                                                         *)
(* The processor is either in the main thread (pc) or in an interrupt      *)
(* (isr); interrupt gates clear IF, so interrupts do not nest.  What the   *)
(* parts do while they run is in modules of their own (MemoryManager, Ps2, *)
(* I825x, Net, UserProcess).                                               *)
(***************************************************************************)
EXTENDS PciBus, Acpi, Unwind, FiniteSets

CONSTANTS
    Machines,       \* what the firmware may leave: memory map, buses, tables
    Chains,         \* chains of calls in which the machine may stop
    Slots, Funcs,   \* slots of a bus and functions of a slot
    MB,             \* units of memory that make a megabyte
    IdentityMap,    \* identity_map_length
    CardBytes,      \* io_mem_size, in the units of base address registers
    MaxTicks, MaxKeys, MaxEvents,   \* interrupt causes of each device
    None

Irqs == 0 .. 15

ASSUME KernelAssumption ==
    /\ {Slots, Funcs, MB} \subseteq Nat
    /\ MaxTicks \in Nat /\ MaxKeys \in Nat /\ MaxEvents \in Nat
    /\ IdentityMap \in Nat /\ IdentityMap > 4 * MB

ASSUME NoneAssumption == None \notin Nat /\ None \notin {"timer", "kbd", "nic"}

\* The controllers' masks have a bit for each line, the card a line or none.
ASSUME MachinesAssumption ==
    \A m \in Machines : m.mask \subseteq Irqs /\ m.line \in Nat \cup {None} /\ m.ims \in BOOLEAN

VARIABLES
    machine,    \* the firmware's part
    pc,         \* where stage3_entry is
    isr, step,  \* interrupt being served, and how far: "handler" or "eoi"
    cpu,        \* gdt, idt, cr3, nxe, sce, rflag_if
    pic,        \* offset, mask, latched edges, lines in service
    saved,      \* what constructors keep: mask; and the flags of switch_to
    irq_handlers,
    pci,        \* addresses to probe, devices_, the registers themselves
    acpi,       \* mapping, tables to read and read, return, hack_dsdt_phys
    nic,        \* the card and its driver
    kbd,        \* full: a byte waits; buffer: bytes taken; stale: see isr_init
    causes,     \* ticks, keys, events so far
    glitch,     \* a request was withdrawn when the processor had seen it
    stop,       \* why the machine stopped, or "no"
    trace       \* the chain of calls and what print_stack made of it

devs == <<nic, kbd>>
stays == <<machine, isr, step, causes, trace>>
vars == <<machine, pc, isr, step, cpu, pic, saved, irq_handlers, pci, acpi, nic, kbd, causes,
          glitch, stop, trace>>

Cascade == 2
TimerIrq == 0
KbdIrq == 1

Init ==
    /\ machine \in Machines
    /\ pc = "cpu" /\ isr = None /\ step = "handler"
    /\ cpu = [gdt |-> "old", idt |-> "old", cr3 |-> "old", nxe |-> FALSE, sce |-> FALSE, rflag_if |-> FALSE]
    /\ pic = [offset |-> "bios", mask |-> machine.mask, latched |-> {}, service |-> {}]
    /\ saved = [mask |-> {}, flags |-> FALSE]
    /\ irq_handlers = [irq \in Irqs |-> None]
    /\ pci = [todo |-> <<>>, devices |-> <<>>,
              config |-> [a \in DOMAIN machine.functions |-> machine.functions[a].regs]]
    /\ acpi = [window |-> None, rest |-> <<>>, got |-> <<>>, back |-> "rsdt", dsdt |-> None]
    /\ nic = [line |-> machine.line, icr |-> FALSE, ims |-> machine.ims, device |-> None,
              mapped |-> FALSE, master |-> FALSE, published |-> FALSE]
    /\ kbd = [full |-> FALSE, buffer |-> 0, stale |-> FALSE]
    /\ causes = [ticks |-> 0, keys |-> 0, events |-> 0]
    /\ glitch = FALSE /\ stop = "no" /\ trace = None

-------------------------------------------------------------------------------
(* A failure: fatal_error (REQUIRE) and unhandled_interrupt disable        *)
(* interrupts, print the stack and halt.                                   *)

Fail(why) == stop' = why /\ pc' = "report"
Goto(p) == pc' = p /\ stop' = stop
Require(ok, why, next) == IF ok THEN Goto(next) ELSE Fail(why)

At(p) == pc = p /\ isr = None /\ stop = "no"

\* The debug information lives as long as the controllers are the kernel's;
\* at other times it is read through a null pointer, and nothing is known of
\* the trace.
Report ==
    /\ pc = "report"
    /\ pc' = "halted"
    /\ cpu' = [cpu EXCEPT !.rflag_if = FALSE]
    /\ \E c \in Chains :
         trace' = IF pic.offset # "kernel" THEN None
                  ELSE [chain |-> c,
                        lines |-> print_stack(StackOf(c.calls), [rsp |-> 1, rip |-> c.calls[1]], c.skip)]
    /\ UNCHANGED <<machine, isr, step, pic, saved, irq_handlers, pci, acpi, devs, causes, glitch, stop>>

-------------------------------------------------------------------------------
(* The interrupt controllers (a pair of 8259), and isr.cpp.                *)

\* Priorities: 0, 1, the second controller's lines, then 3 to 7.
Rank(irq) == IF irq < 2 THEN irq ELSE IF irq >= 8 THEN irq - 6 ELSE irq + 7

Level == IF nic.line \in Irqs /\ nic.icr /\ nic.ims THEN {nic.line} ELSE {}
Requests == pic.latched \cup Level

\* The second controller's requests come through the cascade line.
Passes(irq) == irq \in Requests \ pic.mask /\ (irq >= 8 => Cascade \notin pic.mask)

Open(irq) == \A s \in pic.service : Rank(s) > Rank(irq) /\ ~(s = Cascade /\ irq >= 8)

Pending(irq) ==
    /\ Passes(irq) /\ Open(irq)
    /\ \A other \in Irqs : Passes(other) => Rank(irq) <= Rank(other)

\* A controller forgets its edges when it is initialised.
pic_remap(p, offset) == [p EXCEPT !.offset = offset, !.mask = Irqs, !.latched = {}, !.service = {}]

Top(bits) == CHOOSE s \in bits : \A t \in bits : Rank(s) <= Rank(t)
EoiTo(bits) == IF bits = {} THEN {} ELSE bits \ {Top(bits)}

\* Mutants: the second controller is left out; the first one is.
EoiFirst(service, irq) == {s \in service : s >= 8} \cup EoiTo({s \in service : s < 8})
EoiSecond(service, irq) == EoiTo({s \in service : s >= 8}) \cup {s \in service : s < 8}

pic_send_eoi(service, irq) ==
    (IF irq >= 8 THEN EoiTo({s \in service : s >= 8}) ELSE {s \in service : s >= 8})
      \cup EoiTo({s \in service : s < 8})

\* Delivery through the table that is loaded; before the kernel's own the
\* vectors mean something else.
Deliver(irq) ==
    /\ cpu.rflag_if /\ isr = None /\ stop = "no" /\ Pending(irq)
    /\ pic' = [pic EXCEPT !.latched = @ \ {irq}, !.service = @ \cup {irq} \cup (IF irq >= 8 THEN {Cascade} ELSE {})]
    /\ cpu' = [cpu EXCEPT !.rflag_if = FALSE]
    /\ IF cpu.idt = "kernel" /\ pic.offset = "kernel"
       THEN isr' = irq /\ step' = "handler" /\ UNCHANGED <<pc, stop>>
       ELSE Fail("wrong vector") /\ UNCHANGED <<isr, step>>
    /\ UNCHANGED <<machine, saved, irq_handlers, pci, acpi, devs, causes, glitch, trace>>

\* The processor answers a request that has gone: the controller gives its
\* lowest line, for which nobody is registered.
Spurious ==
    /\ glitch /\ cpu.rflag_if /\ isr = None /\ stop = "no"
    /\ glitch' = FALSE
    /\ Fail("spurious interrupt")
    /\ UNCHANGED <<stays, cpu, pic, saved, irq_handlers, pci, acpi, devs>>

\* Mutant: the cause is left in the card.
CardAckNot == nic

\* i825x_ethernet_device::isr
CardAck == [nic EXCEPT !.icr = FALSE]

\* Mutants: the byte is left in the controller; it is taken and left there.
KeyByteNot == kbd
KeyByteKept == [kbd EXCEPT !.buffer = @ + 1]

\* controller_impl::isr: the byte is read, and a next one may come.
KeyByte == [kbd EXCEPT !.full = FALSE, !.stale = FALSE, !.buffer = @ + 1]

\* interrupt_service_routine, on_irq: the handler ...
Handle ==
    /\ isr # None /\ step = "handler" /\ stop = "no"
    /\ CASE irq_handlers[isr] = "timer" -> step' = "eoi" /\ UNCHANGED <<pc, stop, devs>>
         [] irq_handlers[isr] = "kbd" /\ kbd.full ->
              kbd' = KeyByte /\ step' = "eoi" /\ UNCHANGED <<pc, stop, nic>>
         [] irq_handlers[isr] = "nic" /\ nic.mapped ->
              nic' = CardAck /\ step' = "eoi" /\ UNCHANGED <<pc, stop, kbd>>
         [] OTHER ->
              /\ Fail(CASE irq_handlers[isr] = "kbd" -> "no byte"
                        [] irq_handlers[isr] = "nic" -> "page fault in handler"
                        [] OTHER -> "unhandled interrupt")
              /\ UNCHANGED <<devs, step>>
    /\ UNCHANGED <<machine, isr, cpu, pic, saved, irq_handlers, pci, acpi, causes, glitch, trace>>

\* ... then the end of interrupt and the return.
EndOfInterrupt ==
    /\ isr # None /\ step = "eoi" /\ stop = "no"
    /\ pic' = [pic EXCEPT !.service = pic_send_eoi(@, isr)]
    /\ isr' = None
    /\ cpu' = [cpu EXCEPT !.rflag_if = TRUE]
    /\ UNCHANGED <<machine, pc, step, saved, irq_handlers, pci, acpi, devs, causes, glitch, stop, trace>>

\* What the devices do on their own.
Tick ==
    /\ causes.ticks < MaxTicks
    /\ causes' = [causes EXCEPT !.ticks = @ + 1]
    /\ pic' = [pic EXCEPT !.latched = @ \cup {TimerIrq}]
    /\ UNCHANGED devs

Key ==
    /\ causes.keys < MaxKeys /\ ~kbd.full
    /\ causes' = [causes EXCEPT !.keys = @ + 1]
    /\ kbd' = [kbd EXCEPT !.full = TRUE]
    /\ pic' = [pic EXCEPT !.latched = @ \cup {KbdIrq}]
    /\ UNCHANGED nic

CardEvent ==
    /\ causes.events < MaxEvents /\ nic.line # None
    /\ causes' = [causes EXCEPT !.events = @ + 1]
    /\ nic' = [nic EXCEPT !.icr = TRUE]
    /\ UNCHANGED <<pic, kbd>>

Devices ==
    /\ stop = "no" /\ pc # "done"
    /\ Tick \/ Key \/ CardEvent
    /\ UNCHANGED <<machine, pc, isr, step, cpu, saved, irq_handlers, pci, acpi, glitch, stop, trace>>

-------------------------------------------------------------------------------
(* register_irq_handler and ~isr_registration_impl; an index beyond the    *)
(* table is undefined, and the unmasking that follows stops the machine.   *)

SetHandler(at, irq, who, next) ==
    /\ At(at)
    /\ Require(irq \in Irqs /\ irq_handlers[irq] = None, "line taken", next)
    /\ irq_handlers' = [i \in Irqs |-> IF i = irq THEN who ELSE irq_handlers[i]]
    /\ UNCHANGED <<stays, cpu, pic, saved, pci, acpi, devs, glitch>>

pic_unmask_irq(at, irq, next) ==
    /\ At(at)
    /\ Require(irq # Cascade /\ irq \in pic.mask, "line taken", next)
    /\ pic' = [pic EXCEPT !.mask = @ \ {irq}]
    /\ UNCHANGED <<stays, cpu, saved, irq_handlers, pci, acpi, devs, glitch>>

\* A request may go just when the processor has seen it.
MayWithdraw(irq) == glitch' \in IF Passes(irq) /\ cpu.rflag_if THEN BOOLEAN ELSE {glitch}

pic_mask_irq(at, irq, next) ==
    /\ At(at)
    /\ Require(irq \notin pic.mask, "masked twice", next)
    /\ pic' = [pic EXCEPT !.mask = @ \cup {irq}]
    /\ MayWithdraw(irq)
    /\ UNCHANGED <<stays, cpu, saved, irq_handlers, pci, acpi, devs>>

ClearHandler(at, irq, next) ==
    /\ At(at)
    /\ Require(irq_handlers[irq] # None, "not registered", next)
    /\ irq_handlers' = [irq_handlers EXCEPT ![irq] = None]
    /\ UNCHANGED <<stays, cpu, pic, saved, pci, acpi, devs, glitch>>

\* Mutant: the line is open before its handler is there.
RegisterUnmasked(at, between, irq, who, next) ==
    pic_unmask_irq(at, irq, between) \/ SetHandler(between, irq, who, next)

register_irq_handler(at, between, irq, who, next) ==
    SetHandler(at, irq, who, between) \/ pic_unmask_irq(between, irq, next)
Release(at, between, irq, next) ==
    pic_mask_irq(at, irq, between) \/ ClearHandler(between, irq, next)

-------------------------------------------------------------------------------
(* stage3_entry, up to the timer and the keyboard                          *)

\* cpu_manager_impl
cpu_init ==
    /\ At("cpu") /\ Goto("mm")
    /\ cpu' = [cpu EXCEPT !.gdt = "kernel", !.nxe = TRUE]
    /\ UNCHANGED <<stays, pic, saved, irq_handlers, pci, acpi, devs, glitch>>

\* An entry of the memory map that construct_mm selects (max_base is four
\* bytes, not four megabytes, below the end: a fraction of a unit).
Suitable(e) ==
    /\ e.type = "available" /\ e.base >= MB /\ e.length >= 4 * MB
    /\ e.base < IdentityMap

construct_mm ==
    /\ At("mm")
    /\ Require(\E i \in DOMAIN machine.memory : Suitable(machine.memory[i]), "no memory", "isr")
    /\ cpu' = [cpu EXCEPT !.cr3 = "kernel"]
    /\ UNCHANGED <<stays, pic, saved, irq_handlers, pci, acpi, devs, glitch>>

\* pic_state, then isr_handler_impl.  A byte that waits in the keyboard
\* controller has had its edge: it is stale, and stays until it is read.
isr_init ==
    /\ At("isr") /\ Goto("timer")
    /\ saved' = [saved EXCEPT !.mask = pic.mask]
    /\ pic' = [pic_remap(pic, "kernel") EXCEPT !.mask = Irqs \ {Cascade}]
    /\ cpu' = [cpu EXCEPT !.idt = "kernel", !.rflag_if = TRUE]
    /\ kbd' = [kbd EXCEPT !.stale = kbd.full]
    /\ UNCHANGED <<stays, irq_handlers, pci, acpi, nic, glitch>>

-------------------------------------------------------------------------------
(* pci::manager_impl: probe_bus and probe, whose calls still to make are a *)
(* sequence.  An address is <<bus, slot, func>>.                           *)

AllSlots(bus) == [i \in 1 .. Slots |-> <<bus, i - 1, 0>>]
OtherFuncs(a) == [i \in 1 .. Funcs - 1 |-> <<a[1], a[2], i>>]

pci_init ==
    /\ At("pci") /\ Goto("probe")
    /\ pci' = [pci EXCEPT !.todo = AllSlots(0)]
    /\ UNCHANGED <<stays, cpu, pic, saved, irq_handlers, acpi, devs, glitch>>

More(a, f) == IF a[3] = 0 /\ f.multi THEN OtherFuncs(a) ELSE <<>>

probe ==
    /\ At("probe") /\ pci.todo # <<>>
    /\ LET a == Head(pci.todo)
           f == machine.functions[a]
           bars == read_bars(pci.config[a])
           rest == Tail(pci.todo)
       IN IF a \notin DOMAIN machine.functions   \* the vendor reads as all ones
          THEN Goto("probe") /\ pci' = [pci EXCEPT !.todo = rest]
          ELSE \/ /\ f.header = 0
                  /\ Require(bars.ok, "bad register", "probe")
                  /\ pci' = [todo |-> More(a, f) \o rest,
                             devices |-> Append(pci.devices, [address |-> a, id |-> f.id, line |-> f.line,
                                                              bars |-> bars.res]),
                             config |-> [pci.config EXCEPT ![a] = bars.regs]]
               \/ /\ f.header = 1
                  /\ Require(a[1] = f.primary, "bad bridge", "probe")
                  /\ pci' = [pci EXCEPT !.todo = AllSlots(f.secondary) \o More(a, f) \o rest]
               \/ /\ f.header = 2
                  /\ Fail("bad bridge") /\ UNCHANGED pci
    /\ UNCHANGED <<stays, cpu, pic, saved, irq_handlers, acpi, devs, glitch>>

pci_done ==
    /\ At("probe") /\ pci.todo = <<>> /\ Goto("acpi")
    /\ UNCHANGED <<stays, cpu, pic, saved, irq_handlers, pci, acpi, devs, glitch>>

-------------------------------------------------------------------------------
(* acpi_test                                                               *)

Pointer(m) ==
    LET e == find_rsdp(m.ebda)
        b == find_rsdp(m.bios)
    IN IF e # 0 THEN m.ebda[e] ELSE IF b # 0 THEN m.bios[b] ELSE None

acpi_test ==
    /\ At("acpi")
    /\ Require(Pointer(machine) # None, "bad table", "map")
    /\ acpi' = [acpi EXCEPT !.rest = IF Pointer(machine) = None THEN @ ELSE <<Pointer(machine).rsdt>>,
                            !.back = "rsdt"]
    /\ UNCHANGED <<stays, cpu, pic, saved, irq_handlers, pci, devs, glitch>>

\* get_description: a page is mapped, the window made larger if the table
\* says so, the table summed and copied, and the window goes.
Table == machine.tables[Head(acpi.rest)]

get_description ==
    /\ At("map") /\ Goto("grow")
    /\ acpi' = [acpi EXCEPT !.window = FirstWindow(Head(acpi.rest))]
    /\ UNCHANGED <<stays, cpu, pic, saved, irq_handlers, pci, devs, glitch>>

Enlarge ==
    /\ At("grow")
    /\ LET phys == Head(acpi.rest)
       IN /\ IF Shows(acpi.window, phys, Header)
             THEN Require(Table.length >= Header, "bad table", "copy")
             ELSE Fail("page fault in table")
          /\ acpi' = [acpi EXCEPT !.window = IF TooSmall(@, Table.length) THEN Window(phys, Table.length) ELSE @]
    /\ UNCHANGED <<stays, cpu, pic, saved, irq_handlers, pci, devs, glitch>>

CopyTable ==
    /\ At("copy")
    /\ IF Shows(acpi.window, Head(acpi.rest), Table.length)
       THEN Require(Table.sum, "bad table", acpi.back)
       ELSE Fail("page fault in table")
    /\ acpi' = [acpi EXCEPT !.window = None, !.rest = Tail(@), !.got = Append(@, Table)]
    /\ UNCHANGED <<stays, cpu, pic, saved, irq_handlers, pci, devs, glitch>>

RootTable ==
    /\ At("rsdt")
    /\ Require(acpi.got[1].revision = 1, "bad table", "entries")
    /\ acpi' = [acpi EXCEPT !.rest = EntriesOf(acpi.got[1]), !.got = <<>>, !.back = "entries"]
    /\ UNCHANGED <<stays, cpu, pic, saved, irq_handlers, pci, devs, glitch>>

NextEntry ==
    /\ At("entries") /\ Goto(IF acpi.rest = <<>> THEN "tables" ELSE "map")
    /\ UNCHANGED <<stays, cpu, pic, saved, irq_handlers, pci, acpi, devs, glitch>>

\* handle(madt), handle(facp): the second reads another table.
HandleTable ==
    /\ At("tables") /\ acpi.got # <<>>
    /\ LET t == Head(acpi.got)
       IN CASE match_structure(t, "APIC") ->
                 Require(MadtOk(t), "bad table", "tables") /\ acpi' = [acpi EXCEPT !.got = Tail(@)]
            [] match_structure(t, "FACP") ->
                 /\ Require(FadtOk(t), "bad table", "map")
                 /\ acpi' = [acpi EXCEPT !.rest = <<t.dsdt>>, !.back = "dsdt"]
            [] OTHER -> Goto("tables") /\ acpi' = [acpi EXCEPT !.got = Tail(@)]
    /\ UNCHANGED <<stays, cpu, pic, saved, irq_handlers, pci, devs, glitch>>

\* Mutant: the length is that of the table that names it.
KeepDsdtOther ==
    /\ At("dsdt") /\ Goto("tables")
    /\ acpi' = [acpi EXCEPT !.dsdt = [phys |-> Head(acpi.got).dsdt, length |-> Head(acpi.got).length],
                            !.got = Front(Tail(@))]
    /\ UNCHANGED <<stays, cpu, pic, saved, irq_handlers, pci, devs, glitch>>

KeepDsdt ==
    /\ At("dsdt") /\ Goto("tables")
    /\ acpi' = [acpi EXCEPT !.dsdt = [phys |-> Head(acpi.got).dsdt, length |-> Last(acpi.got).length],
                            !.got = Front(Tail(@))]
    /\ UNCHANGED <<stays, cpu, pic, saved, irq_handlers, pci, devs, glitch>>

acpi_done ==
    /\ At("tables") /\ acpi.got = <<>> /\ Goto("card")
    /\ UNCHANGED <<stays, cpu, pic, saved, irq_handlers, pci, acpi, devs, glitch>>

-------------------------------------------------------------------------------
(* i825x::probe and the driver's construction                              *)

HasCard == \E i \in DOMAIN pci.devices : pci.devices[i].id = "i825x"
Card == SelectInSeq(pci.devices, LAMBDA d : d.id = "i825x")

\* Without any register the first one reads as zero.
FirstBar(d) == IF d.bars = <<>> THEN [address |-> 0, size |-> 0] ELSE d.bars[1]

i825x_ethernet_device ==
    /\ At("card") /\ HasCard
    /\ LET bar == FirstBar(pci.devices[Card])
       IN Require(~bar_is_io(bar.address) /\ bar.size = CardBytes, "bad register", "card irq")
    /\ nic' = [nic EXCEPT !.device = Card, !.mapped = TRUE]
    /\ UNCHANGED <<stays, cpu, pic, saved, irq_handlers, pci, acpi, kbd, glitch>>

NoCard ==
    /\ At("card") /\ ~HasCard /\ Goto("user")
    /\ UNCHANGED <<stays, cpu, pic, saved, irq_handlers, pci, acpi, devs, glitch>>

Line == pci.devices[nic.device].line

\* reset: causes of before are inhibited and cleared, then the mask is set.
reset ==
    /\ At("reset") /\ Goto("publish")
    /\ nic' = [nic EXCEPT !.icr = FALSE, !.ims = TRUE]
    /\ MayWithdraw(Line)
    /\ UNCHANGED <<stays, cpu, pic, saved, irq_handlers, pci, acpi, kbd>>

\* bus_master(true), ko_ethdev::set_dev
Publish ==
    /\ At("publish") /\ Goto("net")
    /\ nic' = [nic EXCEPT !.master = TRUE, !.published = TRUE]
    /\ UNCHANGED <<stays, cpu, pic, saved, irq_handlers, pci, acpi, kbd, glitch>>

\* do_dhcp and the transfer (Net, Tftp), which may read keys
Network ==
    /\ At("net") /\ Goto("user")
    /\ \E k \in 0 .. kbd.buffer : kbd' = [kbd EXCEPT !.buffer = @ - k]
    /\ UNCHANGED <<stays, cpu, pic, saved, irq_handlers, pci, acpi, nic, glitch>>

-------------------------------------------------------------------------------
(* usermode_test: user code runs with interrupts off, system calls and     *)
(* their threads run with interrupts on (UserProcess).                     *)

syscall_enabler ==
    /\ At("user")
    /\ Require(~cpu.sce, "enabled twice", "switch")
    /\ cpu' = [cpu EXCEPT !.sce = TRUE]
    /\ UNCHANGED <<stays, pic, saved, irq_handlers, pci, acpi, devs, glitch>>

switch_to ==
    /\ At("switch") /\ Goto("in user")
    /\ saved' = [saved EXCEPT !.flags = cpu.rflag_if]
    /\ cpu' = [cpu EXCEPT !.rflag_if = FALSE]
    /\ UNCHANGED <<stays, pic, irq_handlers, pci, acpi, devs, glitch>>

syscall ==
    /\ At("in user") /\ Goto("in kernel")
    /\ cpu' = [cpu EXCEPT !.rflag_if = TRUE]
    /\ UNCHANGED <<stays, pic, saved, irq_handlers, pci, acpi, devs, glitch>>

\* The call ends; a ps2 call has taken a key.
sysret ==
    /\ At("in kernel") /\ Goto("in user")
    /\ cpu' = [cpu EXCEPT !.rflag_if = FALSE]
    /\ \E k \in 0 .. 1 : k <= kbd.buffer /\ kbd' = [kbd EXCEPT !.buffer = @ - k]
    /\ UNCHANGED <<stays, pic, saved, irq_handlers, pci, acpi, nic, glitch>>

user_fault ==
    /\ At("in user") /\ Fail("user fault")
    /\ UNCHANGED <<stays, cpu, pic, saved, irq_handlers, pci, acpi, devs, glitch>>

\* The last exit returns behind switch_to, with the flags of then.
restore_original_context ==
    /\ At("in kernel") /\ pc' \in {"leave", "key"} /\ UNCHANGED stop
    /\ cpu' = [cpu EXCEPT !.rflag_if = saved.flags]
    /\ UNCHANGED <<stays, pic, saved, irq_handlers, pci, acpi, devs, glitch>>

\* An exit code is left on the screen until a key comes.
read_key ==
    /\ At("key")
    /\ IF cpu.rflag_if THEN kbd.buffer > 0 /\ Goto("leave") ELSE Fail("interrupts off")
    /\ kbd' = [kbd EXCEPT !.buffer = IF @ = 0 THEN 0 ELSE @ - 1]
    /\ UNCHANGED <<stays, cpu, pic, saved, irq_handlers, pci, acpi, nic, glitch>>

-------------------------------------------------------------------------------
(* The way back: ~syscall_enabler, and the destructors of stage3_entry.    *)

\* Mutant: the device object stays known.
LeaveKnown ==
    /\ At("leave")
    /\ Require(cpu.sce, "not enabled", IF nic.device = None THEN "kbd off" ELSE "card off")
    /\ cpu' = [cpu EXCEPT !.sce = FALSE]
    /\ UNCHANGED <<stays, pic, saved, irq_handlers, pci, acpi, devs, glitch>>

Leave ==
    /\ At("leave")
    /\ Require(cpu.sce, "not enabled", IF nic.device = None THEN "kbd off" ELSE "card off")
    /\ cpu' = [cpu EXCEPT !.sce = FALSE]
    /\ nic' = [nic EXCEPT !.published = FALSE]
    /\ UNCHANGED <<stays, pic, saved, irq_handlers, pci, acpi, kbd, glitch>>

\* ~i825x_ethernet_device; its member reg_ goes after it.
CardOff ==
    /\ At("card off") /\ Goto("irq off")
    /\ nic' = [nic EXCEPT !.master = FALSE, !.mapped = FALSE]
    /\ UNCHANGED <<stays, cpu, pic, saved, irq_handlers, pci, acpi, kbd, glitch>>

\* ~isr_handler_impl
IsrOff ==
    /\ At("isr off")
    /\ Require(\A irq \in Irqs : irq_handlers[irq] = None, "handlers left", "pic off")
    /\ cpu' = [cpu EXCEPT !.rflag_if = FALSE, !.idt = "old"]
    /\ UNCHANGED <<stays, pic, saved, irq_handlers, pci, acpi, devs, glitch>>

\* Mutant: the mask is put back before the controllers are initialised.
PicOffEarly ==
    /\ At("pic off") /\ Goto("mm off")
    /\ pic' = pic_remap([pic EXCEPT !.mask = saved.mask], "bios")
    /\ UNCHANGED <<stays, cpu, saved, irq_handlers, pci, acpi, devs, glitch>>

\* ~pic_state
PicOff ==
    /\ At("pic off") /\ Goto("mm off")
    /\ pic' = [pic_remap(pic, "bios") EXCEPT !.mask = saved.mask]
    /\ UNCHANGED <<stays, cpu, saved, irq_handlers, pci, acpi, devs, glitch>>

\* ~memory_manager_impl
MmOff ==
    /\ At("mm off") /\ Goto("cpu off")
    /\ cpu' = [cpu EXCEPT !.cr3 = "old"]
    /\ UNCHANGED <<stays, pic, saved, irq_handlers, pci, acpi, devs, glitch>>

\* ~cpu_manager_impl
CpuOff ==
    /\ At("cpu off") /\ Goto("done")
    /\ cpu' = [cpu EXCEPT !.gdt = "old", !.nxe = FALSE]
    /\ UNCHANGED <<stays, pic, saved, irq_handlers, pci, acpi, devs, glitch>>

-------------------------------------------------------------------------------
(* What is expected of the hardware.                                       *)

\* The card does not share the board's lines.
ASSUME WiringAssumption == \A m \in Machines : m.line \notin {KbdIrq, Cascade}

\* A register holds what has been read from it and is written back, and one of
\* memory has every address bit from the lowest that it decodes.
Registers == [range : Nat \ {0}, size : Nat \ {0}, flags : Nat, value : Nat]

Holds(bar) == write_config_dword(bar, bar.value) = bar

Decoding(bar) ==
    bar.value # 0 /\ ~bar_is_io(bar.value) =>
      /\ bar.range = 2 ^ RegBits /\ bar.flags < 16
      /\ bar.size % 16 = 0 /\ bar.range % bar.size = 0

ASSUME RegistersAssumption ==
    \A m \in Machines : \A a \in DOMAIN m.functions :
      /\ m.functions[a].regs \in [1 .. NumBars -> Registers]
      /\ \A i \in 1 .. NumBars : LET bar == m.functions[a].regs[i] IN Holds(bar) /\ Decoding(bar)

\* There is a table wherever a table that is looked at says so.
ASSUME TablesAssumption ==
    \A m \in Machines :
      /\ \A p \in DOMAIN m.tables :
           /\ p \in Nat /\ m.tables[p].length \in Nat
           /\ match_structure(m.tables[p], "FACP") => m.tables[p].dsdt \in DOMAIN m.tables
      /\ Pointer(m) # None =>
           /\ Pointer(m).rsdt \in DOMAIN m.tables
           /\ EntriesOf(m.tables[Pointer(m).rsdt]) \in Seq(DOMAIN m.tables)

-------------------------------------------------------------------------------
Boot ==
    \/ cpu_init \/ construct_mm \/ isr_init
    \/ register_irq_handler("timer", "timer unmask", TimerIrq, "timer", "kbd")
    \/ register_irq_handler("kbd", "kbd unmask", KbdIrq, "kbd", "pci")
    \/ pci_init \/ probe \/ pci_done
    \/ acpi_test \/ get_description \/ Enlarge \/ CopyTable \/ RootTable \/ NextEntry
    \/ HandleTable \/ KeepDsdt \/ acpi_done
    \/ NoCard \/ i825x_ethernet_device
    \/ (nic.device # None /\ register_irq_handler("card irq", "card unmask", Line, "nic", "reset"))
    \/ reset \/ Publish \/ Network \/ syscall_enabler \/ switch_to

User == syscall \/ sysret \/ user_fault \/ restore_original_context \/ read_key

Shutdown ==
    \/ Leave \/ CardOff
    \/ (nic.device # None /\ Release("irq off", "irq clear", Line, "kbd off"))
    \/ Release("kbd off", "kbd clear", KbdIrq, "timer off")
    \/ Release("timer off", "timer clear", TimerIrq, "isr off")
    \/ IsrOff \/ PicOff \/ MmOff \/ CpuOff

Interrupt == (\E irq \in Irqs : Deliver(irq)) \/ Handle \/ EndOfInterrupt

Next == Boot \/ User \/ Shutdown \/ Interrupt \/ Spurious \/ Devices \/ Report

\* The processor goes on, and takes the interrupts that it may take; what
\* users and devices do, and what the user program calls, is up to them.
Fairness == WF_vars(Boot) /\ WF_vars(Shutdown) /\ WF_vars(sysret) /\ WF_vars(Interrupt)

Spec == Init /\ [][Next]_vars /\ Fairness

-------------------------------------------------------------------------------
(* Properties                                                              *)

\* The places of stage3_entry, in their order.
Starting == {"cpu", "mm", "isr"}
Registering == {"timer", "timer unmask", "kbd", "kbd unmask"}
Enumerating == {"pci", "probe", "acpi", "map", "grow", "copy", "rsdt", "entries", "tables", "dsdt", "card"}
CardStarting == {"card irq", "card unmask", "reset", "publish", "net"}
UserMode == {"user", "switch", "in user", "in kernel", "key", "leave"}
CardEnding == {"card off", "irq off", "irq clear"}
Unregistering == {"kbd off", "kbd clear", "timer off", "timer clear", "isr off"}
Restoring == {"pic off", "mm off", "cpu off", "done"}
Stopped == {"report", "halted"}
Places == UNION {Starting, Registering, Enumerating, CardStarting, UserMode, CardEnding, Unregistering,
                 Restoring, Stopped}

\* The state is what the variables say; bytes are not invented, and the card's
\* driver has a device that was found.
Processors ==
    [gdt : {"old", "kernel"}, idt : {"old", "kernel"}, cr3 : {"old", "kernel"},
     nxe : BOOLEAN, sce : BOOLEAN, rflag_if : BOOLEAN]
Controllers ==
    [offset : {"bios", "kernel"}, mask : SUBSET Irqs, latched : SUBSET {TimerIrq, KbdIrq}, service : SUBSET Irqs]
Cards ==
    [line : Nat \cup {None}, icr : BOOLEAN, ims : BOOLEAN, device : Nat \cup {None},
     mapped : BOOLEAN, master : BOOLEAN, published : BOOLEAN]
Keyboards == [full : BOOLEAN, buffer : Nat, stale : BOOLEAN]
Counts == [ticks : 0 .. MaxTicks, keys : 0 .. MaxKeys, events : 0 .. MaxEvents]

TypeOK ==
    /\ machine \in Machines /\ pc \in Places /\ isr \in Irqs \cup {None} /\ step \in {"handler", "eoi"}
    /\ cpu \in Processors /\ pic \in Controllers /\ saved \in [mask : SUBSET Irqs, flags : BOOLEAN]
    /\ irq_handlers \in [Irqs -> {"timer", "kbd", "nic", None}]
    /\ nic \in Cards /\ (nic.device # None => nic.device \in DOMAIN pci.devices)
    /\ kbd \in Keyboards /\ causes \in Counts
    /\ kbd.buffer + (IF kbd.full THEN 1 ELSE 0) <= causes.keys
    /\ glitch \in BOOLEAN

\* What a machine has to have: memory above the first megabyte, functions with
\* registers and buses of the known kinds, a card with one large register and a
\* line of its own, and tables of known revisions that add up.
MemoryFit(m) == \E i \in DOMAIN m.memory : Suitable(m.memory[i])

BarsFit(regs) == \A i \in 1 .. NumBars : regs[i].value # 0 /\ IsWide(regs[i].value) => WideOk(regs, i)

FirstUsed(regs, i) == regs[i].value # 0 /\ \A j \in 1 .. i - 1 : regs[j].value = 0

CardFit(f) ==
    /\ f.line \in Irqs \ {TimerIrq, KbdIrq, Cascade}
    /\ \E i \in 1 .. NumBars :
         /\ FirstUsed(f.regs, i) /\ ~bar_is_io(f.regs[i].value)
         /\ Decodes(f.regs[i]) = CardBytes

FunctionsFit(m) ==
    \A a \in DOMAIN m.functions :
      LET f == m.functions[a]
      IN  \/ f.header = 0 /\ BarsFit(f.regs) /\ (f.id = "i825x" => CardFit(f))
          \/ f.header = 1 /\ f.primary = a[1]

Readable(t) == t.length >= Header /\ t.sum

TablesFit(m) ==
    /\ Pointer(m) # None
    /\ LET root == m.tables[Pointer(m).rsdt]
       IN /\ Readable(root) /\ root.revision = 1
          /\ \A i \in DOMAIN EntriesOf(root) :
               LET t == m.tables[EntriesOf(root)[i]]
               IN  /\ Readable(t)
                   /\ match_structure(t, "APIC") => MadtOk(t)
                   /\ match_structure(t, "FACP") => FadtOk(t) /\ Readable(m.tables[t.dsdt])

Fit(m) == MemoryFit(m) /\ FunctionsFit(m) /\ TablesFit(m)

FirmwareStops == {"no memory", "bad table", "bad bridge", "bad register", "line taken"}

\* On a machine that is fit for it, nothing in the kernel's own order of things
\* stops it: no interrupt comes without a handler or finds nothing to do, no
\* table is read beyond its mapping, nothing is registered, masked or enabled
\* twice.  What remains: a fault of the user program, an interrupt withdrawn
\* when the processor had already seen it (isr.cpp:386), and an interrupt of the
\* card after its registers have been unmapped (i825x.cpp:341).
OnlyKnownStops ==
    stop # "no" =>
      \/ stop \in {"user fault", "spurious interrupt"}
      \/ stop \in FirmwareStops /\ ~Fit(machine)
      \/ stop = "page fault in handler" /\ nic.device # None /\ ~nic.master

\* Between interrupts no line is in service, on either controller: an end of
\* interrupt that missed one of them would block its lines for good.
NothingInService == isr = None /\ stop = "no" => pic.service = {}

\* A byte in the keyboard controller is announced: its request is latched or
\* being handled.  The exception is a byte of before the controllers were
\* initialised, of which the kernel never hears (ps2.cpp:147).
ByteSignalled ==
    kbd.full /\ ~kbd.stale /\ stop = "no" /\ pc \notin {"mm off", "cpu off", "done"} =>
      KbdIrq \in pic.latched \/ (isr = KbdIrq /\ step = "handler")

\* When the kernel returns, the processor and the interrupt controllers are as
\* it found them, nothing is registered, and the card's registers are unmapped.
ShutdownRestores ==
    pc = "done" =>
      /\ cpu = [gdt |-> "old", idt |-> "old", cr3 |-> "old", nxe |-> FALSE, sce |-> FALSE, rflag_if |-> FALSE]
      /\ pic.offset = "bios" /\ pic.mask = machine.mask
      /\ \A irq \in Irqs : irq_handlers[irq] = None
      /\ ~nic.mapped /\ ~nic.master /\ acpi.window = None

\* Buses that bridges lead to, and the devices that are on them.
Secondary(S) == {machine.functions[a].secondary : a \in {b \in DOMAIN machine.functions :
                   b[1] \in S /\ machine.functions[b].header = 1}}
Buses == LET one == {0} \cup Secondary({0}) IN one \cup Secondary(one)

Visible ==
    {a \in DOMAIN machine.functions :
       /\ machine.functions[a].header = 0 /\ a[1] \in Buses
       /\ a[3] # 0 => LET f == <<a[1], a[2], 0>>
                      IN f \in DOMAIN machine.functions /\ machine.functions[f].multi}

\* After the enumeration every device that is there is listed, once, with the
\* base address registers it uses and the sizes they decode, whatever their
\* kind and place, behind bridges too.
DevicesExact ==
    pci.todo = <<>> /\ stop = "no" /\ cpu.rflag_if /\ pci.devices # <<>> =>
      /\ IsInjective([i \in DOMAIN pci.devices |-> pci.devices[i].address])
      /\ {pci.devices[i].address : i \in DOMAIN pci.devices} = Visible
      /\ \A i \in DOMAIN pci.devices :
            pci.devices[i].bars = BarsInUse(machine.functions[pci.devices[i].address].regs)

\* Sizing a base address register leaves no trace in the device.
ConfigRestored == \A a \in DOMAIN machine.functions : pci.config[a] = machine.functions[a].regs

\* The description tables are read as they are: once they have been handled,
\* the definition block is the one of the fixed table in the root table, with
\* its length, and no mapping is left.
DsdtExact ==
    stop = "no" /\ pc \in {"card", "net", "user", "done"} =>
      /\ acpi.window = None
      /\ \A p \in DOMAIN machine.tables : machine.tables[p].sig = "FACP" =>
           acpi.dsdt = [phys |-> machine.tables[p].dsdt, length |-> machine.tables[machine.tables[p].dsdt].length]

\* A stack trace shows where each function of the chain of calls is: from the
\* innermost that is not part of the reporting to the outermost, through
\* prologues that had not finished and through an interrupt.
TraceExact == trace # None => trace.lines = PlacesOf(trace.chain.calls, trace.chain.skip)

\* A device that user programs can reach has its registers mapped, its handler
\* set, its line open and access to memory.
DriverLive ==
    nic.published /\ stop = "no" =>
      nic.mapped /\ nic.master /\ nic.ims /\ irq_handlers[Line] = "nic" /\ Line \notin pic.mask

\* The boot ends: whatever interrupts come, the user program is started or the
\* machine has stopped with a report.
BootsToUser == <>(pc = "in user" \/ stop # "no")

\* A request of the timer or the keyboard on an open line is served, unless the
\* line is closed, the machine stops, or a user program runs, with interrupts
\* off and perhaps without ever calling.
RequestsServed ==
    \A irq \in {TimerIrq, KbdIrq} :
      (Passes(irq) /\ pic.offset = "kernel") ~>
        (irq \notin pic.latched \/ irq \in pic.mask \/ stop # "no" \/ pc = "in user")

\* Interrupts are neither lost nor left in service, and a card that programs
\* can reach is served (on_irq, pic_send_eoi, i825x_ethernet_device).
InterruptsSound == TypeOK /\ NothingInService /\ ByteSignalled /\ DriverLive

\* What the kernel knows of the machine is what the firmware left, and reading
\* it has changed nothing (probe_bus, read_bars, get_description).
FirmwareExact == DevicesExact /\ ConfigRestored /\ DsdtExact

\* The machine goes on: the boot ends and requests are served (stage3_entry,
\* on_irq).
GoesOn == BootsToUser /\ RequestsServed
===============================================================================
