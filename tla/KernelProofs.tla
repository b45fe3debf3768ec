------------------------------ MODULE KernelProofs ------------------------------
(***************************************************************************)
(* Proofs about Kernel, for every machine, every number of interrupts and  *)
(* every chain of calls in a report.                                       *)
(***************************************************************************)
EXTENDS Kernel, SequencesExt, NaturalsInduction, WellFoundedInduction, SequenceTheorems, TLAPS

(***************************************************************************)
(* Numbers.                                                                *)
(***************************************************************************)

\* A non-empty set of naturals has a least element.
LEMMA LeastElement ==
    ASSUME NEW S \in SUBSET Nat, S # {}
    PROVE  \E m \in S : \A x \in S : m <= x
<1> DEFINE R == OpToRel(<, Nat)
<1>1. IsWellFoundedOn(R, Nat)
  BY NatLessThanWellFounded
<1>2. \A x, y \in Nat : x < y => <<x, y>> \in R
  BY DEF OpToRel
<1> HIDE DEF R
<1>3. PICK m \in S : \A y \in Nat : <<y, m>> \in R => y \notin S
  BY <1>1, WFMin
<1>4. \A x \in S : x \in Nat /\ ~(x < m)
  BY <1>2, <1>3
<1>5. \A x \in S : m <= x
  BY <1>4
<1> QED
  BY <1>5

\* What dividing by n gives, and takes apart.
LEMMA Quotient ==
    ASSUME NEW n \in Nat \ {0}, NEW q \in Nat, NEW r \in 0 .. n - 1
    PROVE  (n * q + r) \div n = q /\ (n * q + r) % n = r
OBVIOUS

LEMMA Division ==
    ASSUME NEW n \in Nat \ {0}, NEW x \in Nat
    PROVE  x = n * (x \div n) + (x % n) /\ x \div n \in Nat /\ x % n \in 0 .. n - 1
OBVIOUS

USE NoneAssumption

(***************************************************************************)
(* The invariant.  While the machine runs, where stage3_entry is says who  *)
(* is registered, which lines are open and what the processor is in.       *)
(***************************************************************************)

Running == stop = "no"

\* A machine that has stopped is in a place of its own.
StopsOnce == Running <=> pc \notin Stopped

\* The devices found are a list.
Listed ==
    /\ DOMAIN pci = {"todo", "devices", "config"}
    /\ \E S : pci.devices \in Seq(S)

\* A table is read through a window that is open only meanwhile.
WindowShut ==
    /\ DOMAIN acpi = {"window", "rest", "got", "back", "dsdt"}
    /\ acpi.back \in {"rsdt", "entries", "dsdt"}
    /\ Running /\ pc \notin {"grow", "copy"} => acpi.window = None

\* The firmware's mask is in the controllers or kept.
MaskKept ==
    Running => /\ pc \in Starting => pic.mask = machine.mask
               /\ pc \notin Starting => saved.mask = machine.mask

KbdPlaces ==
    {"kbd unmask"} \cup Enumerating \cup CardStarting \cup UserMode \cup CardEnding \cup {"kbd off", "kbd clear"}

\* The keyboard's line has no other handler than the keyboard's.
KbdHandler == Running => irq_handlers[KbdIrq] = IF pc \in KbdPlaces THEN "kbd" ELSE None

CardPlaces == (CardStarting \ {"card irq"}) \cup UserMode \cup CardEnding

\* The card's line has the card's handler, and is open but at either end.
CardHandler ==
    Running /\ nic.device # None =>
      /\ pc \in CardPlaces => Line \in Irqs /\ irq_handlers[Line] = "nic"
      /\ pc \in CardPlaces \ {"card unmask", "irq clear"} => Line \notin pic.mask

\* What the driver of the card has set up, and taken back.
CardState ==
    Running =>
      /\ nic.device = None => ~nic.mapped /\ ~nic.master /\ ~nic.published
      /\ pc \in Starting \cup Registering \cup Enumerating => nic.device = None
      /\ pc \in CardStarting \cup CardEnding => nic.device # None
      /\ nic.device # None /\ pc \in CardStarting \cup UserMode \cup {"card off"} => nic.mapped
      /\ pc = "publish" => nic.ims
      /\ nic.published => pc \in UserMode \cup {"net"} /\ nic.master /\ nic.ims
      /\ pc \in {"irq off", "irq clear"} \cup Unregistering \cup Restoring => ~nic.mapped /\ ~nic.master

\* The destructors put back one thing after the other, and no interrupt comes
\* once the descriptor table is the old one.
PutBack ==
    Running =>
      /\ pc \in CardEnding \cup Unregistering \cup Restoring => ~cpu.sce
      /\ pc \in Restoring => /\ cpu.idt = "old" /\ ~cpu.rflag_if /\ isr = None
                             /\ \A irq \in Irqs : irq_handlers[irq] = None
      /\ pc \in Restoring \ {"pic off"} => pic.offset = "bios" /\ pic.mask = saved.mask
      /\ pc \in {"cpu off", "done"} => cpu.cr3 = "old"
      /\ pc = "done" => cpu.gdt = "old" /\ ~cpu.nxe

\* In an interrupt its line is in service, and that of the second controller.
Serving ==
    Running => pic.service = IF isr = None THEN {}
                             ELSE {isr} \cup (IF isr >= 8 THEN {Cascade} ELSE {})

Ordered == StopsOnce /\ MaskKept /\ KbdHandler /\ CardHandler /\ CardState /\ PutBack

IInv == TypeOK /\ Listed /\ WindowShut /\ Ordered /\ Serving /\ ByteSignalled

\* What the runs check follows from it.
LEMMA Implied == IInv => InterruptsSound /\ ShutdownRestores
<1> SUFFICES ASSUME IInv PROVE InterruptsSound /\ ShutdownRestores
  OBVIOUS
<1> USE DEF IInv, Ordered
<1>1. NothingInService
  BY DEF Serving, NothingInService, Running
<1>2. DriverLive
  BY DEF DriverLive, CardState, CardHandler, Running, CardPlaces, CardStarting, UserMode,
         CardEnding
<1>3. ShutdownRestores
  <2>1. SUFFICES ASSUME pc = "done" PROVE ShutdownRestores
    BY DEF ShutdownRestores
  <2>2. Running
    BY <2>1 DEF StopsOnce, Stopped
  <2>3. /\ cpu.idt = "old" /\ ~cpu.rflag_if /\ ~cpu.sce /\ cpu.cr3 = "old" /\ cpu.gdt = "old" /\ ~cpu.nxe
        /\ \A irq \in Irqs : irq_handlers[irq] = None
        /\ pic.offset = "bios" /\ pic.mask = saved.mask
    BY <2>1, <2>2 DEF PutBack, Restoring
  <2>4. cpu = [gdt |-> "old", idt |-> "old", cr3 |-> "old", nxe |-> FALSE, sce |-> FALSE, rflag_if |-> FALSE]
    BY <2>3 DEF TypeOK, Processors
  <2>5. saved.mask = machine.mask
    BY <2>1, <2>2 DEF MaskKept, Starting
  <2>6. ~nic.mapped /\ ~nic.master
    BY <2>1, <2>2 DEF CardState, Restoring
  <2>7. acpi.window = None
    BY <2>1, <2>2 DEF WindowShut
  <2> QED
    BY <2>3, <2>4, <2>5, <2>6, <2>7 DEF ShutdownRestores
<1> QED
  BY <1>1, <1>2, <1>3 DEF InterruptsSound

LEMMA Initial == Init => IInv
<1> SUFFICES ASSUME Init PROVE IInv
  OBVIOUS
<1> USE DEF Init
<1>1. TypeOK
  <2>1. machine.mask \subseteq Irqs /\ machine.line \in Nat \cup {None} /\ machine.ims \in BOOLEAN
    BY MachinesAssumption
  <2>2. /\ pic \in [offset : {"bios", "kernel"}, mask : SUBSET Irqs, latched : SUBSET {TimerIrq, KbdIrq},
                    service : SUBSET Irqs]
        /\ saved \in [mask : SUBSET Irqs, flags : BOOLEAN]
        /\ irq_handlers \in [Irqs -> {"timer", "kbd", "nic", None}]
    BY <2>1
  <2>3. /\ nic \in [line : Nat \cup {None}, icr : BOOLEAN, ims : BOOLEAN, device : Nat \cup {None},
                    mapped : BOOLEAN, master : BOOLEAN, published : BOOLEAN]
        /\ nic.device = None
    BY <2>1
  <2>4. /\ kbd \in [full : BOOLEAN, buffer : Nat, stale : BOOLEAN]
        /\ causes \in [ticks : 0 .. MaxTicks, keys : 0 .. MaxKeys, events : 0 .. MaxEvents]
        /\ kbd.buffer + (IF kbd.full THEN 1 ELSE 0) <= causes.keys
    BY KernelAssumption
  <2> QED
    BY <2>2, <2>3, <2>4 DEF TypeOK, Places, Starting, Processors, Controllers, Cards, Keyboards,
                            Counts
<1>2. Listed /\ WindowShut
  BY DEF Listed, WindowShut
<1>3. Ordered
  BY DEF Ordered, StopsOnce, Running, Stopped, MaskKept, Starting, KbdHandler, KbdIrq, Irqs,
         KbdPlaces, Enumerating, CardStarting, UserMode, CardEnding, CardHandler, CardState,
         PutBack, Unregistering, Restoring
<1>4. Serving /\ ByteSignalled
  BY DEF Serving, ByteSignalled
<1> QED
  BY <1>1, <1>2, <1>3, <1>4 DEF IInv

(***************************************************************************)
(* Steps, by what they change.                                             *)
(***************************************************************************)

\* The enumeration of devices and tables.
Enumerate ==
    \/ pci_init \/ probe \/ pci_done
    \/ acpi_test \/ get_description \/ Enlarge \/ CopyTable \/ RootTable \/ NextEntry
    \/ HandleTable \/ KeepDsdt \/ acpi_done

\* The other steps of Boot.
SetUp ==
    \/ cpu_init \/ construct_mm \/ isr_init
    \/ NoCard \/ i825x_ethernet_device \/ reset \/ Publish \/ Network \/ syscall_enabler \/ switch_to

Register ==
    \/ register_irq_handler("timer", "timer unmask", TimerIrq, "timer", "kbd")
    \/ register_irq_handler("kbd", "kbd unmask", KbdIrq, "kbd", "pci")
    \/ (nic.device # None /\ register_irq_handler("card irq", "card unmask", Line, "nic", "reset"))

Unregister ==
    \/ (nic.device # None /\ Release("irq off", "irq clear", Line, "kbd off"))
    \/ Release("kbd off", "kbd clear", KbdIrq, "timer off")
    \/ Release("timer off", "timer clear", TimerIrq, "isr off")

Destroy == Leave \/ CardOff \/ IsrOff \/ PicOff \/ MmOff \/ CpuOff

LEMMA Steps ==
    Next => Enumerate \/ SetUp \/ Register \/ Unregister \/ Destroy \/ User \/ Interrupt
              \/ Spurious \/ Devices \/ Report
BY DEF Next, Boot, Shutdown, Enumerate, SetUp, Register, Unregister, Destroy

\* Another element makes a sequence of a sequence.
LEMMA Listing == ASSUME NEW S, NEW s \in Seq(S), NEW e PROVE Append(s, e) \in Seq(S \cup {e})
<1>1. s \in Seq(S \cup {e})
  OBVIOUS
<1> QED
  BY <1>1, AppendProperties

\* The enumeration disturbs nothing else.
LEMMA EnumerationApart ==
    ASSUME StopsOnce, Listed, WindowShut, Enumerate
    PROVE  /\ pc \in Enumerating /\ isr = None /\ Running
           /\ UNCHANGED <<machine, isr, step, cpu, pic, saved, irq_handlers, nic, kbd, causes, glitch, trace>>
           /\ (pc' \in Enumerating /\ Running') \/ (pc' = "report" /\ ~Running')
           /\ Listed' /\ WindowShut'
<1>1. /\ pc \in Enumerating /\ isr = None /\ Running
      /\ UNCHANGED <<machine, isr, step, cpu, pic, saved, irq_handlers, nic, kbd, causes, glitch, trace>>
      /\ (pc' \in Enumerating /\ Running') \/ (pc' = "report" /\ ~Running' /\ stop' # "no")
  BY DEF Enumerate, pci_init, pci_done, probe, acpi_test, get_description, Enlarge, CopyTable,
         RootTable, NextEntry, HandleTable, KeepDsdt, acpi_done, At, Goto, Require, Fail, stays,
         devs, Running, Enumerating, WindowShut
<1>2. Listed'
  <2>1. CASE probe
    <3>1. \/ \E todo : pci' = [pci EXCEPT !.todo = todo]
          \/ \E todo, e, c : pci' = [todo |-> todo, devices |-> Append(pci.devices, e), config |-> c]
          \/ pci' = pci
      BY <2>1, Zenon DEF probe
    <3>2. ASSUME NEW todo, pci' = [pci EXCEPT !.todo = todo] PROVE Listed'
      <4>1. DOMAIN pci' = {"todo", "devices", "config"} /\ pci'.devices = pci.devices
        BY <3>2 DEF Listed
      <4> QED
        BY <4>1 DEF Listed
    <3>3. ASSUME NEW todo, NEW e, NEW c,
                 pci' = [todo |-> todo, devices |-> Append(pci.devices, e), config |-> c]
          PROVE  Listed'
      <4>1. DOMAIN pci' = {"todo", "devices", "config"} /\ pci'.devices = Append(pci.devices, e)
        BY <3>3
      <4>2. PICK S : pci.devices \in Seq(S)
        BY DEF Listed
      <4>3. Append(pci.devices, e) \in Seq(S \cup {e})
        BY <4>2, Listing
      <4> QED
        BY <4>1, <4>3 DEF Listed
    <3>4. CASE pci' = pci
      BY <3>4 DEF Listed
    <3> QED
      BY <3>1, <3>2, <3>3, <3>4, Zenon
  <2>2. CASE pci_init
    <3>1. DOMAIN pci' = DOMAIN pci /\ pci'.devices = pci.devices
      BY <2>2 DEF pci_init, Listed
    <3> QED
      BY <3>1 DEF Listed
  <2>3. CASE ~probe /\ ~pci_init
    <3>1. pci' = pci
      BY <2>3 DEF Enumerate, pci_done, acpi_test, get_description, Enlarge, CopyTable, RootTable,
                  NextEntry, HandleTable, KeepDsdt, acpi_done
    <3> QED
      BY <3>1 DEF Listed
  <2> QED
    BY <2>1, <2>2, <2>3
<1>3. WindowShut'
  <2>1. CASE acpi_test \/ get_description \/ Enlarge \/ CopyTable \/ RootTable \/ HandleTable \/ KeepDsdt
    BY <2>1 DEF acpi_test, get_description, Enlarge, CopyTable, RootTable, HandleTable, KeepDsdt,
                At, Goto, Require, Fail, Running, WindowShut
  <2>2. CASE pci_init \/ pci_done \/ probe \/ NextEntry \/ acpi_done
    <3>1. acpi' = acpi /\ pc \notin {"grow", "copy"} /\ (Running' => pc' \notin {"grow", "copy"})
      BY <2>2 DEF pci_init, pci_done, probe, NextEntry, acpi_done, At, Goto, Require, Fail, Running
    <3> QED
      BY <1>1, <3>1 DEF WindowShut
  <2> QED
    BY <2>1, <2>2 DEF Enumerate
<1> QED
  BY <1>1, <1>2, <1>3

\* The lines that the code names.
LEMMA LinesExist == TimerIrq # KbdIrq /\ TimerIrq \in Irqs /\ KbdIrq \in Irqs /\ Cascade \in Irqs /\ None \notin Irqs
BY DEF TimerIrq, KbdIrq, Cascade, Irqs

\* An interrupt, a device or a report leaves what the main thread has set up:
\* it goes on where it was, or the machine has stopped.
Aside ==
    /\ (pc' = pc /\ Running) \/ ~Running'
    /\ UNCHANGED <<machine, saved, irq_handlers, pci, acpi>>
    /\ pic' \in Controllers /\ pic'.mask = pic.mask /\ pic'.offset = pic.offset
    /\ nic' \in Cards /\ \A f \in {"line", "ims", "device", "mapped", "master", "published"} : nic'[f] = nic[f]
    /\ cpu' \in Processors /\ \A f \in {"gdt", "idt", "cr3", "nxe", "sce"} : cpu'[f] = cpu[f]

LEMMA AsideSteps == ASSUME TypeOK, StopsOnce, Interrupt \/ Spurious \/ Devices \/ Report PROVE Aside
<1> USE DEF Fail, stays, devs, Running
<1>1. CASE Interrupt
  <2>1. ASSUME NEW irq \in Irqs, Deliver(irq) PROVE Aside
    BY <2>1, LinesExist DEF Deliver, Aside, TypeOK, Controllers, Processors
  <2>2. CASE Handle
    BY <2>2 DEF Handle, CardAck, Aside, TypeOK, Cards
  <2>3. CASE EndOfInterrupt
    <3>1. pic_send_eoi(pic.service, isr) \in SUBSET Irqs
      BY DEF pic_send_eoi, EoiTo, TypeOK, Controllers
    <3> QED
      BY <2>3, <3>1 DEF EndOfInterrupt, Aside, TypeOK, Controllers, Processors
  <2> QED
    BY <1>1, <2>1, <2>2, <2>3 DEF Interrupt
<1>2. CASE Spurious
  BY <1>2 DEF Spurious, Aside, TypeOK
<1>3. CASE Devices
  <2>1. CASE Tick
    BY <1>3, <2>1, LinesExist DEF Devices, Tick, Aside, TypeOK, Controllers
  <2>2. CASE Key
    BY <1>3, <2>2, LinesExist DEF Devices, Key, Aside, TypeOK, Controllers
  <2>3. CASE CardEvent
    BY <1>3, <2>3 DEF Devices, CardEvent, Aside, TypeOK, Cards
  <2> QED
    BY <1>3, <2>1, <2>2, <2>3 DEF Devices
<1>4. CASE Report
  BY <1>4 DEF Report, Aside, TypeOK, Processors, StopsOnce, Stopped
<1> QED
  BY <1>1, <1>2, <1>3, <1>4

(***************************************************************************)
(* Type correctness.                                                       *)
(***************************************************************************)

LEMMA PlacesKept == ASSUME IInv, Next PROVE pc' \in Places /\ StopsOnce'
<1> USE DEF IInv, Ordered, StopsOnce, TypeOK, At, Goto, Require, Fail, stays, devs, Running, Places, Starting, Registering, Enumerating, CardStarting, UserMode, CardEnding, Unregistering, Restoring, Stopped
<1>1. CASE Enumerate
  BY <1>1, EnumerationApart
<1>2. CASE SetUp
  BY <1>2 DEF SetUp, cpu_init, construct_mm, isr_init, NoCard, i825x_ethernet_device, reset,
              Publish, Network, syscall_enabler, switch_to
<1>3. CASE Register
  BY <1>3 DEF Register, register_irq_handler, SetHandler, pic_unmask_irq
<1>4. CASE Unregister
  BY <1>4 DEF Unregister, Release, pic_mask_irq, ClearHandler
<1>5. CASE Destroy
  BY <1>5 DEF Destroy, Leave, CardOff, IsrOff, PicOff, MmOff, CpuOff
<1>6. CASE User
  BY <1>6 DEF User, syscall, sysret, user_fault, restore_original_context, read_key
<1>7. CASE Interrupt \/ Spurious
  BY <1>7 DEF Interrupt, Deliver, Handle, EndOfInterrupt, Spurious
<1>8. CASE Devices \/ Report
  BY <1>8 DEF Devices, Report
<1> QED
  BY <1>1, <1>2, <1>3, <1>4, <1>5, <1>6, <1>7, <1>8, Steps

LEMMA ProcessorTyped == ASSUME IInv, Next PROVE cpu' \in Processors /\ saved' \in [mask : SUBSET Irqs, flags : BOOLEAN]
<1> USE DEF IInv, Ordered, TypeOK, Running, stays, devs
<1>1. CASE Enumerate
  BY <1>1, EnumerationApart
<1>2. CASE SetUp
  <2>1. CASE cpu_init \/ construct_mm
    BY <2>1 DEF Processors, cpu_init, construct_mm
  <2>2. CASE isr_init
    BY <2>2 DEF Processors, Controllers, isr_init
  <2>3. CASE NoCard \/ i825x_ethernet_device \/ reset \/ Publish
    BY <2>3 DEF NoCard, i825x_ethernet_device, reset, Publish
  <2>4. CASE Network \/ syscall_enabler \/ switch_to
    BY <2>4 DEF Processors, Network, syscall_enabler, switch_to
  <2> QED
    BY <1>2, <2>1, <2>2, <2>3, <2>4 DEF SetUp
<1>3. CASE Register \/ Unregister
  BY <1>3 DEF Register, register_irq_handler, SetHandler, pic_unmask_irq, Unregister, Release,
              pic_mask_irq, ClearHandler
<1>4. CASE Destroy
  BY <1>4 DEF Processors, Destroy, Leave, CardOff, IsrOff, PicOff, MmOff, CpuOff
<1>5. CASE User
  BY <1>5 DEF Processors, User, syscall, sysret, user_fault, restore_original_context, read_key
<1>6. CASE Interrupt \/ Spurious \/ Devices \/ Report
  BY <1>6, AsideSteps DEF Aside
<1> QED
  BY <1>1, <1>2, <1>3, <1>4, <1>5, <1>6, Steps

LEMMA ControllersTyped == ASSUME IInv, Next PROVE pic' \in Controllers
<1> USE DEF IInv, Ordered, TypeOK, Running, stays, devs
<1>1. CASE Enumerate
  BY <1>1, EnumerationApart
<1>2. CASE SetUp
  <2>1. CASE isr_init
    BY <2>1 DEF isr_init, Controllers, pic_remap
  <2>2. CASE ~isr_init
    BY <1>2, <2>2 DEF SetUp, cpu_init, construct_mm, NoCard, i825x_ethernet_device, reset, Publish,
                      Network, syscall_enabler, switch_to
  <2> QED
    BY <2>1, <2>2
<1>3. CASE Register
  <2>1. \A at, irq, who, next : SetHandler(at, irq, who, next) => pic' = pic
    BY DEF SetHandler
  <2>2. ASSUME NEW at, NEW irq, NEW next, pic_unmask_irq(at, irq, next) PROVE pic' \in Controllers
    BY <2>2 DEF pic_unmask_irq, Controllers
  <2> QED
    BY <1>3, <2>1, <2>2 DEF Register, register_irq_handler
<1>4. CASE Unregister
  <2>1. ASSUME NEW at, NEW irq \in Irqs, NEW next, pic_mask_irq(at, irq, next) PROVE pic' \in Controllers
    BY <2>1 DEF pic_mask_irq, Controllers
  <2>2. pc = "irq off" /\ isr = None /\ stop = "no" /\ nic.device # None => Line \in Irqs
    BY DEF CardHandler, CardPlaces, CardEnding
  <2>3. nic.device # None /\ pic_mask_irq("irq off", Line, "irq clear") => pic' \in Controllers
    BY <2>1, <2>2 DEF pic_mask_irq, At
  <2>4. \A at, irq, next : ClearHandler(at, irq, next) => pic' = pic
    BY DEF ClearHandler
  <2> QED
    BY <1>4, <2>1, <2>3, <2>4, LinesExist DEF Unregister, Release
<1>5. CASE Destroy
  BY <1>5 DEF Controllers, pic_remap, Destroy, Leave, CardOff, IsrOff, PicOff, MmOff, CpuOff
<1>6. CASE User
  BY <1>6 DEF User, syscall, sysret, user_fault, restore_original_context, read_key
<1>7. CASE Interrupt \/ Spurious \/ Devices \/ Report
  BY <1>7, AsideSteps DEF Aside
<1> QED
  BY <1>1, <1>2, <1>3, <1>4, <1>5, <1>6, <1>7, Steps

LEMMA HandlersTyped ==
    ASSUME IInv, Next
    PROVE  irq_handlers' \in [Irqs -> {"timer", "kbd", "nic", None}]
<1> USE DEF IInv, Ordered, TypeOK, Running, stays, devs
<1>1. CASE Enumerate
  BY <1>1, EnumerationApart
<1>2. CASE Register
  BY <1>2 DEF Register, register_irq_handler, SetHandler, pic_unmask_irq
<1>3. CASE Unregister
  BY <1>3 DEF Unregister, Release, pic_mask_irq, ClearHandler
<1>4. CASE SetUp \/ Destroy \/ User
  BY <1>4 DEF SetUp, cpu_init, construct_mm, isr_init, NoCard, i825x_ethernet_device, reset,
              Publish, Network, syscall_enabler, switch_to, Destroy, Leave, CardOff, IsrOff,
              PicOff, MmOff, CpuOff, User, syscall, sysret, user_fault, restore_original_context,
              read_key
<1>5. CASE Interrupt \/ Spurious \/ Devices \/ Report
  BY <1>5, AsideSteps DEF Aside
<1> QED
  BY <1>1, <1>2, <1>3, <1>4, <1>5, Steps

\* i825x::probe finds a device of the list.
LEMMA CardFound ==
    ASSUME Listed, HasCard
    PROVE  Card \in DOMAIN pci.devices /\ Card \in Nat /\ pci.devices[Card].id = "i825x"
<1>1. PICK S : pci.devices \in Seq(S)
  BY DEF Listed
<1> DEFINE I == {i \in 1 .. Len(pci.devices) : pci.devices[i].id = "i825x"}
<1>2. DOMAIN pci.devices = 1 .. Len(pci.devices) /\ Len(pci.devices) \in Nat
  BY <1>1
<1>3. I # {} /\ I \in SUBSET Nat
  BY <1>2 DEF HasCard
<1>4. Min(I) \in I
  BY <1>3, LeastElement DEF Min
<1>5. Card = Min(I)
  BY <1>3 DEF Card, SelectInSeq
<1> QED
  BY <1>2, <1>4, <1>5

LEMMA CardTyped ==
    ASSUME IInv, Next
    PROVE  nic' \in Cards /\ (nic.device # None => nic.device \in DOMAIN pci.devices)'
<1> USE DEF IInv, Ordered, TypeOK, Running, stays, devs
<1>1. CASE Enumerate
  BY <1>1, EnumerationApart DEF CardState
<1>2. CASE SetUp
  <2>1. CASE i825x_ethernet_device
    BY <2>1, CardFound DEF i825x_ethernet_device, Cards
  <2>2. CASE reset \/ Publish
    BY <2>2 DEF reset, Publish, Cards
  <2>3. CASE ~i825x_ethernet_device /\ ~reset /\ ~Publish
    BY <1>2, <2>3 DEF SetUp, cpu_init, construct_mm, isr_init, NoCard, Network, syscall_enabler,
                      switch_to
  <2> QED
    BY <2>1, <2>2, <2>3
<1>3. CASE Register \/ Unregister \/ User
  BY <1>3 DEF Register, register_irq_handler, SetHandler, pic_unmask_irq, Unregister, Release,
              pic_mask_irq, ClearHandler, User, syscall, sysret, user_fault,
              restore_original_context, read_key
<1>4. CASE Destroy
  BY <1>4 DEF Cards, Destroy, Leave, CardOff, IsrOff, PicOff, MmOff, CpuOff
<1>5. CASE Interrupt \/ Spurious \/ Devices \/ Report
  BY <1>5, AsideSteps DEF Aside
<1> QED
  BY <1>1, <1>2, <1>3, <1>4, <1>5, Steps

\* Bytes are taken from the keyboard's queue, or from its controller into it.
BytesTyped ==
    /\ kbd \in Keyboards /\ causes \in Counts
    /\ kbd.buffer + (IF kbd.full THEN 1 ELSE 0) <= causes.keys

LEMMA Taken ==
    ASSUME BytesTyped, causes' = causes, NEW n \in Nat, n <= kbd.buffer, kbd' = [kbd EXCEPT !.buffer = n]
    PROVE  BytesTyped'
BY DEF BytesTyped, Keyboards, Counts

LEMMA KeyboardTyped == ASSUME IInv, Next PROVE BytesTyped'
<1> USE DEF IInv, stays, devs
<1>1. BytesTyped
  BY DEF TypeOK, BytesTyped
<1>2. CASE UNCHANGED <<kbd, causes>>
  BY <1>1, <1>2 DEF BytesTyped
<1>3. CASE isr_init
  BY <1>1, <1>3 DEF isr_init, BytesTyped, Keyboards
<1>4. CASE Network \/ sysret
  <2>1. PICK k \in Nat : k <= kbd.buffer /\ kbd' = [kbd EXCEPT !.buffer = @ - k] /\ causes' = causes
    <3>1. kbd.buffer \in Nat
      BY <1>1 DEF BytesTyped, Keyboards
    <3>2. CASE Network
      BY <3>1, <3>2 DEF Network
    <3>3. CASE sysret
      <4>1. PICK k \in 0 .. 1 : k <= kbd.buffer /\ kbd' = [kbd EXCEPT !.buffer = @ - k]
        BY <3>3 DEF sysret
      <4>2. causes' = causes
        BY <3>3 DEF sysret
      <4>3. k \in Nat
        BY <4>1
      <4> QED
        BY <4>1, <4>2, <4>3
    <3> QED
      BY <1>4, <3>2, <3>3
  <2>2. kbd.buffer - k \in Nat /\ kbd.buffer - k <= kbd.buffer
    BY <1>1, <2>1 DEF BytesTyped, Keyboards
  <2> QED
    BY <1>1, <2>1, <2>2, Taken
<1>5. CASE read_key
  <2> DEFINE n == IF kbd.buffer = 0 THEN 0 ELSE kbd.buffer - 1
  <2>1. kbd' = [kbd EXCEPT !.buffer = n] /\ causes' = causes
    BY <1>5 DEF read_key
  <2>2. n \in Nat /\ n <= kbd.buffer
    BY <1>1 DEF BytesTyped, Keyboards
  <2> QED
    BY <1>1, <2>1, <2>2, Taken
<1>6. CASE Handle
  <2>1. kbd' = kbd \/ (kbd.full /\ kbd' = [kbd EXCEPT !.full = FALSE, !.stale = FALSE, !.buffer = @ + 1])
    BY <1>6 DEF Handle, KeyByte
  <2>2. causes' = causes
    BY <1>6 DEF Handle
  <2>3. CASE kbd' = kbd
    BY <1>1, <2>2, <2>3 DEF BytesTyped
  <2>4. CASE kbd.full /\ kbd' = [kbd EXCEPT !.full = FALSE, !.stale = FALSE, !.buffer = @ + 1]
    <3>1. kbd' \in Keyboards /\ kbd'.full = FALSE /\ kbd'.buffer = kbd.buffer + 1
      <4>1. kbd' = [full |-> FALSE, stale |-> FALSE, buffer |-> kbd.buffer + 1]
        BY <1>1, <2>4 DEF BytesTyped, Keyboards
      <4>2. kbd.buffer + 1 \in Nat
        BY <1>1 DEF BytesTyped, Keyboards
      <4> QED
        BY <4>1, <4>2 DEF Keyboards
    <3>2. kbd.buffer + 1 <= causes.keys
      BY <1>1, <2>4 DEF BytesTyped
    <3>3. kbd.buffer + 1 \in Nat
      BY <1>1 DEF BytesTyped, Keyboards
    <3> QED
      BY <1>1, <2>2, <3>1, <3>2, <3>3 DEF BytesTyped
  <2> QED
    BY <2>1, <2>3, <2>4
<1>7. CASE Devices
  <2>1. CASE Tick \/ CardEvent
    <3>1. /\ kbd' = kbd /\ causes' \in Counts /\ causes'.keys = causes.keys
      BY <1>1, <2>1, KernelAssumption DEF Tick, CardEvent, BytesTyped, Counts
    <3> QED
      BY <1>1, <3>1 DEF BytesTyped
  <2>2. CASE Key
    <3>1. /\ ~kbd.full /\ kbd' = [kbd EXCEPT !.full = TRUE]
          /\ causes' \in Counts /\ causes'.keys = causes.keys + 1
      BY <1>1, <2>2, KernelAssumption DEF Key, BytesTyped, Counts
    <3>2. kbd' \in Keyboards /\ kbd'.full = TRUE /\ kbd'.buffer = kbd.buffer
      BY <1>1, <3>1 DEF BytesTyped, Keyboards
    <3>3. kbd.buffer \in Nat /\ causes.keys \in Nat
      BY <1>1, KernelAssumption DEF BytesTyped, Keyboards, Counts
    <3> QED
      BY <1>1, <3>1, <3>2, <3>3 DEF BytesTyped
  <2> QED
    BY <1>7, <2>1, <2>2 DEF Devices
<1> HIDE DEF IInv
<1>8. CASE Enumerate
  BY <1>2, <1>8, EnumerationApart DEF IInv, Ordered
<1>9. CASE SetUp
  BY <1>2, <1>3, <1>4, <1>9 DEF SetUp, cpu_init, construct_mm, NoCard, i825x_ethernet_device,
                                reset, Publish, syscall_enabler, switch_to
<1>10. CASE User
  BY <1>2, <1>4, <1>5, <1>10 DEF User, syscall, user_fault, restore_original_context
<1>11. CASE Register \/ Unregister \/ Destroy
  BY <1>2, <1>11 DEF Register, register_irq_handler, SetHandler, pic_unmask_irq, Unregister,
                     Release, pic_mask_irq, ClearHandler, Destroy, Leave, CardOff, IsrOff, PicOff,
                     MmOff, CpuOff
<1>12. CASE Interrupt \/ Spurious \/ Report
  BY <1>2, <1>6, <1>12 DEF Interrupt, Deliver, EndOfInterrupt, Spurious, Report
<1> QED
  BY <1>7, <1>8, <1>9, <1>10, <1>11, <1>12, Steps

LEMMA TypesKept == ASSUME IInv, Next PROVE TypeOK'
<1>1. machine' \in Machines /\ isr' \in Irqs \cup {None} /\ step' \in {"handler", "eoi"} /\ glitch' \in BOOLEAN
  <2> USE DEF IInv, Ordered, TypeOK, stays
  <2>1. CASE Enumerate
    BY <2>1, EnumerationApart DEF Enumerate, pci_init, pci_done, probe, acpi_test, get_description,
                                  Enlarge, CopyTable, RootTable, NextEntry, HandleTable, KeepDsdt,
                                  acpi_done
  <2>2. CASE SetUp \/ Register \/ User
    BY <2>2 DEF MayWithdraw, SetUp, cpu_init, construct_mm, isr_init, NoCard,
                i825x_ethernet_device, reset, Publish, Network, syscall_enabler, switch_to,
                Register, register_irq_handler, SetHandler, pic_unmask_irq, User, syscall, sysret,
                user_fault, restore_original_context, read_key
  <2>3. CASE Unregister \/ Destroy
    BY <2>3 DEF MayWithdraw, Unregister, Release, pic_mask_irq, ClearHandler, Destroy, Leave,
                CardOff, IsrOff, PicOff, MmOff, CpuOff
  <2>4. CASE Interrupt \/ Spurious \/ Devices \/ Report
    BY <2>4 DEF Interrupt, Deliver, Handle, EndOfInterrupt, Spurious, Devices, Report
  <2> QED
    BY <2>1, <2>2, <2>3, <2>4, Steps
<1> QED
  BY <1>1, PlacesKept, ProcessorTyped, ControllersTyped, HandlersTyped, CardTyped, KeyboardTyped
     DEF TypeOK, BytesTyped

(***************************************************************************)
(* What has been set up, and put back.                                     *)
(***************************************************************************)

LEMMA MaskStep == ASSUME IInv, Next PROVE MaskKept'
<1> USE DEF IInv, Ordered, StopsOnce, TypeOK, MaskKept, Places, Starting, Registering, Enumerating, CardStarting, UserMode, CardEnding, Unregistering, Restoring, Stopped
<1>1. CASE Enumerate
  BY <1>1, EnumerationApart
<1>2. CASE SetUp
  BY <1>2 DEF Controllers, At, Goto, Require, Fail, stays, devs, Running, SetUp, cpu_init,
              construct_mm, isr_init, NoCard, i825x_ethernet_device, reset, Publish, Network,
              syscall_enabler, switch_to
<1>3. CASE Register \/ Unregister
  BY <1>3 DEF Controllers, At, Goto, Require, Fail, stays, devs, Running, Register,
              register_irq_handler, SetHandler, pic_unmask_irq, Unregister, Release, pic_mask_irq,
              ClearHandler
<1>4. CASE Destroy
  BY <1>4 DEF Controllers, At, Goto, Require, Fail, stays, devs, Running, Destroy, Leave, CardOff,
              IsrOff, PicOff, MmOff, CpuOff
<1>5. CASE User
  BY <1>5 DEF At, Goto, Require, Fail, stays, devs, Running, User, syscall, sysret, user_fault,
              restore_original_context, read_key
<1>6. CASE Interrupt \/ Spurious \/ Devices \/ Report
  BY <1>6, AsideSteps DEF Aside
<1> QED
  BY <1>1, <1>2, <1>3, <1>4, <1>5, <1>6, Steps

\* A registration that succeeds changes the handler of its line alone.
LEMMA SetEffect ==
    ASSUME TypeOK, NEW at, NEW irq, NEW who, NEW next, SetHandler(at, irq, who, next)
    PROVE  /\ pc = at /\ Running
           /\ UNCHANGED <<machine, isr, cpu, pic, saved, pci, acpi, nic, kbd>>
           /\ ~Running' \/ /\ pc' = next /\ irq \in Irqs /\ irq_handlers[irq] = None
                           /\ irq_handlers'[irq] = who
                           /\ \A i \in Irqs : i # irq => irq_handlers'[i] = irq_handlers[i]
BY DEF SetHandler, At, Goto, Require, Fail, stays, devs, Running, TypeOK

LEMMA ClearEffect ==
    ASSUME TypeOK, NEW at, NEW irq \in Irqs, NEW next, ClearHandler(at, irq, next)
    PROVE  /\ pc = at /\ Running
           /\ UNCHANGED <<machine, isr, cpu, pic, saved, pci, acpi, nic, kbd>>
           /\ ~Running' \/ /\ pc' = next /\ irq_handlers'[irq] = None
                           /\ \A i \in Irqs : i # irq => irq_handlers'[i] = irq_handlers[i]
BY DEF ClearHandler, At, Goto, Require, Fail, stays, devs, Running, TypeOK

\* Lines are opened and closed one at a time.
LEMMA OpenEffect ==
    ASSUME TypeOK, NEW at, NEW irq, NEW next, pic_unmask_irq(at, irq, next)
    PROVE  /\ pc = at /\ Running
           /\ UNCHANGED <<machine, isr, cpu, saved, irq_handlers, pci, acpi, nic, kbd>>
           /\ pic'.mask = pic.mask \ {irq} /\ pic'.offset = pic.offset /\ pic'.service = pic.service
           /\ pic'.latched = pic.latched
           /\ ~Running' \/ pc' = next
BY DEF pic_unmask_irq, At, Goto, Require, Fail, stays, devs, Running, TypeOK, Controllers

LEMMA CloseEffect ==
    ASSUME TypeOK, NEW at, NEW irq, NEW next, pic_mask_irq(at, irq, next)
    PROVE  /\ pc = at /\ Running
           /\ UNCHANGED <<machine, isr, cpu, saved, irq_handlers, pci, acpi, nic, kbd>>
           /\ pic'.mask = pic.mask \cup {irq} /\ pic'.offset = pic.offset /\ pic'.service = pic.service
           /\ pic'.latched = pic.latched
           /\ ~Running' \/ pc' = next
BY DEF pic_mask_irq, At, Goto, Require, Fail, stays, devs, Running, TypeOK, Controllers

LEMMA KbdStep == ASSUME IInv, Next PROVE KbdHandler'
<1> USE DEF IInv, Ordered, KbdHandler
<1> USE LinesExist
<1>1. CASE Enumerate
  BY <1>1, EnumerationApart DEF KbdPlaces
<1>2. CASE SetUp
  BY <1>2 DEF KbdPlaces, At, Goto, Require, Fail, stays, devs, Running, Places, Starting,
              Registering, Enumerating, CardStarting, UserMode, CardEnding, Unregistering,
              Restoring, Stopped, SetUp, cpu_init, construct_mm, isr_init, NoCard,
              i825x_ethernet_device, reset, Publish, Network, syscall_enabler, switch_to
<1>3. CASE Register
  <2>1. ASSUME SetHandler("timer", TimerIrq, "timer", "timer unmask") PROVE KbdHandler'
    <3>1. /\ pc = "timer" /\ Running
          /\ ~Running' \/ (pc' = "timer unmask" /\ irq_handlers'[KbdIrq] = irq_handlers[KbdIrq])
      <4>1. /\ pc = "timer" /\ Running
            /\ Running' => pc' = "timer unmask" /\ \A i \in Irqs : i # TimerIrq => irq_handlers'[i] = irq_handlers[i]
        BY ONLY TypeOK, <2>1, SetEffect
      <4> QED
        BY <4>1
    <3> QED
      BY <3>1 DEF KbdPlaces, Places, Starting, Registering, Enumerating, CardStarting, UserMode,
                  CardEnding, Unregistering, Restoring, Stopped
  <2>2. ASSUME SetHandler("kbd", KbdIrq, "kbd", "kbd unmask") PROVE KbdHandler'
    BY <2>2, SetEffect DEF KbdPlaces, Places, Starting, Registering, Enumerating, CardStarting,
                           UserMode, CardEnding, Unregistering, Restoring, Stopped
  <2>3. ASSUME SetHandler("card irq", Line, "nic", "card unmask") PROVE KbdHandler'
    BY <2>3, SetEffect DEF KbdPlaces, Places, Starting, Registering, Enumerating, CardStarting,
                           UserMode, CardEnding, Unregistering, Restoring, Stopped
  <2>4. ASSUME NEW at, NEW irq, NEW next, pic_unmask_irq(at, irq, next), at \in KbdPlaces <=> next \in KbdPlaces
        PROVE  KbdHandler'
    BY <2>4, OpenEffect
  <2> QED
    BY <1>3, <2>1, <2>2, <2>3, <2>4 DEF Register, register_irq_handler, KbdPlaces, Places,
                                        Starting, Registering, Enumerating, CardStarting, UserMode,
                                        CardEnding, Unregistering, Restoring, Stopped
<1>4. CASE Unregister
  <2>1. ASSUME NEW at, NEW irq, NEW next, pic_mask_irq(at, irq, next), at \in KbdPlaces <=> next \in KbdPlaces
        PROVE  KbdHandler'
    BY <2>1, CloseEffect
  <2>2. ASSUME nic.device # None, ClearHandler("irq clear", Line, "kbd off") PROVE KbdHandler'
    <3>1. pc = "irq clear" /\ Running
      BY <2>2 DEF ClearHandler, At, Running
    <3>2. Line \in Irqs /\ irq_handlers[Line] = "nic" /\ irq_handlers[KbdIrq] = "kbd"
      BY <2>2, <3>1 DEF CardHandler, CardPlaces, KbdPlaces, Places, Starting, Registering,
                        Enumerating, CardStarting, UserMode, CardEnding, Unregistering, Restoring,
                        Stopped
    <3> QED
      BY <2>2, <3>2, ClearEffect DEF KbdPlaces, Places, Starting, Registering, Enumerating,
                                     CardStarting, UserMode, CardEnding, Unregistering, Restoring,
                                     Stopped
  <2>3. ASSUME ClearHandler("kbd clear", KbdIrq, "timer off") PROVE KbdHandler'
    <3>1. (pc' = "timer off" /\ irq_handlers'[KbdIrq] = None) \/ ~Running'
      BY <2>3, ClearEffect
    <3> QED
      BY <3>1 DEF KbdPlaces, Places, Starting, Registering, Enumerating, CardStarting, UserMode,
                  CardEnding, Unregistering, Restoring, Stopped
  <2>4. ASSUME ClearHandler("timer clear", TimerIrq, "isr off") PROVE KbdHandler'
    <3>1. /\ pc = "timer clear" /\ Running
          /\ ~Running' \/ (pc' = "isr off" /\ irq_handlers'[KbdIrq] = irq_handlers[KbdIrq])
      BY <2>4, ClearEffect
    <3> QED
      BY <3>1 DEF KbdPlaces, Places, Starting, Registering, Enumerating, CardStarting, UserMode,
                  CardEnding, Unregistering, Restoring, Stopped
  <2> QED
    BY <1>4, <2>1, <2>2, <2>3, <2>4 DEF Unregister, Release, KbdPlaces, Places, Starting,
                                        Registering, Enumerating, CardStarting, UserMode,
                                        CardEnding, Unregistering, Restoring, Stopped
<1>5. CASE Destroy
  BY <1>5 DEF KbdPlaces, At, Goto, Require, Fail, stays, devs, Running, Places, Starting,
              Registering, Enumerating, CardStarting, UserMode, CardEnding, Unregistering,
              Restoring, Stopped, Destroy, Leave, CardOff, IsrOff, PicOff, MmOff, CpuOff
<1>6. CASE User
  BY <1>6 DEF KbdPlaces, At, Goto, Require, Fail, stays, devs, Running, Places, Starting,
              Registering, Enumerating, CardStarting, UserMode, CardEnding, Unregistering,
              Restoring, Stopped, User, syscall, sysret, user_fault, restore_original_context,
              read_key
<1>7. CASE Interrupt \/ Spurious \/ Devices \/ Report
  BY <1>7, AsideSteps DEF Aside
<1> QED
  BY <1>1, <1>2, <1>3, <1>4, <1>5, <1>6, <1>7, Steps

LEMMA CardStateStep == ASSUME IInv, Next PROVE CardState'
<1> USE DEF IInv, Ordered
<1>1. CASE Enumerate
  BY <1>1, EnumerationApart DEF CardState, Places, Starting, Registering, Enumerating,
                                CardStarting, UserMode, CardEnding, Unregistering, Restoring,
                                Stopped
<1>2. CASE SetUp
  <2>1. CASE i825x_ethernet_device
    <3>1. pc = "card" /\ (pc' = "card irq" \/ ~Running') /\ Card # None
      BY <2>1, CardFound DEF i825x_ethernet_device, At, Goto, Require, Fail, stays, devs, Running
    <3>2. nic' = [nic EXCEPT !.device = Card, !.mapped = TRUE] /\ Running
      BY <2>1 DEF i825x_ethernet_device, At, Goto, Require, Fail, stays, devs, Running
    <3>3. nic'.device = Card /\ nic'.mapped = TRUE /\ nic'.published = nic.published
      BY <3>2 DEF TypeOK, Cards
    <3> QED
      BY <3>1, <3>2, <3>3 DEF CardState, Places, Starting, Registering, Enumerating, CardStarting,
                              UserMode, CardEnding, Unregistering, Restoring, Stopped
  <2>2. CASE reset
    <3>1. /\ pc = "reset" /\ Running /\ (pc' = "publish" \/ ~Running')
          /\ nic' = [nic EXCEPT !.icr = FALSE, !.ims = TRUE]
      BY <2>2 DEF reset, At, Goto, Require, Fail, stays, devs, Running
    <3> QED
      BY <3>1 DEF TypeOK, Cards, CardState, Places, Starting, Registering, Enumerating,
                  CardStarting, UserMode, CardEnding, Unregistering, Restoring, Stopped
  <2>3. CASE Publish
    <3>1. /\ pc = "publish" /\ Running /\ (pc' = "net" \/ ~Running')
          /\ nic' = [nic EXCEPT !.master = TRUE, !.published = TRUE]
      BY <2>3 DEF Publish, At, Goto, Require, Fail, stays, devs, Running
    <3> QED
      BY <3>1 DEF TypeOK, Cards, CardState, Places, Starting, Registering, Enumerating,
                  CardStarting, UserMode, CardEnding, Unregistering, Restoring, Stopped
  <2>4. CASE ~i825x_ethernet_device /\ ~reset /\ ~Publish
    <3>1. /\ nic' = nic /\ Running
          /\ \/ pc \in Starting /\ pc' \in Starting \cup Registering
             \/ pc = "card" /\ pc' = "user"
             \/ pc = "net" /\ pc' = "user"
             \/ pc \in UserMode /\ pc' \in UserMode
             \/ ~Running'
      BY <1>2, <2>4 DEF Starting, Registering, UserMode, At, Goto, Require, Fail, stays, devs,
                        Running, SetUp, cpu_init, construct_mm, isr_init, NoCard, Network,
                        syscall_enabler, switch_to
    <3> QED
      BY <3>1 DEF CardState, Places, Starting, Registering, Enumerating, CardStarting, UserMode,
                  CardEnding, Unregistering, Restoring, Stopped
  <2> QED
    BY <2>1, <2>2, <2>3, <2>4
<1>3. CASE Register \/ Unregister
  <2>1. CASE Register
    <3>1. /\ nic' = nic /\ Running
          /\ \/ pc \in {"timer", "timer unmask", "kbd", "kbd unmask"} /\ pc' \in Registering \cup Enumerating
             \/ pc = "card irq" /\ pc' = "card unmask"
             \/ pc = "card unmask" /\ pc' = "reset"
             \/ ~Running'
      BY <2>1 DEF Registering, Enumerating, At, Goto, Require, Fail, stays, devs, Running,
                  Register, register_irq_handler, SetHandler, pic_unmask_irq
    <3> QED
      BY <3>1 DEF CardState, Places, Starting, Registering, Enumerating, CardStarting, UserMode,
                  CardEnding, Unregistering, Restoring, Stopped
  <2>2. CASE Unregister
    BY <2>2 DEF CardState, At, Goto, Require, Fail, stays, devs, Running, Places, Starting,
                Registering, Enumerating, CardStarting, UserMode, CardEnding, Unregistering,
                Restoring, Stopped, Unregister, Release, pic_mask_irq, ClearHandler
  <2> QED
    BY <1>3, <2>1, <2>2
<1>4. CASE Destroy
  <2>1. CASE Leave
    <3>1. /\ pc = "leave" /\ Running /\ nic' = [nic EXCEPT !.published = FALSE]
          /\ pc' = (IF nic.device = None THEN "kbd off" ELSE "card off") \/ ~Running'
      BY <2>1 DEF Leave, At, Goto, Require, Fail, stays, devs, Running
    <3> QED
      BY <3>1 DEF TypeOK, Cards, CardState, Places, Starting, Registering, Enumerating,
                  CardStarting, UserMode, CardEnding, Unregistering, Restoring, Stopped
  <2>2. CASE CardOff
    <3>1. /\ pc = "card off" /\ Running /\ (pc' = "irq off" \/ ~Running')
          /\ nic' = [nic EXCEPT !.master = FALSE, !.mapped = FALSE]
      BY <2>2 DEF CardOff, At, Goto, Require, Fail, stays, devs, Running
    <3> QED
      BY <3>1 DEF TypeOK, Cards, CardState, Places, Starting, Registering, Enumerating,
                  CardStarting, UserMode, CardEnding, Unregistering, Restoring, Stopped
  <2>3. CASE IsrOff \/ PicOff \/ MmOff \/ CpuOff
    BY <2>3 DEF CardState, At, Goto, Require, Fail, stays, devs, Running, Places, Starting,
                Registering, Enumerating, CardStarting, UserMode, CardEnding, Unregistering,
                Restoring, Stopped, IsrOff, PicOff, MmOff, CpuOff
  <2> QED
    BY <1>4, <2>1, <2>2, <2>3 DEF Destroy
<1>5. CASE User
  BY <1>5 DEF CardState, At, Goto, Require, Fail, stays, devs, Running, Places, Starting,
              Registering, Enumerating, CardStarting, UserMode, CardEnding, Unregistering,
              Restoring, Stopped, User, syscall, sysret, user_fault, restore_original_context,
              read_key
<1>6. CASE Interrupt \/ Spurious \/ Devices \/ Report
  <2>1. Aside
    BY <1>6, AsideSteps
  <2>2. /\ nic'.ims = nic.ims /\ nic'.device = nic.device /\ nic'.mapped = nic.mapped
        /\ nic'.master = nic.master /\ nic'.published = nic.published
    BY <2>1 DEF Aside
  <2> QED
    BY <2>1, <2>2 DEF Aside, CardState
<1> QED
  BY <1>1, <1>2, <1>3, <1>4, <1>5, <1>6, Steps

LEMMA CardHandlerStep == ASSUME IInv, Next PROVE CardHandler'
<1> USE DEF IInv, Ordered
<1>1. CASE Enumerate
  BY <1>1, EnumerationApart DEF CardHandler, CardPlaces, Places, Starting, Registering,
                                Enumerating, CardStarting, UserMode, CardEnding, Unregistering,
                                Restoring, Stopped
<1>2. ASSUME pci' = pci, nic'.device = nic.device, irq_handlers' = irq_handlers, pic'.mask = pic.mask, Running,
             pc \in CardPlaces \/ ~Running' \/ pc' \notin CardPlaces \/ nic.device = None,
             pc \notin {"card unmask", "irq clear"} \/ pc' = pc \/ pc' \notin CardPlaces \/ ~Running'
      PROVE  CardHandler'
  BY <1>2 DEF CardHandler, Line
<1>3. CASE SetUp
  <2>1. CASE i825x_ethernet_device
    BY <2>1 DEF i825x_ethernet_device, CardHandler, CardPlaces, At, Goto, Require, Fail, stays,
                devs, Running, Places, Starting, Registering, Enumerating, CardStarting, UserMode,
                CardEnding, Unregistering, Restoring, Stopped
  <2>2. CASE reset
    BY <1>2, <2>2 DEF reset, CardPlaces, TypeOK, Cards, At, Goto, Require, Fail, stays, devs,
                      Running, Places, Starting, Registering, Enumerating, CardStarting, UserMode,
                      CardEnding, Unregistering, Restoring, Stopped
  <2>3. CASE Publish
    BY <1>2, <2>3 DEF Publish, CardPlaces, TypeOK, Cards, At, Goto, Require, Fail, stays, devs,
                      Running, Places, Starting, Registering, Enumerating, CardStarting, UserMode,
                      CardEnding, Unregistering, Restoring, Stopped
  <2>4. CASE NoCard
    BY <1>2, <2>4 DEF NoCard, CardState, At, Goto, Require, Fail, stays, devs, Running, Places,
                      Starting, Registering, Enumerating, CardStarting, UserMode, CardEnding,
                      Unregistering, Restoring, Stopped
  <2>5. CASE cpu_init \/ construct_mm \/ isr_init
    BY <2>5 DEF cpu_init, construct_mm, isr_init, CardHandler, CardPlaces, At, Goto, Require, Fail,
                stays, devs, Running, Places, Starting, Registering, Enumerating, CardStarting,
                UserMode, CardEnding, Unregistering, Restoring, Stopped
  <2>6. CASE Network \/ syscall_enabler \/ switch_to
    BY <1>2, <2>6 DEF Network, syscall_enabler, switch_to, CardPlaces, At, Goto, Require, Fail,
                      stays, devs, Running, Places, Starting, Registering, Enumerating,
                      CardStarting, UserMode, CardEnding, Unregistering, Restoring, Stopped
  <2> QED
    BY <1>3, <2>1, <2>2, <2>3, <2>4, <2>5, <2>6 DEF SetUp
<1>4. CASE Register
  <2>1. ASSUME NEW at \in {"timer", "kbd"}, NEW irq, NEW who, NEW next \in {"timer unmask", "kbd unmask"},
               SetHandler(at, irq, who, next)
        PROVE  CardHandler'
    BY <2>1, SetEffect DEF CardHandler, CardPlaces, Places, Starting, Registering, Enumerating,
                           CardStarting, UserMode, CardEnding, Unregistering, Restoring, Stopped
  <2>2. ASSUME NEW at \in {"timer unmask", "kbd unmask"}, NEW irq, NEW next \in {"kbd", "pci"},
               pic_unmask_irq(at, irq, next)
        PROVE  CardHandler'
    BY <2>2, OpenEffect DEF CardHandler, CardPlaces, Places, Starting, Registering, Enumerating,
                            CardStarting, UserMode, CardEnding, Unregistering, Restoring, Stopped
  <2>3. ASSUME SetHandler("card irq", Line, "nic", "card unmask") PROVE CardHandler'
    <3>1. Line' = Line
      BY ONLY TypeOK, <2>3, SetEffect DEF Line
    <3>2. ~Running' \/ (pc' = "card unmask" /\ Line \in Irqs /\ irq_handlers'[Line] = "nic")
      BY ONLY TypeOK, <2>3, SetEffect
    <3> QED
      BY <3>1, <3>2 DEF CardHandler, CardPlaces, Places, Starting, Registering, Enumerating,
                        CardStarting, UserMode, CardEnding, Unregistering, Restoring, Stopped
  <2>4. ASSUME nic.device # None, pic_unmask_irq("card unmask", Line, "reset") PROVE CardHandler'
    <3>1. /\ pc = "card unmask" /\ Running /\ (~Running' \/ pc' = "reset")
          /\ irq_handlers' = irq_handlers /\ pci' = pci /\ nic' = nic /\ pic'.mask = pic.mask \ {Line}
      BY ONLY TypeOK, <2>4, OpenEffect
    <3>2. Line \in Irqs /\ irq_handlers[Line] = "nic"
      BY <2>4, <3>1 DEF CardHandler, CardPlaces, Places, Starting, Registering, Enumerating,
                        CardStarting, UserMode, CardEnding, Unregistering, Restoring, Stopped
    <3>3. Line' = Line
      BY <3>1 DEF Line
    <3> QED
      BY <3>1, <3>2, <3>3 DEF CardHandler
  <2> QED
    BY <1>4, <2>1, <2>2, <2>3, <2>4 DEF Register, register_irq_handler
<1>5. CASE Unregister
  <2>1. ASSUME nic.device # None, pic_mask_irq("irq off", Line, "irq clear") PROVE CardHandler'
    <3>1. /\ pc = "irq off" /\ Running /\ (~Running' \/ pc' = "irq clear")
          /\ irq_handlers' = irq_handlers /\ pci' = pci /\ nic' = nic
      BY ONLY TypeOK, <2>1, CloseEffect
    <3>2. Line \in Irqs /\ irq_handlers[Line] = "nic"
      BY <2>1, <3>1 DEF CardHandler, CardPlaces, Places, Starting, Registering, Enumerating,
                        CardStarting, UserMode, CardEnding, Unregistering, Restoring, Stopped
    <3>3. Line' = Line
      BY <3>1 DEF Line
    <3> QED
      BY <3>1, <3>2, <3>3 DEF CardHandler
  <2>2. CASE ~(nic.device # None /\ pic_mask_irq("irq off", Line, "irq clear"))
    BY <1>5, <2>2 DEF Unregister, Release, pic_mask_irq, ClearHandler, CardHandler, CardPlaces, At,
                      Goto, Require, Fail, stays, devs, Running, Places, Starting, Registering,
                      Enumerating, CardStarting, UserMode, CardEnding, Unregistering, Restoring,
                      Stopped
  <2> QED
    BY <1>5, <2>1, <2>2 DEF Unregister, Release
<1>6. CASE Destroy
  <2>1. CASE Leave
    BY <1>2, <2>1 DEF Leave, CardPlaces, TypeOK, Cards, At, Goto, Require, Fail, stays, devs,
                      Running, Places, Starting, Registering, Enumerating, CardStarting, UserMode,
                      CardEnding, Unregistering, Restoring, Stopped
  <2>2. CASE CardOff
    BY <1>2, <2>2 DEF CardOff, CardPlaces, TypeOK, Cards, At, Goto, Require, Fail, stays, devs,
                      Running, Places, Starting, Registering, Enumerating, CardStarting, UserMode,
                      CardEnding, Unregistering, Restoring, Stopped
  <2>3. CASE IsrOff \/ PicOff \/ MmOff \/ CpuOff
    BY <2>3 DEF IsrOff, PicOff, MmOff, CpuOff, CardHandler, CardPlaces, At, Goto, Require, Fail,
                stays, devs, Running, Places, Starting, Registering, Enumerating, CardStarting,
                UserMode, CardEnding, Unregistering, Restoring, Stopped
  <2> QED
    BY <1>6, <2>1, <2>2, <2>3 DEF Destroy
<1>7. CASE User
  BY <1>2, <1>7 DEF CardPlaces, At, Goto, Require, Fail, stays, devs, Running, Places, Starting,
                    Registering, Enumerating, CardStarting, UserMode, CardEnding, Unregistering,
                    Restoring, Stopped, User, syscall, sysret, user_fault,
                    restore_original_context, read_key
<1>8. CASE Interrupt \/ Spurious \/ Devices \/ Report
  <2>1. Aside
    BY <1>8, AsideSteps
  <2>2. nic'.device = nic.device /\ pic'.mask = pic.mask /\ pci' = pci /\ irq_handlers' = irq_handlers
    BY <2>1 DEF Aside
  <2>3. (pc' = pc /\ Running) \/ ~Running'
    BY <2>1 DEF Aside
  <2> QED
    BY <2>2, <2>3 DEF CardHandler, Line
<1> QED
  BY <1>1, <1>3, <1>4, <1>5, <1>6, <1>7, <1>8, Steps

LEMMA PutBackStep == ASSUME IInv, Next PROVE PutBack'
<1> USE DEF IInv, Ordered
<1>1. CASE Enumerate
  BY <1>1, EnumerationApart DEF PutBack, Places, Starting, Registering, Enumerating, CardStarting,
                                UserMode, CardEnding, Unregistering, Restoring, Stopped
<1>2. CASE SetUp \/ Register \/ User
  <2>1. /\ pc \in Starting \cup Registering \cup Enumerating \cup CardStarting \cup UserMode
        /\ pc' \in Starting \cup Registering \cup Enumerating \cup CardStarting \cup UserMode \/ ~Running'
    <3>1. CASE SetUp
      BY <3>1 DEF At, Goto, Require, Fail, stays, devs, Running, Places, Starting, Registering,
                  Enumerating, CardStarting, UserMode, CardEnding, Unregistering, Restoring,
                  Stopped, SetUp, cpu_init, construct_mm, isr_init, NoCard, i825x_ethernet_device,
                  reset, Publish, Network, syscall_enabler, switch_to
    <3>2. CASE Register
      BY <3>2 DEF At, Goto, Require, Fail, stays, devs, Running, Places, Starting, Registering,
                  Enumerating, CardStarting, UserMode, CardEnding, Unregistering, Restoring,
                  Stopped, Register, register_irq_handler, SetHandler, pic_unmask_irq
    <3>3. CASE User
      BY <3>3 DEF At, Goto, Require, Fail, stays, devs, Running, Places, Starting, Registering,
                  Enumerating, CardStarting, UserMode, CardEnding, Unregistering, Restoring,
                  Stopped, User, syscall, sysret, user_fault, restore_original_context, read_key
    <3> QED
      BY <1>2, <3>1, <3>2, <3>3
  <2> QED
    BY <2>1 DEF PutBack, Places, Starting, Registering, Enumerating, CardStarting, UserMode,
                CardEnding, Unregistering, Restoring, Stopped
<1>3. CASE Unregister
  <2>1. cpu' = cpu /\ Running /\ pc \in CardEnding \cup Unregistering /\ (pc' \in CardEnding \cup Unregistering \/ ~Running')
    BY <1>3 DEF At, Goto, Require, Fail, stays, devs, Running, CardEnding, Unregistering,
                Unregister, Release, pic_mask_irq, ClearHandler
  <2> QED
    BY <2>1 DEF PutBack, Places, Starting, Registering, Enumerating, CardStarting, UserMode,
                CardEnding, Unregistering, Restoring, Stopped
<1>4. CASE Destroy
  <2>1. CASE Leave
    <3>1. cpu' = [cpu EXCEPT !.sce = FALSE] /\ (pc' \in {"kbd off", "card off"} \/ ~Running')
      BY <2>1 DEF Leave, At, Goto, Require, Fail, stays, devs, Running
    <3> QED
      BY <3>1 DEF TypeOK, Processors, PutBack, Places, Starting, Registering, Enumerating,
                  CardStarting, UserMode, CardEnding, Unregistering, Restoring, Stopped
  <2>2. CASE CardOff
    BY <2>2 DEF CardOff, PutBack, At, Goto, Require, Fail, stays, devs, Running, Places, Starting,
                Registering, Enumerating, CardStarting, UserMode, CardEnding, Unregistering,
                Restoring, Stopped
  <2>3. CASE IsrOff
    <3>1. /\ cpu' = [cpu EXCEPT !.rflag_if = FALSE, !.idt = "old"] /\ pc = "isr off" /\ isr = None /\ Running
          /\ isr' = isr /\ irq_handlers' = irq_handlers
          /\ (pc' = "pic off" /\ \A irq \in Irqs : irq_handlers[irq] = None) \/ ~Running'
      BY <2>3 DEF IsrOff, At, Goto, Require, Fail, stays, devs, Running
    <3>2. cpu'.rflag_if = FALSE /\ cpu'.idt = "old" /\ cpu'.sce = cpu.sce
      BY <3>1 DEF TypeOK, Processors
    <3> QED
      BY <3>1, <3>2 DEF PutBack, Places, Starting, Registering, Enumerating, CardStarting,
                        UserMode, CardEnding, Unregistering, Restoring, Stopped
  <2>4. CASE PicOff
    <3>1. /\ pc = "pic off" /\ Running /\ (pc' = "mm off" \/ ~Running')
          /\ cpu' = cpu /\ isr' = isr /\ irq_handlers' = irq_handlers /\ saved' = saved
          /\ pic'.offset = "bios" /\ pic'.mask = saved.mask
      BY <2>4 DEF PicOff, pic_remap, TypeOK, Controllers, At, Goto, Require, Fail, stays, devs,
                  Running
    <3> QED
      BY <3>1 DEF PutBack, Places, Starting, Registering, Enumerating, CardStarting, UserMode,
                  CardEnding, Unregistering, Restoring, Stopped
  <2>5. CASE MmOff \/ CpuOff
    <3>1. /\ Running /\ isr' = isr /\ irq_handlers' = irq_handlers /\ saved' = saved /\ pic' = pic
          /\ cpu'.idt = cpu.idt /\ cpu'.sce = cpu.sce /\ cpu'.rflag_if = cpu.rflag_if
          /\ \/ pc = "mm off" /\ pc' = "cpu off" /\ cpu'.cr3 = "old"
             \/ pc = "cpu off" /\ pc' = "done" /\ cpu'.cr3 = cpu.cr3 /\ cpu'.gdt = "old" /\ cpu'.nxe = FALSE
      BY <2>5 DEF MmOff, CpuOff, TypeOK, Processors, At, Goto, Require, Fail, stays, devs, Running
    <3> QED
      BY <3>1 DEF PutBack, Places, Starting, Registering, Enumerating, CardStarting, UserMode,
                  CardEnding, Unregistering, Restoring, Stopped
  <2> QED
    BY <1>4, <2>1, <2>2, <2>3, <2>4, <2>5 DEF Destroy
<1>5. CASE Interrupt \/ Spurious \/ Devices \/ Report
  <2>1. Aside
    BY <1>5, AsideSteps
  <2>2. SUFFICES ASSUME Running' PROVE PutBack'
    BY DEF PutBack
  <2>3. /\ pc' = pc /\ Running /\ saved' = saved /\ irq_handlers' = irq_handlers
        /\ pic'.offset = pic.offset /\ pic'.mask = pic.mask
        /\ cpu'.idt = cpu.idt /\ cpu'.sce = cpu.sce /\ cpu'.cr3 = cpu.cr3 /\ cpu'.gdt = cpu.gdt /\ cpu'.nxe = cpu.nxe
    BY <2>1, <2>2 DEF Aside
  <2>4. isr = None /\ ~cpu.rflag_if => isr' = None /\ ~cpu'.rflag_if
    BY <1>5, <2>2 DEF Interrupt, Deliver, Handle, EndOfInterrupt, Spurious, Devices, Report, Fail,
                      Running, StopsOnce, Stopped
  <2> QED
    BY <2>3, <2>4 DEF PutBack
<1> QED
  BY <1>1, <1>2, <1>3, <1>4, <1>5, Steps

(***************************************************************************)
(* Requests.                                                               *)
(***************************************************************************)

\* The end of interrupt of a line that alone is in service leaves none there.
LEMMA EoiEnds ==
    ASSUME NEW irq \in Irqs
    PROVE  pic_send_eoi({irq} \cup (IF irq >= 8 THEN {Cascade} ELSE {}), irq) = {}
<1>1. \A x \in Irqs : EoiTo({x}) = {}
  <2>1. \A x \in Irqs : Top({x}) \in {x}
    <3>1. ASSUME NEW x \in Irqs PROVE \E s \in {x} : \A t \in {x} : Rank(s) <= Rank(t)
      <4>1. Rank(x) <= Rank(x)
        BY DEF Rank, Irqs, Cascade
      <4> QED
        BY <4>1
    <3> QED
      BY <3>1 DEF Top
  <2> QED
    BY <2>1 DEF EoiTo
<1>2. EoiTo({}) = {}
  BY DEF EoiTo
<1>3. CASE irq >= 8
  <2>1. {s \in {irq, Cascade} : s >= 8} = {irq} /\ {s \in {irq, Cascade} : s < 8} = {Cascade}
    BY <1>3 DEF Irqs, Cascade
  <2>2. EoiTo({irq}) = {} /\ EoiTo({Cascade}) = {}
    <3>1. Cascade \in Irqs
      BY DEF Irqs, Cascade
    <3> QED
      BY <1>1, <3>1
  <2>3. {irq} \cup (IF irq >= 8 THEN {Cascade} ELSE {}) = {irq, Cascade}
    BY <1>3
  <2>4. pic_send_eoi({irq, Cascade}, irq) = {}
    BY <1>3, <2>1, <2>2 DEF pic_send_eoi
  <2> QED
    BY <2>3, <2>4
<1>4. CASE ~(irq >= 8)
  <2>1. {s \in {irq} : s >= 8} = {} /\ {s \in {irq} : s < 8} = {irq}
    BY <1>4 DEF Irqs
  <2> QED
    BY <1>1, <1>2, <1>4, <2>1 DEF pic_send_eoi
<1> QED
  BY <1>3, <1>4

LEMMA ServingStep == ASSUME IInv, Next PROVE Serving'
<1> USE DEF IInv, Ordered, stays, devs, Running
<1>1. CASE Enumerate
  BY <1>1, EnumerationApart DEF Serving
<1>2. CASE SetUp
  <2>1. CASE isr_init
    BY <2>1 DEF isr_init, pic_remap, At, TypeOK, Controllers, Serving
  <2>2. CASE ~isr_init
    BY <1>2, <2>2 DEF Serving, At, SetUp, cpu_init, construct_mm, NoCard, i825x_ethernet_device,
                      reset, Publish, Network, syscall_enabler, switch_to
  <2> QED
    BY <2>1, <2>2
<1>3. CASE Register \/ Unregister
  <2>1. pic'.service = pic.service /\ isr' = isr /\ Running
    BY <1>3 DEF TypeOK, Controllers, At, Register, register_irq_handler, SetHandler,
                pic_unmask_irq, Unregister, Release, pic_mask_irq, ClearHandler
  <2> QED
    BY <2>1 DEF Serving
<1>4. CASE Destroy
  <2>1. CASE PicOff
    BY <2>1 DEF PicOff, pic_remap, At, TypeOK, Controllers, Serving
  <2>2. CASE ~PicOff
    BY <1>4, <2>2 DEF Serving, At, Destroy, Leave, CardOff, IsrOff, MmOff, CpuOff
  <2> QED
    BY <2>1, <2>2
<1>5. CASE User
  BY <1>5 DEF Serving, At, User, syscall, sysret, user_fault, restore_original_context, read_key
<1>6. CASE Interrupt
  <2>1. ASSUME NEW irq \in Irqs, Deliver(irq) PROVE Serving'
    <3>1. pic.service = {} /\ pic'.service = pic.service \cup {irq} \cup (IF irq >= 8 THEN {Cascade} ELSE {})
      BY <2>1 DEF Deliver, Serving, TypeOK, Controllers
    <3>2. isr' = irq \/ ~Running'
      BY <2>1 DEF Deliver, Fail
    <3> QED
      BY <3>1, <3>2, LinesExist DEF Serving
  <2>2. CASE Handle
    BY <2>2 DEF Handle, Serving
  <2>3. CASE EndOfInterrupt
    <3>1. isr \in Irqs /\ isr' = None /\ pic.service = {isr} \cup (IF isr >= 8 THEN {Cascade} ELSE {})
      BY <2>3 DEF EndOfInterrupt, Serving, TypeOK
    <3>2. pic'.service = pic_send_eoi(pic.service, isr)
      BY <2>3 DEF EndOfInterrupt, TypeOK, Controllers
    <3> QED
      BY <3>1, <3>2, EoiEnds DEF Serving
  <2> QED
    BY <1>6, <2>1, <2>2, <2>3 DEF Interrupt
<1>7. CASE Spurious \/ Report
  BY <1>7 DEF Spurious, Report, Fail, Serving, StopsOnce, Stopped
<1>8. CASE Devices
  <2>1. pic'.service = pic.service /\ isr' = isr /\ Running
    BY <1>8 DEF Devices, Tick, Key, CardEvent, TypeOK, Controllers
  <2> QED
    BY <2>1 DEF Serving
<1> QED
  BY <1>1, <1>2, <1>3, <1>4, <1>5, <1>6, <1>7, <1>8, Steps

LEMMA ByteStep == ASSUME IInv, Next PROVE ByteSignalled'
<1> USE DEF IInv, Ordered, Running, stays, devs
<1>1. ASSUME kbd'.full = kbd.full, kbd'.stale = kbd.stale, isr' = isr, step' = step, Running,
             KbdIrq \in pic.latched => KbdIrq \in pic'.latched,
             pc \in {"mm off", "cpu off"} => pc' \in {"cpu off", "done"} \/ ~Running' \/ pc' = pc,
             pc = "done" => pc' = "done"
      PROVE  ByteSignalled'
  BY <1>1 DEF ByteSignalled
<1>2. CASE Enumerate
  <2>1. pc \notin {"mm off", "cpu off", "done"}
    BY <1>2, EnumerationApart DEF Enumerating
  <2> QED
    BY <1>1, <1>2, <2>1, EnumerationApart
<1>3. CASE SetUp
  <2>1. CASE isr_init
    BY <2>1 DEF isr_init, TypeOK, Keyboards, ByteSignalled
  <2>2. CASE Network
    <3>1. kbd'.full = kbd.full /\ kbd'.stale = kbd.stale
      BY <2>2 DEF Network, TypeOK, Keyboards
    <3> QED
      BY <1>1, <2>2, <3>1 DEF Network, At
  <2>3. CASE ~isr_init /\ ~Network
    BY <1>1, <1>3, <2>3 DEF At, SetUp, cpu_init, construct_mm, NoCard, i825x_ethernet_device,
                            reset, Publish, syscall_enabler, switch_to
  <2> QED
    BY <2>1, <2>2, <2>3
<1>4. CASE Register \/ Unregister
  <2>1. kbd' = kbd /\ pic'.latched = pic.latched /\ isr' = isr /\ step' = step /\ Running
    BY <1>4 DEF TypeOK, Controllers, At, Register, register_irq_handler, SetHandler,
                pic_unmask_irq, Unregister, Release, pic_mask_irq, ClearHandler
  <2>2. pc \notin {"mm off", "cpu off", "done"}
    BY <1>4 DEF At, Register, register_irq_handler, SetHandler, pic_unmask_irq, Unregister,
                Release, pic_mask_irq, ClearHandler
  <2> QED
    BY <1>1, <2>1, <2>2
<1>5. CASE Destroy
  BY <1>5 DEF ByteSignalled, At, Goto, Require, Fail, Destroy, Leave, CardOff, IsrOff, PicOff,
              MmOff, CpuOff
<1>6. CASE User
  <2>1. kbd'.full = kbd.full /\ kbd'.stale = kbd.stale
    BY <1>6 DEF TypeOK, Keyboards, User, syscall, sysret, user_fault, restore_original_context,
                read_key
  <2> QED
    BY <1>1, <1>6, <2>1 DEF At, User, syscall, sysret, user_fault, restore_original_context,
                            read_key
<1>7. CASE Interrupt
  <2>1. ASSUME NEW irq \in Irqs, Deliver(irq) PROVE ByteSignalled'
    <3>1. pic'.latched = pic.latched \ {irq} /\ isr = None
      BY <2>1 DEF Deliver, TypeOK, Controllers
    <3>2. (isr' = irq /\ step' = "handler" /\ pc' = pc) \/ ~Running'
      BY <2>1 DEF Deliver, Fail
    <3>3. kbd' = kbd /\ Running
      BY <2>1 DEF Deliver
    <3> QED
      BY <3>1, <3>2, <3>3, LinesExist DEF ByteSignalled
  <2>2. CASE Handle
    <3>1. CASE isr = KbdIrq
      <4>1. irq_handlers[isr] \in {"kbd", None}
        BY <2>2, <3>1 DEF Handle, KbdHandler
      <4>2. kbd'.full = FALSE \/ ~Running'
        BY <2>2, <4>1 DEF Handle, Fail, KeyByte, TypeOK, Keyboards
      <4> QED
        BY <4>2 DEF ByteSignalled
    <3>2. CASE isr # KbdIrq
      <4>1. /\ isr' = isr /\ pic' = pic /\ (pc' = pc \/ ~Running') /\ Running
            /\ (kbd' = kbd \/ kbd'.full = FALSE)
        BY <2>2 DEF Handle, Fail, KeyByte, TypeOK, Keyboards
      <4> QED
        BY <3>2, <4>1 DEF ByteSignalled
    <3> QED
      BY <3>1, <3>2
  <2>3. CASE EndOfInterrupt
    <3>1. pic'.latched = pic.latched
      BY <2>3 DEF EndOfInterrupt, TypeOK, Controllers
    <3> QED
      BY <2>3, <3>1 DEF EndOfInterrupt, ByteSignalled
  <2> QED
    BY <1>7, <2>1, <2>2, <2>3 DEF Interrupt
<1>8. CASE Spurious \/ Report
  BY <1>8 DEF Spurious, Report, Fail, ByteSignalled, StopsOnce, Stopped
<1>9. CASE Devices
  <2>1. CASE Key
    <3>1. KbdIrq \in pic'.latched
      BY <2>1 DEF Key, TypeOK, Controllers
    <3> QED
      BY <3>1 DEF ByteSignalled
  <2>2. CASE Tick \/ CardEvent
    <3>1. kbd' = kbd /\ (KbdIrq \in pic.latched => KbdIrq \in pic'.latched)
      BY <2>2 DEF Tick, CardEvent, TypeOK, Controllers
    <3> QED
      BY <1>1, <1>9, <3>1 DEF Devices
  <2> QED
    BY <1>9, <2>1, <2>2 DEF Devices
<1> QED
  BY <1>2, <1>3, <1>4, <1>5, <1>6, <1>7, <1>8, <1>9, Steps

(***************************************************************************)
(* The lists of the enumeration.                                           *)
(***************************************************************************)

\* Everything else leaves what has been found, and neither leads there
\* nor happens there.
LEMMA Elsewhere ==
    ASSUME TypeOK, StopsOnce, Next, ~Enumerate
    PROVE  /\ UNCHANGED <<machine, pci, acpi>>
           /\ Running' => /\ Running
                          /\ pc' = pc \/ (pc \notin Enumerating \ {"card"} /\ pc' \notin Enumerating \ {"pci"})
           /\ nic'.device = nic.device \/ i825x_ethernet_device
<1> USE DEF At, Goto, Require, Fail, stays, devs, Running, Enumerating
<1>1. CASE SetUp
  <2>1. CASE i825x_ethernet_device
    BY <2>1 DEF i825x_ethernet_device
  <2>2. CASE reset \/ Publish
    BY <2>2 DEF TypeOK, Cards, reset, Publish
  <2>3. CASE ~i825x_ethernet_device /\ ~reset /\ ~Publish
    BY <1>1, <2>3 DEF SetUp, cpu_init, construct_mm, isr_init, NoCard, Network, syscall_enabler, switch_to
  <2> QED
    BY <2>1, <2>2, <2>3
<1>2. CASE Register \/ User
  BY <1>2 DEF Register, register_irq_handler, SetHandler, pic_unmask_irq, User, syscall, sysret,
              user_fault, restore_original_context, read_key
<1>3. CASE Unregister \/ Destroy
  BY <1>3 DEF TypeOK, Cards, Unregister, Release, pic_mask_irq, ClearHandler, Destroy, Leave,
              CardOff, IsrOff, PicOff, MmOff, CpuOff
<1>4. CASE Interrupt \/ Spurious \/ Devices \/ Report
  BY <1>4, AsideSteps DEF Aside
<1> QED
  BY <1>1, <1>2, <1>3, <1>4, Steps

LEMMA OtherSteps == ASSUME IInv, Next PROVE Listed' /\ WindowShut'
<1> USE DEF IInv, Ordered
<1>1. CASE Enumerate
  BY <1>1, EnumerationApart
<1>2. CASE ~Enumerate
  BY <1>2, Elsewhere DEF Listed, WindowShut, Enumerating
<1> QED
  BY <1>1, <1>2

(***************************************************************************)
(* Base address registers.                                                 *)
(***************************************************************************)

\* The turns of read_bars' loop, from none to all.
FirstTurn(regs) == [regs |-> regs, res |-> <<>>, skip |-> FALSE, ok |-> TRUE]
IsTurns(f, regs, n) ==
    /\ f[0] = FirstTurn(regs)
    /\ \A i \in 1 .. n : f[i] = ReadBar(f[i - 1], i)

LEMMA TurnsExist == ASSUME NEW regs, NEW n \in Nat PROVE \E f : IsTurns(f, regs, n)
<1> DEFINE Bad == {m \in Nat : ~ \E f : IsTurns(f, regs, m)}
<1>1. SUFFICES ASSUME Bad # {} PROVE FALSE
  OBVIOUS
<1>2. PICK m \in Bad : \A x \in Bad : m <= x
  BY <1>1, LeastElement
<1>3. m # 0
  <2>1. IsTurns([i \in {0} |-> FirstTurn(regs)], regs, 0)
    BY DEF IsTurns
  <2> QED
    BY <1>2, <2>1
<1>4. PICK f : IsTurns(f, regs, m - 1)
  BY <1>2, <1>3
<1> DEFINE g == [i \in 0 .. m |-> IF i = m THEN ReadBar(f[m - 1], m) ELSE f[i]]
<1>5. IsTurns(g, regs, m)
  <2>1. g[0] = FirstTurn(regs) /\ g[m] = ReadBar(f[m - 1], m)
    BY <1>2, <1>3, <1>4 DEF IsTurns
  <2>2. \A i \in 0 .. m - 1 : g[i] = f[i]
    BY <1>2
  <2>3. \A i \in 1 .. m - 1 : g[i] = ReadBar(g[i - 1], i)
    <3> TAKE i \in 1 .. m - 1
    <3>1. f[i] = ReadBar(f[i - 1], i)
      BY <1>4 DEF IsTurns
    <3>2. g[i] = f[i] /\ g[i - 1] = f[i - 1]
      BY <1>2, <2>2
    <3> QED
      BY <3>1, <3>2
  <2>4. g[m] = ReadBar(g[m - 1], m)
    BY <1>2, <1>3, <2>1, <2>2
  <2> HIDE DEF g
  <2> QED
    BY <1>2, <2>1, <2>3, <2>4 DEF IsTurns
<1> QED
  BY <1>2, <1>5

LEMMA ReadTurns ==
    ASSUME NEW regs
    PROVE  \E f : IsTurns(f, regs, NumBars) /\ read_bars(regs) = f[NumBars]
<1> DEFINE F(h) == [i \in 0 .. NumBars |-> IF i = 0 THEN FirstTurn(regs) ELSE ReadBar(h[i - 1], i)]
           after == CHOOSE h : h = F(h)
<1>1. read_bars(regs) = after[NumBars]
  BY DEF read_bars, FirstTurn
<1>2. NumBars \in Nat
  BY PciAssumption
<1>3. PICK f : IsTurns(f, regs, NumBars)
  BY <1>2, TurnsExist
<1> DEFINE g == [i \in 0 .. NumBars |-> f[i]]
<1>4. g = F(g)
  <2>1. \A i \in 0 .. NumBars : g[i] = F(g)[i]
    <3> TAKE i \in 0 .. NumBars
    <3>1. CASE i = 0
      BY <1>2, <1>3, <3>1 DEF IsTurns
    <3>2. CASE i # 0
      <4>1. i \in 1 .. NumBars /\ i - 1 \in 0 .. NumBars
        BY <1>2, <3>2
      <4>2. f[i] = ReadBar(f[i - 1], i)
        BY <1>3, <4>1 DEF IsTurns
      <4> QED
        BY <3>2, <4>1, <4>2
    <3> QED
      BY <3>1, <3>2
  <2> QED
    BY <2>1, Zenon
<1>5. after = F(after)
  <2> HIDE DEF F, g
  <2> QED
    BY <1>4
<1>6. IsTurns(after, regs, NumBars)
  <2> HIDE DEF after
  <2>1. after[0] = FirstTurn(regs)
    BY <1>2, <1>5
  <2>2. \A i \in 1 .. NumBars : after[i] = ReadBar(after[i - 1], i)
    BY <1>2, <1>5
  <2> QED
    BY <2>1, <2>2 DEF IsTurns
<1> QED
  BY <1>1, <1>6

\* Writing changes nothing but the value, and that to what the register makes
\* of it, whatever it was.
LEMMA Sizing == ASSUME NEW bar \in Registers, Holds(bar) PROVE Sized(bar) = bar
<1> DEFINE Kept(v) == ((v % bar.range) \div bar.size) * bar.size + bar.flags
           full == write_config_dword(bar, AllOnes)
<1>1. full = [range |-> bar.range, size |-> bar.size, flags |-> bar.flags, value |-> Kept(AllOnes)]
  BY DEF write_config_dword, Registers
<1>2. Sized(bar) = [range |-> bar.range, size |-> bar.size, flags |-> bar.flags, value |-> Kept(bar.value)]
  <2> HIDE DEF full
  <2>1. Sized(bar) = write_config_dword(full, bar.value)
    BY DEF Sized, Restored, full
  <2> QED
    BY <1>1, <2>1 DEF write_config_dword
<1>3. write_config_dword(bar, bar.value) =
        [range |-> bar.range, size |-> bar.size, flags |-> bar.flags, value |-> Kept(bar.value)]
  BY DEF write_config_dword, Registers
<1> QED
  BY <1>2, <1>3 DEF Holds

\* The bits that stick tell the size that the register decodes.
LEMMA SizeRead ==
    ASSUME NEW bar \in Registers, Decoding(bar), bar.value # 0, ~bar_is_io(bar.value)
    PROVE  BarSize(bar.value, Probe(bar)) = Decodes(bar)
<1> DEFINE P == bar.range
           s == bar.size
<1>1. P \in Nat \ {0} /\ s \in Nat \ {0} /\ bar.flags \in 0 .. 15 /\ s % 16 = 0 /\ P % s = 0
  <2>1. bar.range \in Nat \ {0} /\ bar.size \in Nat \ {0} /\ bar.flags \in Nat
    BY DEF Registers
  <2>2. bar.flags < 16 /\ bar.size % 16 = 0 /\ bar.range % bar.size = 0
    BY Zenon DEF Decoding
  <2> QED
    BY ONLY <2>1, <2>2
<1>2. 2 ^ RegBits = P
  BY Zenon DEF Decoding
<1>3. Decodes(bar) = IF s = P THEN 0 ELSE s
  BY DEF Decodes
<1>4. Probe(bar) = (((P - 1) % P) \div s) * s + bar.flags
  <2>1. AllOnes = P - 1
    BY <1>2, Zenon DEF AllOnes
  <2> HIDE <1>2
  <2>2. Probe(bar) = ((AllOnes % P) \div s) * s + bar.flags
    BY DEF Probe, write_config_dword, Registers
  <2> QED
    BY <2>1, <2>2, Zenon
<1> HIDE DEF P, s
<1>5. PICK p \in Nat : P = s * p + s
  <2>1. PICK q \in Nat : P = s * q
    <3>1. P = s * (P \div s) + (P % s) /\ P \div s \in Nat
      BY <1>1, Division
    <3> QED
      BY <1>1, <3>1
  <2>2. PICK p \in Nat : q = p + 1
    <3>1. q # 0
      BY <1>1, <2>1
    <3> QED
      BY <3>1
  <2>3. s * (p + 1) = s * p + s
    BY <1>1
  <2> QED
    BY <2>1, <2>2, <2>3
<1>6. s * p \in Nat /\ s <= P
  <2>1. s * p \in Nat
    BY <1>1
  <2> QED
    BY <1>1, <1>5, <2>1
<1>7. ((P - 1) % P) \div s = p
  <2>1. (P - 1) % P = P - 1
    BY <1>1
  <2>2. P - 1 = s * p + (s - 1) /\ s - 1 \in 0 .. s - 1
    BY <1>1, <1>5, <1>6
  <2>3. (s * p + (s - 1)) \div s = p
    BY <1>1, <2>2, Quotient
  <2> QED
    BY <2>1, <2>2, <2>3, Zenon
<1>8. Probe(bar) = s * p + bar.flags
  <2>1. p * s = s * p
    BY <1>1
  <2> QED
    BY <1>4, <1>7, <2>1, Zenon
<1>9. Probe(bar) % 16 = bar.flags
  <2>1. s = 16 * (s \div 16) /\ s \div 16 \in Nat
    BY <1>1
  <2>2. PICK k \in Nat : s = 16 * k
    BY <2>1
  <2>3. s * p = 16 * (k * p) /\ k * p \in Nat
    BY <2>2
  <2>4. (16 * (k * p) + bar.flags) % 16 = bar.flags
    BY <1>1, <2>3, Quotient
  <2> QED
    BY <1>8, <2>3, <2>4, Zenon
<1>10. BarSize(bar.value, Probe(bar)) = s % P
  <2> DEFINE bits == Probe(bar) - (Probe(bar) % 16)
  <2>1. BarSize(bar.value, Probe(bar)) = (2 ^ RegBits - bits) % 2 ^ RegBits
    BY Zenon DEF BarSize
  <2>2. bits = P - s
    BY <1>1, <1>5, <1>6, <1>8, <1>9
  <2>3. P - (P - s) = s
    BY <1>1
  <2> HIDE DEF bits
  <2> QED
    BY <1>2, <2>1, <2>2, <2>3, Zenon
<1>11. s % P = IF s = P THEN 0 ELSE s
  <2>1. P \in Nat \ {0} /\ s \in Nat /\ s <= P
    BY <1>1, <1>6
  <2> QED
    BY ONLY <2>1
<1> QED
  BY <1>3, <1>10, <1>11, Zenon

\* What has been read after the turn i: the registers are as they were, and the
\* first that is used is the first of the result.
BarFound(regs, i) == [address |-> regs[i].value, size |-> BarSize(regs[i].value, Probe(regs[i]))]

TurnSound(a, regs, i) ==
    /\ DOMAIN a = {"regs", "res", "skip", "ok"} /\ a.regs = regs
    /\ a.skip \in BOOLEAN /\ a.ok \in BOOLEAN
    /\ a.res \in Seq({BarFound(regs, j) : j \in 1 .. NumBars})
    /\ BarsFit(regs) => a.ok
    /\ a.ok /\ a.skip => i # NumBars /\ regs[i + 1].value = 0
    /\ a.ok => \A j \in 1 .. i : FirstUsed(regs, j) => a.res # <<>> /\ a.res[1] = BarFound(regs, j)
    /\ a.ok /\ (\A j \in 1 .. i : regs[j].value = 0) => a.res = <<>>

\* Another turn.
LEMMA NextTurn ==
    ASSUME NEW regs \in [1 .. NumBars -> Registers], \A j \in 1 .. NumBars : Holds(regs[j]),
           NEW i \in 1 .. NumBars, NEW a, TurnSound(a, regs, i - 1)
    PROVE  TurnSound(ReadBar(a, i), regs, i)
<1> DEFINE orig == regs[i].value
           wide == IsWide(orig)
           b == ReadBar(a, i)
           e == BarFound(regs, i)
<1>0. SUFFICES TurnSound(b, regs, i)
  OBVIOUS
<1>1. NumBars \in Nat /\ i \in Nat /\ i - 1 \in Nat /\ i \in DOMAIN regs /\ regs[i] \in Registers
  BY PciAssumption
<1>2. a.regs = regs /\ a.skip \in BOOLEAN /\ a.ok \in BOOLEAN
  BY DEF TurnSound
<1>3. /\ a.res \in Seq({BarFound(regs, j) : j \in 1 .. NumBars})
      /\ BarsFit(regs) => a.ok
      /\ a.ok /\ a.skip => regs[i].value = 0
      /\ a.ok => \A j \in 1 .. i - 1 : FirstUsed(regs, j) => a.res # <<>> /\ a.res[1] = BarFound(regs, j)
      /\ a.ok /\ (\A j \in 1 .. i - 1 : regs[j].value = 0) => a.res = <<>>
  <2>1. (i - 1) + 1 = i
    BY <1>1
  <2> QED
    BY <2>1 DEF TurnSound
<1>4. CASE ~a.ok
  <2>1. b = a /\ ~BarsFit(regs)
    BY <1>3, <1>4, Zenon DEF ReadBar
  <2> HIDE DEF b
  <2> QED
    BY <1>2, <1>3, <1>4, <2>1 DEF TurnSound
<1>5. ASSUME a.ok, orig = 0 PROVE \A j \in 1 .. i : FirstUsed(regs, j) => j \in 1 .. i - 1
  BY <1>1, <1>5 DEF FirstUsed
<1>6. \A j \in 1 .. i - 1 : j \in 1 .. i
  BY <1>1
<1>7. CASE a.ok /\ (a.skip \/ orig = 0)
  <2>1. orig = 0
    BY <1>3, <1>7
  <2>2. b = IF a.skip THEN [a EXCEPT !.skip = FALSE] ELSE a
    BY <1>2, <1>7, <2>1, Zenon DEF ReadBar
  <2>3. DOMAIN b = DOMAIN a /\ b.regs = a.regs /\ b.res = a.res /\ b.skip = FALSE /\ b.ok = a.ok
    BY <1>2, <2>2 DEF TurnSound
  <2> HIDE DEF b
  <2> QED
    BY <1>2, <1>3, <1>5, <1>6, <1>7, <2>1, <2>3 DEF TurnSound
<1>8. CASE a.ok /\ ~a.skip /\ orig # 0 /\ wide /\ ~WideOk(regs, i)
  <2>1. b = [a EXCEPT !.ok = FALSE]
    BY <1>2, <1>8, Zenon DEF ReadBar
  <2>2. ~BarsFit(regs)
    BY <1>8, Zenon DEF BarsFit
  <2>3. DOMAIN b = DOMAIN a /\ b.regs = a.regs /\ b.res = a.res /\ b.skip = a.skip /\ b.ok = FALSE
    BY <2>1 DEF TurnSound
  <2> HIDE DEF b
  <2> QED
    BY <1>2, <1>3, <2>2, <2>3 DEF TurnSound
<1>9. CASE a.ok /\ ~a.skip /\ orig # 0 /\ (wide => WideOk(regs, i))
  <2>1. [regs EXCEPT ![i] = Sized(@)] = regs
    BY <1>1, Sizing
  <2>2. wide => i + 1 \in 1 .. NumBars /\ regs[i + 1].value = 0 /\ [regs EXCEPT ![i + 1] = Sized(@)] = regs
    <3>1. SUFFICES ASSUME wide
                   PROVE  /\ i + 1 \in 1 .. NumBars /\ regs[i + 1].value = 0
                          /\ [regs EXCEPT ![i + 1] = Sized(@)] = regs
      OBVIOUS
    <3>2. i # NumBars /\ regs[i + 1].value = 0
      BY <1>9, <3>1 DEF WideOk
    <3>3. i + 1 \in 1 .. NumBars
      BY <1>1, <3>2
    <3> QED
      BY <3>2, <3>3, Sizing
  <2>3. b = [regs |-> regs, res |-> Append(a.res, e), skip |-> wide, ok |-> TRUE]
    <3>1. b = [regs |-> IF wide THEN [[a.regs EXCEPT ![i] = Sized(@)] EXCEPT ![i + 1] = Sized(@)]
                                ELSE [a.regs EXCEPT ![i] = Sized(@)],
               res |-> Append(a.res, [address |-> orig, size |-> BarSize(orig, Probe(a.regs[i]))]),
               skip |-> wide, ok |-> TRUE]
      BY <1>2, <1>9, Zenon DEF ReadBar
    <3> QED
      BY <1>2, <2>1, <2>2, <3>1, Zenon DEF BarFound
  <2>4. Append(a.res, e) \in Seq({BarFound(regs, j) : j \in 1 .. NumBars})
    BY <1>1, <1>3
  <2>5. \A j \in 1 .. i : FirstUsed(regs, j) =>
          Append(a.res, e) # <<>> /\ Append(a.res, e)[1] = BarFound(regs, j)
    <3> SUFFICES ASSUME NEW j \in 1 .. i, FirstUsed(regs, j)
                 PROVE  Append(a.res, e) # <<>> /\ Append(a.res, e)[1] = BarFound(regs, j)
      OBVIOUS
    <3> DEFINE S == {BarFound(regs, k) : k \in 1 .. NumBars}
    <3>1. a.res \in Seq(S)
      BY <1>3
    <3>2. CASE j = i
      <4>1. a.res = <<>>
        BY <1>3, <1>9, <3>2 DEF FirstUsed
      <4>2. Append(<<>>, e) # <<>> /\ Append(<<>>, e)[1] = e
        OBVIOUS
      <4> QED
        BY <3>2, <4>1, <4>2
    <3>3. CASE j \in 1 .. i - 1
      <4>1. a.res # <<>> /\ a.res[1] = BarFound(regs, j)
        BY <1>3, <1>9, <3>3
      <4> HIDE DEF S, e
      <4>2. Append(a.res, e) # <<>> /\ Append(a.res, e)[1] = a.res[1]
        BY <3>1, <4>1
      <4> QED
        BY <4>1, <4>2
    <3> QED
      BY <1>1, <3>2, <3>3
  <2>6. ~ \A j \in 1 .. i : regs[j].value = 0
    BY <1>1, <1>9
  <2>7. wide \in BOOLEAN /\ (wide => i # NumBars /\ regs[i + 1].value = 0)
    BY <1>9, <2>2 DEF IsWide, WideOk
  <2> HIDE DEF e, wide
  <2>8. b.regs = regs /\ b.res = Append(a.res, e) /\ b.skip = wide /\ b.ok = TRUE
    BY <2>3
  <2>9. DOMAIN b = {"regs", "res", "skip", "ok"}
    BY <2>3
  <2> HIDE DEF b
  <2> QED
    BY <2>4, <2>5, <2>6, <2>7, <2>8, <2>9, Zenon DEF TurnSound
<1> QED
  BY <1>2, <1>4, <1>7, <1>8, <1>9

\* read_bars leaves the registers as they were, accepts those of a fit
\* machine, and finds the one that is used first.
LEMMA BarsRead ==
    ASSUME NEW regs \in [1 .. NumBars -> Registers], \A j \in 1 .. NumBars : Holds(regs[j])
    PROVE  /\ read_bars(regs).regs = regs
           /\ BarsFit(regs) => read_bars(regs).ok
           /\ BarsFit(regs) => \A j \in 1 .. NumBars : FirstUsed(regs, j) =>
                read_bars(regs).res # <<>> /\ read_bars(regs).res[1] = BarFound(regs, j)
<1>1. PICK f : IsTurns(f, regs, NumBars) /\ read_bars(regs) = f[NumBars]
  BY ReadTurns
<1>2. NumBars \in Nat
  BY PciAssumption
<1>3. TurnSound(f[0], regs, 0)
  <2>1. f[0] = FirstTurn(regs)
    BY <1>1 DEF IsTurns
  <2>2. 0 # NumBars
    BY PciAssumption
  <2> QED
    BY <2>1, <2>2 DEF TurnSound, FirstTurn
<1> DEFINE Bad == {i \in 0 .. NumBars : ~TurnSound(f[i], regs, i)}
<1>4. Bad = {}
  <2>1. SUFFICES ASSUME Bad # {} PROVE FALSE
    OBVIOUS
  <2>2. Bad \in SUBSET Nat
    BY <1>2
  <2>3. PICK m \in Bad : \A x \in Bad : m <= x
    <3> HIDE DEF Bad
    <3> QED
      BY <2>1, <2>2, LeastElement
  <2>4. m \in 1 .. NumBars
    BY <1>2, <1>3, <2>3
  <2>5. TurnSound(f[m - 1], regs, m - 1)
    BY <1>2, <2>3, <2>4
  <2>6. f[m] = ReadBar(f[m - 1], m)
    BY <1>1, <2>4 DEF IsTurns
  <2>7. TurnSound(f[m], regs, m)
    BY <2>4, <2>5, <2>6, NextTurn
  <2> QED
    BY <2>3, <2>7
<1>5. TurnSound(read_bars(regs), regs, NumBars)
  BY <1>1, <1>2, <1>4
<1> QED
  BY <1>5 DEF TurnSound

(***************************************************************************)
(* Why the machine may stop: the invariant.  Flags is what the processor   *)
(* is in at each place, LinesOpen and Handlers which lines are open and    *)
(* who serves them, Served the interrupt in progress, Found what has been  *)
(* read from the buses, Reading where the walk over the tables is.         *)
(***************************************************************************)

TimerPlaces == {"timer unmask", "kbd", "timer off", "timer clear"} \cup KbdPlaces
TimerOpen == TimerPlaces \ {"timer unmask", "timer clear"}
KbdOpen == KbdPlaces \ {"kbd unmask", "kbd clear"}
CardOpen == CardPlaces \ {"card unmask", "irq clear"}
Outside == Starting \cup Restoring

\* Interrupts are off where the kernel's table is not loaded, and in user mode.
Flags ==
    Running =>
      /\ cpu.rflag_if <=> isr = None /\ pc \notin Outside \cup {"in user"}
      /\ isr # None => pc \notin Outside \cup {"in user"}
      /\ pc \in {"in user", "in kernel"} => saved.flags
      /\ pc \notin Outside => cpu.idt = "kernel" /\ pic.offset = "kernel"
      /\ cpu.sce <=> pc \in UserMode \ {"user"}

HasLine == nic.device # None /\ pc \in CardPlaces

OpenLines ==
    {Cascade} \cup (IF pc \in TimerOpen THEN {TimerIrq} ELSE {})
              \cup (IF pc \in KbdOpen THEN {KbdIrq} ELSE {})
              \cup (IF HasLine /\ pc \in CardOpen THEN {Line} ELSE {})

LinesOpen == Running /\ pc \notin Outside => pic.mask = Irqs \ OpenLines

Handlers ==
    Running =>
      /\ HasLine => Line \in Irqs \ {TimerIrq, KbdIrq} /\ (pc # "card unmask" => Line # Cascade)
      /\ irq_handlers[TimerIrq] = IF pc \in TimerPlaces THEN "timer" ELSE None
      /\ irq_handlers[KbdIrq] = IF pc \in KbdPlaces THEN "kbd" ELSE None
      /\ \A irq \in Irqs \ {TimerIrq, KbdIrq} :
           irq_handlers[irq] = IF HasLine /\ irq = Line THEN "nic" ELSE None

InHandler == isr # None /\ step = "handler"

Served ==
    Running =>
      /\ InHandler => irq_handlers[isr] # None
      /\ KbdIrq \in pic.latched \/ (InHandler /\ isr = KbdIrq) => kbd.full
      /\ KbdIrq \in pic.latched => ~(InHandler /\ isr = KbdIrq)
      /\ nic.line = machine.line

Found ==
    /\ pci.config = [a \in DOMAIN machine.functions |-> machine.functions[a].regs]
    /\ \A i \in DOMAIN pci.devices : \E a \in DOMAIN machine.functions :
         LET f == machine.functions[a]
             d == pci.devices[i]
         IN  f.header = 0 /\ d.id = f.id /\ d.line = f.line /\ d.bars = read_bars(f.regs).res
    /\ nic.device # None => pci.devices[nic.device].id = "i825x"

Root == machine.tables[Pointer(machine).rsdt]
Addresses == {EntriesOf(Root)[i] : i \in DOMAIN EntriesOf(Root)}
TablesListed == {machine.tables[p] : p \in Addresses}

\* The window through which the table at an address is copied.
WindowOf(phys) ==
    LET first == FirstWindow(phys)
        length == machine.tables[phys].length
    IN  IF TooSmall(first, length) THEN Window(phys, length) ELSE first

Looking == {"map", "grow", "copy"}
TablePlaces == Looking \cup {"rsdt", "entries", "tables", "dsdt"}

\* The root table is read, the ones that it lists, or the one that one of these
\* names.
ReadingRoot == acpi.back = "rsdt" /\ acpi.rest = <<Pointer(machine).rsdt>> /\ acpi.got = <<>>
ReadingEntries == acpi.back = "entries" /\ acpi.rest \in Seq(Addresses) /\ acpi.got \in Seq(TablesListed)
ReadingDsdt ==
    /\ acpi.back = "dsdt" /\ acpi.got \in Seq(TablesListed) /\ acpi.got # <<>>
    /\ match_structure(Head(acpi.got), "FACP") /\ acpi.rest = <<Head(acpi.got).dsdt>>

Reading ==
    Running =>
      /\ pc \in TablePlaces => Pointer(machine) # None
      /\ pc \notin TablePlaces => acpi.got = <<>>
      /\ pc \in Looking => ReadingRoot \/ (ReadingEntries /\ acpi.rest # <<>>) \/ ReadingDsdt
      /\ pc = "grow" => acpi.window = FirstWindow(Head(acpi.rest))
      /\ pc = "copy" => acpi.window = WindowOf(Head(acpi.rest))
      /\ pc = "rsdt" => acpi.got = <<Root>>
      /\ pc = "entries" => ReadingEntries
      /\ pc = "tables" => acpi.got \in Seq(TablesListed)
      /\ pc = "dsdt" => \E got \in Seq(TablesListed) : \E t : got # <<>> /\ acpi.got = Append(got, t)

SInv == Flags /\ LinesOpen /\ Handlers /\ Served /\ Found /\ Reading /\ OnlyKnownStops

\* The machine starts with interrupts off, nothing found and nothing read.
LEMMA InitialStops == Init => SInv
<1> SUFFICES ASSUME Init PROVE SInv
  OBVIOUS
<1> USE DEF Init
<1>1. Flags /\ LinesOpen /\ Handlers
  BY LinesExist DEF Flags, LinesOpen, Handlers, HasLine, Outside, Starting, Restoring, UserMode,
                    CardPlaces, CardStarting, CardEnding, TimerPlaces, KbdPlaces, Enumerating
<1>2. Served /\ Reading /\ OnlyKnownStops
  BY DEF Served, InHandler, Reading, TablePlaces, Looking, OnlyKnownStops
<1>3. Found
  BY DEF Found
<1> QED
  BY <1>1, <1>2, <1>3 DEF SInv

\* Interrupts, the two tables and system calls are turned on and off in step
\* with the places.
LEMMA FlagsStep == ASSUME IInv, SInv, Next PROVE Flags'
<1> USE DEF IInv, SInv, Ordered, Flags
<1>1. CASE Enumerate
  BY <1>1, EnumerationApart DEF Outside, Starting, Restoring, Enumerating, UserMode
<1>2. CASE SetUp
  <2>1. CASE isr_init
    BY <2>1 DEF isr_init, pic_remap, TypeOK, Processors, Controllers, At, Goto, stays, Running,
                Outside, Starting, Restoring, UserMode
  <2>2. CASE cpu_init \/ construct_mm
    BY <2>2 DEF cpu_init, construct_mm, TypeOK, Processors, At, Goto, Require, Fail, stays,
                Running, Outside, Starting, Restoring, UserMode
  <2>3. CASE NoCard \/ i825x_ethernet_device \/ reset \/ Publish \/ Network
    <3>1. /\ cpu' = cpu /\ pic' = pic /\ saved' = saved /\ isr' = isr /\ isr = None /\ Running
          /\ pc \in {"card", "reset", "publish", "net"}
          /\ ~Running' \/ pc' \in {"user", "card irq", "publish", "net"}
      BY <2>3 DEF NoCard, i825x_ethernet_device, reset, Publish, Network, At, Goto, Require, Fail,
                  stays, Running
    <3> QED
      BY <3>1 DEF Outside, Starting, Restoring, UserMode
  <2>4. CASE syscall_enabler \/ switch_to
    BY <2>4 DEF syscall_enabler, switch_to, TypeOK, Processors, At, Goto, Require, Fail, stays,
                Running, Outside, Starting, Restoring, UserMode
  <2> QED
    BY <1>2, <2>1, <2>2, <2>3, <2>4 DEF SetUp
<1>3. CASE Register \/ Unregister
  <2>1. /\ cpu' = cpu /\ pic'.offset = pic.offset /\ saved' = saved /\ isr' = isr /\ isr = None /\ Running
        /\ pc \in Registering \cup {"card irq", "card unmask"} \cup CardEnding \cup Unregistering
        /\ \/ ~Running'
           \/ pc' \in Registering \cup {"card unmask", "reset", "pci"} \cup CardEnding \cup Unregistering
    BY <1>3 DEF TypeOK, Controllers, At, Goto, Require, Fail, stays, Running, Registering,
                CardEnding, Unregistering, Register, register_irq_handler, SetHandler,
                pic_unmask_irq, Unregister, Release, pic_mask_irq, ClearHandler
  <2> QED
    BY <2>1 DEF Outside, Starting, Restoring, UserMode, Registering, CardEnding, Unregistering
<1>4. CASE Destroy
  <2>1. CASE Leave \/ CardOff \/ IsrOff
    BY <2>1 DEF Leave, CardOff, IsrOff, TypeOK, Processors, At, Goto, Require, Fail, stays,
                Running, Outside, Starting, Restoring, UserMode
  <2>2. CASE PicOff \/ MmOff \/ CpuOff
    BY <2>2 DEF PicOff, MmOff, CpuOff, TypeOK, Processors, At, Goto, stays, Running, Outside,
                Starting, Restoring, UserMode
  <2> QED
    BY <1>4, <2>1, <2>2 DEF Destroy
<1>5. CASE User
  BY <1>5 DEF User, syscall, sysret, user_fault, restore_original_context, read_key, TypeOK,
              Processors, At, Goto, Fail, stays, Running, Outside, Starting, Restoring, UserMode
<1>6. CASE Interrupt
  <2>1. ASSUME NEW irq \in Irqs, Deliver(irq) PROVE Flags'
    <3>1. Aside /\ cpu'.rflag_if = FALSE /\ Running /\ saved' = saved
      BY <1>6, <2>1, AsideSteps DEF Deliver, TypeOK, Processors, Running
    <3>2. cpu.rflag_if /\ isr = None /\ (isr' = irq \/ ~Running')
      BY <2>1 DEF Deliver, Fail, Running
    <3> QED
      BY <3>1, <3>2, LinesExist DEF Aside
  <2>2. CASE Handle
    BY <2>2 DEF Handle, Fail, Running
  <2>3. CASE EndOfInterrupt
    BY <2>3 DEF EndOfInterrupt, TypeOK, Processors, Controllers, Running
  <2> QED
    BY <1>6, <2>1, <2>2, <2>3 DEF Interrupt
<1>7. CASE Spurious \/ Report
  BY <1>7 DEF Spurious, Report, Fail, Running, StopsOnce, Stopped
<1>8. CASE Devices
  <2>1. Aside /\ cpu' = cpu /\ isr' = isr
    BY <1>8, AsideSteps DEF Devices
  <2> QED
    BY <2>1 DEF Aside
<1> QED
  BY <1>1, <1>2, <1>3, <1>4, <1>5, <1>6, <1>7, <1>8, Steps

(***************************************************************************)
(* Lines and handlers.                                                     *)
(***************************************************************************)

\* Steps between places that are alike, and do nothing to lines and handlers.
Alike(S) == pc \in S <=> pc' \in S

LEMMA SameLines ==
    ASSUME LinesOpen, Handlers, Running,
           pic'.mask = pic.mask, irq_handlers' = irq_handlers, nic'.device = nic.device,
           nic.device = None \/ (/\ pci' = pci /\ Alike(CardPlaces) /\ Alike(CardOpen)
                                 /\ pc = "card unmask" => pc' = "card unmask"),
           Alike(TimerPlaces), Alike(TimerOpen), Alike(KbdPlaces), Alike(KbdOpen),
           pc \in Outside => pc' \in Outside
    PROVE  LinesOpen' /\ Handlers'
<1>1. HasLine' = HasLine /\ (HasLine => Line' = Line /\ (pc # "card unmask" \/ pc' = "card unmask"))
  BY DEF HasLine, Line, Alike
<1>2. OpenLines' = OpenLines
  BY <1>1 DEF OpenLines, HasLine, Alike
<1>3. LinesOpen'
  BY <1>2 DEF LinesOpen
<1>4. Handlers'
  BY <1>1 DEF Handlers, Alike
<1> QED
  BY <1>3, <1>4

\* register_irq_handler opens the line of the handler that it takes.
LEMMA RegisterLines == ASSUME IInv, SInv, Register PROVE LinesOpen' /\ Handlers'
<1> USE LinesExist DEF IInv, SInv, Ordered
<1> DEFINE Kept == UNCHANGED <<pci, nic>>
<1>1. ASSUME SetHandler("timer", TimerIrq, "timer", "timer unmask") PROVE LinesOpen' /\ Handlers'
  <2>1. /\ pc = "timer" /\ Running /\ Kept /\ pic' = pic
        /\ Running' => /\ pc' = "timer unmask" /\ irq_handlers'[TimerIrq] = "timer"
                       /\ \A i \in Irqs : i # TimerIrq => irq_handlers'[i] = irq_handlers[i]
    BY <1>1, SetEffect
  <2>2. SUFFICES ASSUME Running' PROVE LinesOpen' /\ Handlers'
    BY DEF LinesOpen, Handlers
  <2>3. ~HasLine /\ ~HasLine' /\ OpenLines = {Cascade} /\ OpenLines' = {Cascade}
    BY <2>1, <2>2 DEF OpenLines, HasLine, TimerOpen, TimerPlaces, KbdOpen, KbdPlaces, CardPlaces,
                      Enumerating, CardStarting, UserMode, CardEnding
  <2>4. LinesOpen'
    BY <2>1, <2>3 DEF LinesOpen, Outside, Starting, Restoring
  <2>5. Handlers'
    BY <2>1, <2>2, <2>3 DEF Handlers, TimerPlaces, KbdPlaces, Enumerating, CardStarting, UserMode,
                            CardEnding
  <2> QED
    BY <2>4, <2>5
<1>2. ASSUME pic_unmask_irq("timer unmask", TimerIrq, "kbd") PROVE LinesOpen' /\ Handlers'
  <2>1. /\ pc = "timer unmask" /\ Running /\ Kept /\ irq_handlers' = irq_handlers
        /\ pic'.mask = pic.mask \ {TimerIrq} /\ (Running' => pc' = "kbd")
    BY <1>2, OpenEffect
  <2>2. SUFFICES ASSUME Running' PROVE LinesOpen' /\ Handlers'
    BY DEF LinesOpen, Handlers
  <2>3. ~HasLine /\ ~HasLine' /\ OpenLines = {Cascade} /\ OpenLines' = {Cascade, TimerIrq}
    BY <2>1, <2>2 DEF OpenLines, HasLine, TimerOpen, TimerPlaces, KbdOpen, KbdPlaces, CardPlaces,
                      Enumerating, CardStarting, UserMode, CardEnding
  <2>4. LinesOpen'
    BY <2>1, <2>3 DEF LinesOpen, Outside, Starting, Restoring
  <2>5. Handlers'
    BY <2>1, <2>2, <2>3 DEF Handlers, TimerPlaces, KbdPlaces, Enumerating, CardStarting, UserMode,
                            CardEnding
  <2> QED
    BY <2>4, <2>5
<1>3. ASSUME SetHandler("kbd", KbdIrq, "kbd", "kbd unmask") PROVE LinesOpen' /\ Handlers'
  <2>1. /\ pc = "kbd" /\ Running /\ Kept /\ pic' = pic
        /\ Running' => /\ pc' = "kbd unmask" /\ irq_handlers'[KbdIrq] = "kbd"
                       /\ \A i \in Irqs : i # KbdIrq => irq_handlers'[i] = irq_handlers[i]
    BY <1>3, SetEffect
  <2>2. SUFFICES ASSUME Running' PROVE LinesOpen' /\ Handlers'
    BY DEF LinesOpen, Handlers
  <2>3. ~HasLine /\ ~HasLine' /\ OpenLines = {Cascade, TimerIrq} /\ OpenLines' = {Cascade, TimerIrq}
    BY <2>1, <2>2 DEF OpenLines, HasLine, TimerOpen, TimerPlaces, KbdOpen, KbdPlaces, CardPlaces,
                      Enumerating, CardStarting, UserMode, CardEnding
  <2>4. LinesOpen'
    BY <2>1, <2>3 DEF LinesOpen, Outside, Starting, Restoring
  <2>5. Handlers'
    BY <2>1, <2>2, <2>3 DEF Handlers, TimerPlaces, KbdPlaces, Enumerating, CardStarting, UserMode,
                            CardEnding
  <2> QED
    BY <2>4, <2>5
<1>4. ASSUME pic_unmask_irq("kbd unmask", KbdIrq, "pci") PROVE LinesOpen' /\ Handlers'
  <2>1. /\ pc = "kbd unmask" /\ Running /\ Kept /\ irq_handlers' = irq_handlers
        /\ pic'.mask = pic.mask \ {KbdIrq} /\ (Running' => pc' = "pci")
    BY <1>4, OpenEffect
  <2>2. SUFFICES ASSUME Running' PROVE LinesOpen' /\ Handlers'
    BY DEF LinesOpen, Handlers
  <2>3. ~HasLine /\ ~HasLine' /\ OpenLines = {Cascade, TimerIrq} /\ OpenLines' = {Cascade, TimerIrq, KbdIrq}
    BY <2>1, <2>2 DEF OpenLines, HasLine, TimerOpen, TimerPlaces, KbdOpen, KbdPlaces, CardPlaces,
                      Enumerating, CardStarting, UserMode, CardEnding
  <2>4. LinesOpen'
    BY <2>1, <2>3 DEF LinesOpen, Outside, Starting, Restoring
  <2>5. Handlers'
    BY <2>1, <2>2, <2>3 DEF Handlers, TimerPlaces, KbdPlaces, Enumerating, CardStarting, UserMode,
                            CardEnding
  <2> QED
    BY <2>4, <2>5
<1>5. ASSUME nic.device # None, SetHandler("card irq", Line, "nic", "card unmask")
      PROVE  LinesOpen' /\ Handlers'
  <2>1. /\ pc = "card irq" /\ Running /\ Kept /\ pic' = pic
        /\ Running' => /\ pc' = "card unmask" /\ Line \in Irqs /\ irq_handlers[Line] = None
                       /\ irq_handlers'[Line] = "nic"
                       /\ \A i \in Irqs : i # Line => irq_handlers'[i] = irq_handlers[i]
    BY <1>5, SetEffect
  <2>2. SUFFICES ASSUME Running' PROVE LinesOpen' /\ Handlers'
    BY DEF LinesOpen, Handlers
  <2>3. ~HasLine /\ HasLine' /\ Line' = Line
    BY <1>5, <2>1, <2>2 DEF HasLine, CardPlaces, CardStarting, UserMode, CardEnding, Line
  <2>4. irq_handlers[TimerIrq] = "timer" /\ irq_handlers[KbdIrq] = "kbd"
    BY <2>1 DEF Handlers, TimerPlaces, KbdPlaces, CardStarting
  <2>5. Line \notin {TimerIrq, KbdIrq}
    BY <2>1, <2>2, <2>4, NoneAssumption
  <2>6. OpenLines' = OpenLines
    BY <2>1, <2>2, <2>3 DEF OpenLines, TimerOpen, TimerPlaces, KbdOpen, KbdPlaces, CardOpen,
                            CardStarting
  <2>7. LinesOpen'
    BY <2>1, <2>6 DEF LinesOpen, Outside, Starting, Restoring
  <2>8. Handlers'
    BY <2>1, <2>2, <2>3, <2>4, <2>5 DEF Handlers, TimerPlaces, KbdPlaces, CardStarting
  <2> QED
    BY <2>7, <2>8
<1>6. ASSUME nic.device # None, pic_unmask_irq("card unmask", Line, "reset") PROVE LinesOpen' /\ Handlers'
  <2>1. /\ pc = "card unmask" /\ Running /\ Kept /\ irq_handlers' = irq_handlers
        /\ pic'.mask = pic.mask \ {Line} /\ (Running' => pc' = "reset")
    BY <1>6, OpenEffect
  <2>2. SUFFICES ASSUME Running' PROVE LinesOpen' /\ Handlers'
    BY DEF LinesOpen, Handlers
  <2>3. HasLine /\ HasLine' /\ Line' = Line /\ Line # Cascade
    BY <1>6, <2>1, <2>2 DEF HasLine, CardPlaces, CardStarting, UserMode, CardEnding, Line,
                            pic_unmask_irq, Require, Fail, Running
  <2>4. OpenLines' = OpenLines \cup {Line}
    BY <2>1, <2>2, <2>3 DEF OpenLines, TimerOpen, TimerPlaces, KbdOpen, KbdPlaces, CardOpen,
                            CardPlaces, CardStarting
  <2>5. LinesOpen'
    BY <2>1, <2>4 DEF LinesOpen, Outside, Starting, Restoring
  <2>6. Handlers'
    BY <2>1, <2>2, <2>3 DEF Handlers, TimerPlaces, KbdPlaces, CardStarting
  <2> QED
    BY <2>5, <2>6
<1> QED
  BY <1>1, <1>2, <1>3, <1>4, <1>5, <1>6 DEF Register, register_irq_handler

\* unregister_irq_handler closes it again.
LEMMA UnregisterLines == ASSUME IInv, SInv, Unregister PROVE LinesOpen' /\ Handlers'
<1> USE LinesExist DEF IInv, SInv, Ordered
<1> DEFINE Kept == UNCHANGED <<pci, nic>>
<1>1. ASSUME nic.device # None, pic_mask_irq("irq off", Line, "irq clear") PROVE LinesOpen' /\ Handlers'
  <2>1. /\ pc = "irq off" /\ Running /\ Kept /\ irq_handlers' = irq_handlers
        /\ pic'.mask = pic.mask \cup {Line} /\ (Running' => pc' = "irq clear")
    BY <1>1, CloseEffect
  <2>2. SUFFICES ASSUME Running' PROVE LinesOpen' /\ Handlers'
    BY DEF LinesOpen, Handlers
  <2>3. HasLine /\ HasLine' /\ Line' = Line /\ Line \in Irqs \ {TimerIrq, KbdIrq, Cascade}
    BY <1>1, <2>1, <2>2 DEF HasLine, CardPlaces, CardEnding, Line, Handlers
  <2>4. OpenLines = {Cascade, TimerIrq, KbdIrq, Line} /\ OpenLines' = {Cascade, TimerIrq, KbdIrq}
    BY <2>1, <2>2, <2>3 DEF OpenLines, TimerOpen, TimerPlaces, KbdOpen, KbdPlaces, CardOpen,
                            CardPlaces, CardEnding
  <2>5. LinesOpen'
    <3>1. pic.mask = Irqs \ {Cascade, TimerIrq, KbdIrq, Line}
      BY <2>1, <2>4 DEF LinesOpen, Outside, Starting, Restoring
    <3>2. Line \notin {Cascade, TimerIrq, KbdIrq} /\ Line \in Irqs
      BY <2>3
    <3>3. pic'.mask = Irqs \ {Cascade, TimerIrq, KbdIrq}
      BY <2>1, <3>1, <3>2
    <3> QED
      BY <2>4, <3>3 DEF LinesOpen
  <2>6. Handlers'
    BY <2>1, <2>2, <2>3 DEF Handlers, TimerPlaces, KbdPlaces, CardEnding
  <2> QED
    BY <2>5, <2>6
<1>2. ASSUME nic.device # None, ClearHandler("irq clear", Line, "kbd off") PROVE LinesOpen' /\ Handlers'
  <2>1. pc = "irq clear" /\ Running
    BY <1>2 DEF ClearHandler, At, Running
  <2>2. HasLine /\ Line \in Irqs \ {TimerIrq, KbdIrq}
    BY <1>2, <2>1 DEF HasLine, CardPlaces, CardEnding, Handlers
  <2>3. /\ Kept /\ pic' = pic
        /\ Running' => /\ pc' = "kbd off" /\ irq_handlers'[Line] = None
                       /\ \A i \in Irqs : i # Line => irq_handlers'[i] = irq_handlers[i]
    BY <1>2, <2>2, ClearEffect
  <2>4. SUFFICES ASSUME Running' PROVE LinesOpen' /\ Handlers'
    BY DEF LinesOpen, Handlers
  <2>5. ~HasLine' /\ OpenLines' = OpenLines
    BY <2>1, <2>3, <2>4 DEF HasLine, OpenLines, TimerOpen, TimerPlaces, KbdOpen, KbdPlaces,
                            CardOpen, CardPlaces, CardStarting, UserMode, CardEnding
  <2>6. LinesOpen'
    BY <2>1, <2>3, <2>5 DEF LinesOpen, Outside, Starting, Restoring
  <2>7. Handlers'
    BY <2>1, <2>2, <2>3, <2>4, <2>5 DEF Handlers, TimerPlaces, KbdPlaces, CardEnding
  <2> QED
    BY <2>6, <2>7
<1>3. ASSUME NEW at, NEW next, NEW irq, pic_mask_irq(at, irq, next),
             \/ at = "kbd off" /\ irq = KbdIrq /\ next = "kbd clear"
             \/ at = "timer off" /\ irq = TimerIrq /\ next = "timer clear"
      PROVE  LinesOpen' /\ Handlers'
  <2>1. /\ pc = at /\ Running /\ Kept /\ irq_handlers' = irq_handlers
        /\ pic'.mask = pic.mask \cup {irq} /\ (Running' => pc' = next)
    BY <1>3, CloseEffect
  <2>2. SUFFICES ASSUME Running' PROVE LinesOpen' /\ Handlers'
    BY DEF LinesOpen, Handlers
  <2>3. ~HasLine /\ ~HasLine'
    BY <1>3, <2>1, <2>2 DEF HasLine, CardPlaces, CardStarting, UserMode, CardEnding
  <2>4. OpenLines' = OpenLines \ {irq}
    <3>1. CASE at = "kbd off" /\ irq = KbdIrq /\ next = "kbd clear"
      <4>1. OpenLines = {Cascade, TimerIrq, KbdIrq} /\ OpenLines' = {Cascade, TimerIrq}
        BY <2>1, <2>2, <2>3, <3>1 DEF OpenLines, HasLine, TimerOpen, TimerPlaces, KbdOpen,
                                      KbdPlaces, CardPlaces, Enumerating, CardStarting, UserMode,
                                      CardEnding
      <4>2. {Cascade, TimerIrq} = {Cascade, TimerIrq, KbdIrq} \ {KbdIrq}
        BY ONLY DEF TimerIrq, KbdIrq, Cascade
      <4> QED
        BY ONLY <3>1, <4>1, <4>2
    <3>2. CASE at = "timer off" /\ irq = TimerIrq /\ next = "timer clear"
      <4>1. OpenLines = {Cascade, TimerIrq} /\ OpenLines' = {Cascade}
        BY <2>1, <2>2, <2>3, <3>2 DEF OpenLines, HasLine, TimerOpen, TimerPlaces, KbdOpen,
                                      KbdPlaces, CardPlaces, Enumerating, CardStarting, UserMode,
                                      CardEnding
      <4>2. {Cascade} = {Cascade, TimerIrq} \ {TimerIrq}
        BY ONLY DEF TimerIrq, Cascade
      <4> QED
        BY ONLY <3>2, <4>1, <4>2
    <3> QED
      BY <1>3, <3>1, <3>2
  <2>5. LinesOpen'
    BY <1>3, <2>1, <2>4 DEF LinesOpen, Outside, Starting, Restoring
  <2>6. Handlers'
    BY <1>3, <2>1, <2>2, <2>3 DEF Handlers, TimerPlaces, KbdPlaces, Enumerating, CardStarting,
                                  UserMode, CardEnding
  <2> QED
    BY <2>5, <2>6
<1>4. ASSUME NEW at, NEW next, NEW irq \in Irqs, ClearHandler(at, irq, next),
             \/ at = "kbd clear" /\ irq = KbdIrq /\ next = "timer off"
             \/ at = "timer clear" /\ irq = TimerIrq /\ next = "isr off"
      PROVE  LinesOpen' /\ Handlers'
  <2>1. /\ pc = at /\ Running /\ Kept /\ pic' = pic
        /\ Running' => /\ pc' = next /\ irq_handlers'[irq] = None
                       /\ \A i \in Irqs : i # irq => irq_handlers'[i] = irq_handlers[i]
    BY <1>4, ClearEffect
  <2>2. SUFFICES ASSUME Running' PROVE LinesOpen' /\ Handlers'
    BY DEF LinesOpen, Handlers
  <2>3. ~HasLine /\ ~HasLine'
    BY <1>4, <2>1, <2>2 DEF HasLine, CardPlaces, CardStarting, UserMode, CardEnding
  <2>4. OpenLines' = OpenLines
    <3>1. CASE at = "kbd clear" /\ next = "timer off"
      BY <2>1, <2>2, <2>3, <3>1 DEF OpenLines, TimerOpen, TimerPlaces, KbdOpen, KbdPlaces,
                                    Enumerating, CardStarting, UserMode, CardEnding
    <3>2. CASE at = "timer clear" /\ next = "isr off"
      BY <2>1, <2>2, <2>3, <3>2 DEF OpenLines, TimerOpen, TimerPlaces, KbdOpen, KbdPlaces,
                                    Enumerating, CardStarting, UserMode, CardEnding
    <3> QED
      BY <1>4, <3>1, <3>2
  <2>5. LinesOpen'
    BY <1>4, <2>1, <2>4 DEF LinesOpen, Outside, Starting, Restoring
  <2>6. Handlers'
    <3>1. CASE at = "kbd clear" /\ irq = KbdIrq /\ next = "timer off"
      BY <2>1, <2>2, <2>3, <3>1 DEF Handlers, TimerPlaces, KbdPlaces, Enumerating, CardStarting,
                                    UserMode, CardEnding
    <3>2. CASE at = "timer clear" /\ irq = TimerIrq /\ next = "isr off"
      BY <2>1, <2>2, <2>3, <3>2 DEF Handlers, TimerPlaces, KbdPlaces, Enumerating, CardStarting,
                                    UserMode, CardEnding
    <3> QED
      BY <1>4, <3>1, <3>2
  <2> QED
    BY <2>5, <2>6
<1> QED
  BY <1>1, <1>2, <1>3, <1>4 DEF Unregister, Release

\* The lines that are open and the handlers that there are follow the places.
LEMMA LinesStep == ASSUME IInv, SInv, Next PROVE LinesOpen' /\ Handlers'
<1> USE DEF IInv, SInv, Ordered
<1> DEFINE Kept == pic'.mask = pic.mask /\ irq_handlers' = irq_handlers /\ nic'.device = nic.device
<1>1. CASE Register \/ Unregister
  BY <1>1, RegisterLines, UnregisterLines
<1>2. SUFFICES ASSUME Running' PROVE LinesOpen' /\ Handlers'
  BY DEF LinesOpen, Handlers
<1>3. CASE Enumerate
  <2>1. /\ pc \in Enumerating /\ pc' \in Enumerating /\ Running /\ nic.device = None /\ Kept
    BY <1>2, <1>3, EnumerationApart DEF CardState, Running
  <2> QED
    BY <2>1, SameLines DEF Alike, TimerOpen, TimerPlaces, KbdOpen, KbdPlaces, Enumerating, Outside,
                           Starting, Restoring
<1>4. CASE SetUp
  <2>1. CASE isr_init
    <3>1. /\ pc = "isr" /\ pc' = "timer" /\ Running /\ pic'.mask = Irqs \ {Cascade} /\ nic' = nic
          /\ irq_handlers' = irq_handlers
      BY <2>1 DEF isr_init, pic_remap, TypeOK, Controllers, At, Goto, Running
    <3>2. ~HasLine' /\ OpenLines' = {Cascade}
      BY <3>1 DEF HasLine, OpenLines, TimerOpen, TimerPlaces, KbdOpen, KbdPlaces, Enumerating,
                  CardPlaces, CardStarting, UserMode, CardEnding
    <3>3. LinesOpen'
      BY <3>1, <3>2 DEF LinesOpen
    <3>4. Handlers'
      BY <3>1, <3>2 DEF Handlers, HasLine, TimerPlaces, KbdPlaces, CardPlaces, Enumerating,
                        CardStarting, UserMode, CardEnding
    <3> QED
      BY <3>3, <3>4
  <2>2. CASE i825x_ethernet_device
    <3>1. /\ pc = "card" /\ pc' = "card irq" /\ Running /\ pic' = pic /\ irq_handlers' = irq_handlers
          /\ pci' = pci
      BY <1>2, <2>2 DEF i825x_ethernet_device, At, Goto, Require, Fail, Running
    <3>2. ~HasLine /\ ~HasLine' /\ OpenLines' = OpenLines
      BY <3>1 DEF HasLine, OpenLines, TimerOpen, TimerPlaces, KbdOpen, KbdPlaces, Enumerating,
                  CardPlaces, CardStarting, UserMode, CardEnding
    <3>3. LinesOpen'
      BY <3>1, <3>2 DEF LinesOpen, Outside, Starting, Restoring
    <3>4. Handlers'
      BY <3>1, <3>2 DEF Handlers, TimerPlaces, KbdPlaces, Enumerating, CardStarting, UserMode,
                        CardEnding
    <3> QED
      BY <3>3, <3>4
  <2>3. CASE cpu_init \/ construct_mm
    <3>1. /\ pc \in {"cpu", "mm"} /\ pc' \in {"mm", "isr"} /\ Running /\ Kept /\ pci' = pci
      BY <1>2, <2>3 DEF cpu_init, construct_mm, At, Goto, Require, Fail, Running, devs
    <3> QED
      BY <3>1, SameLines DEF Alike, TimerOpen, TimerPlaces, KbdOpen, KbdPlaces, CardPlaces, CardOpen,
                             Enumerating, CardStarting, UserMode, CardEnding, Outside, Starting,
                             Restoring
  <2>4. CASE reset \/ Publish \/ Network \/ syscall_enabler \/ switch_to
    <3>1. /\ pc \in {"reset", "publish", "net", "user", "switch"} /\ Running /\ Kept /\ pci' = pci
          /\ pc' \in {"publish", "net", "user", "switch", "in user"}
      BY <1>2, <2>4 DEF reset, Publish, Network, syscall_enabler, switch_to, At, Goto, Require, Fail,
                        Running, devs, TypeOK, Cards
    <3> QED
      BY <3>1, SameLines DEF Alike, TimerOpen, TimerPlaces, KbdOpen, KbdPlaces, CardPlaces, CardOpen,
                             CardStarting, UserMode, Outside, Starting, Restoring
  <2>5. CASE NoCard
    <3>1. pc = "card" /\ pc' = "user" /\ Running /\ Kept /\ nic.device = None
      BY <2>5 DEF NoCard, At, Goto, Running, devs, CardState, Enumerating
    <3> QED
      BY <3>1, SameLines DEF Alike, TimerOpen, TimerPlaces, KbdOpen, KbdPlaces, Enumerating, UserMode,
                             Outside, Starting, Restoring
  <2> QED
    BY <1>4, <2>1, <2>2, <2>3, <2>4, <2>5 DEF SetUp
<1>5. CASE Destroy
  <2>1. CASE Leave
    <3>1. /\ pc = "leave" /\ Running /\ Kept /\ pci' = pci
          /\ pc' = IF nic.device = None THEN "kbd off" ELSE "card off"
      BY <1>2, <2>1 DEF Leave, At, Goto, Require, Fail, Running, TypeOK, Cards
    <3> QED
      BY <3>1, SameLines DEF Alike, TimerOpen, TimerPlaces, KbdOpen, KbdPlaces, CardPlaces, CardOpen,
                             UserMode, CardEnding, Outside, Starting, Restoring
  <2>2. CASE CardOff
    <3>1. pc = "card off" /\ Running /\ Kept /\ pci' = pci /\ pc' = "irq off"
      BY <2>2 DEF CardOff, At, Goto, Running, TypeOK, Cards
    <3> QED
      BY <3>1, SameLines DEF Alike, TimerOpen, TimerPlaces, KbdOpen, KbdPlaces, CardPlaces, CardOpen,
                             CardEnding, Outside, Starting, Restoring
  <2>3. CASE IsrOff \/ PicOff \/ MmOff \/ CpuOff
    <3>1. /\ pc \in {"isr off"} \cup Restoring /\ pc' \in Restoring /\ Running
          /\ irq_handlers' = irq_handlers /\ nic'.device = nic.device /\ pci' = pci
      BY <1>2, <2>3 DEF IsrOff, PicOff, MmOff, CpuOff, Restoring, At, Goto, Require, Fail, Running, devs
    <3>2. LinesOpen'
      BY <3>1 DEF LinesOpen, Outside
    <3>3. ~HasLine /\ ~HasLine' /\ pc \notin TimerPlaces \cup KbdPlaces /\ pc' \notin TimerPlaces \cup KbdPlaces
      BY <3>1 DEF HasLine, CardPlaces, TimerPlaces, KbdPlaces, Enumerating, CardStarting, UserMode,
                  CardEnding, Restoring
    <3>4. Handlers'
      BY <3>1, <3>3 DEF Handlers
    <3> QED
      BY <3>2, <3>4
  <2> QED
    BY <1>5, <2>1, <2>2, <2>3 DEF Destroy
<1>6. CASE User
  <2>1. pc \in UserMode /\ pc' \in UserMode \ {"user"} /\ Running /\ Kept /\ pci' = pci
    BY <1>2, <1>6 DEF User, syscall, sysret, user_fault, restore_original_context, read_key, At, Goto,
                      Fail, Running, devs, UserMode
  <2> QED
    BY <2>1, SameLines DEF Alike, TimerOpen, TimerPlaces, KbdOpen, KbdPlaces, CardPlaces, CardOpen,
                           UserMode, Outside, Starting, Restoring
<1>7. CASE Interrupt \/ Spurious \/ Devices \/ Report
  <2>1. Aside
    BY <1>7, AsideSteps
  <2> QED
    BY <1>2, <2>1, SameLines DEF Aside, Alike, Running
<1> QED
  BY <1>1, <1>3, <1>4, <1>5, <1>6, <1>7, Steps

(***************************************************************************)
(* Interrupts served.                                                      *)
(***************************************************************************)

\* The main thread takes no interrupt, announces no byte and takes none from the
\* controller, and does not rewire the card.
LEMMA MainThread ==
    ASSUME IInv, Enumerate \/ SetUp \/ Register \/ Unregister \/ Destroy \/ User
    PROVE  /\ isr = None /\ isr' = None /\ Running
           /\ pic'.latched \subseteq pic.latched /\ kbd'.full = kbd.full
           /\ nic'.line = nic.line /\ machine' = machine
<1> USE DEF IInv, Ordered, TypeOK, Running
<1>1. CASE Enumerate
  BY <1>1, EnumerationApart
<1>2. CASE SetUp
  <2>1. CASE isr_init
    BY <2>1 DEF isr_init, pic_remap, Controllers, Keyboards, At, stays
  <2>2. CASE i825x_ethernet_device \/ reset \/ Publish
    BY <2>2 DEF i825x_ethernet_device, reset, Publish, Cards, At, stays
  <2>3. CASE cpu_init \/ construct_mm \/ NoCard \/ Network \/ syscall_enabler \/ switch_to
    BY <2>3 DEF cpu_init, construct_mm, NoCard, Network, syscall_enabler, switch_to, Keyboards, At,
                stays, devs
  <2> QED
    BY <1>2, <2>1, <2>2, <2>3 DEF SetUp
<1>3. CASE Register \/ Unregister
  BY <1>3 DEF Controllers, At, stays, devs, Register, register_irq_handler, SetHandler,
              pic_unmask_irq, Unregister, Release, pic_mask_irq, ClearHandler
<1>4. CASE Destroy
  BY <1>4 DEF Controllers, Cards, pic_remap, At, stays, devs, Destroy, Leave, CardOff, IsrOff,
              PicOff, MmOff, CpuOff
<1>5. CASE User
  BY <1>5 DEF Keyboards, At, stays, devs, User, syscall, sysret, user_fault,
              restore_original_context, read_key
<1> QED
  BY <1>1, <1>2, <1>3, <1>4, <1>5

\* An interrupt that is delivered has a handler, and that of the keyboard a byte.
LEMMA DeliveredServed ==
    ASSUME IInv, SInv, NEW irq \in Irqs, Deliver(irq)
    PROVE  /\ cpu.idt = "kernel" /\ pic.offset = "kernel" /\ irq_handlers[irq] # None
           /\ irq = KbdIrq => KbdIrq \in pic.latched
<1> USE DEF IInv, SInv
<1>1. Running /\ cpu.rflag_if /\ pc \notin Outside
  BY DEF Deliver, Flags, Running
<1>2. irq \in Requests \ pic.mask
  BY DEF Deliver, Pending, Passes
<1>3. pic.mask = Irqs \ OpenLines
  BY <1>1 DEF LinesOpen
<1>4. nic.line \notin {KbdIrq, Cascade}
  BY <1>1, WiringAssumption DEF TypeOK, Served
<1>5. irq # Cascade /\ (irq = KbdIrq => KbdIrq \in pic.latched)
  BY <1>2, <1>4, LinesExist DEF Requests, Level, TypeOK, Controllers, TimerIrq, KbdIrq, Cascade
<1>6. \/ irq = TimerIrq /\ pc \in TimerOpen
      \/ irq = KbdIrq /\ pc \in KbdOpen
      \/ irq = Line /\ HasLine
  BY <1>2, <1>3, <1>5 DEF OpenLines
<1>7. irq_handlers[irq] # None
  BY <1>1, <1>6, NoneAssumption DEF Handlers, TimerOpen, KbdOpen
<1> QED
  BY <1>1, <1>5, <1>7 DEF Flags

\* A handler that runs is registered, and the keyboard's has a byte to read.
LEMMA ServedStep == ASSUME IInv, SInv, Next PROVE Served'
<1> USE DEF IInv, SInv
<1>1. SUFFICES ASSUME Running' PROVE Served'
  BY DEF Served
<1>2. CASE Enumerate \/ SetUp \/ Register \/ Unregister \/ Destroy \/ User
  BY <1>2, MainThread DEF Served, InHandler
<1>3. CASE Interrupt
  <2>1. ASSUME NEW irq \in Irqs, Deliver(irq) PROVE Served'
    <3>1. /\ pic'.latched = pic.latched \ {irq} /\ isr = None /\ isr' = irq /\ Running
          /\ UNCHANGED <<irq_handlers, nic, kbd, machine>>
      BY <1>1, <2>1 DEF Deliver, TypeOK, Controllers, Fail, Running, devs
    <3> QED
      BY <2>1, <3>1, DeliveredServed DEF Served
  <2>2. CASE Handle
    <3>1. /\ isr' = isr /\ step' = "eoi" /\ InHandler /\ Running
          /\ UNCHANGED <<pic, irq_handlers, machine>> /\ nic'.line = nic.line
          /\ kbd' = kbd \/ isr = KbdIrq
      <4>1. isr \in Irqs /\ InHandler /\ Running /\ UNCHANGED <<isr, pic, irq_handlers, machine>>
        BY <2>2 DEF Handle, InHandler, Running, TypeOK
      <4>2. irq_handlers[isr] = "kbd" => isr = KbdIrq
        BY <4>1, LinesExist, NoneAssumption DEF Handlers
      <4>3. \/ step' = "eoi" /\ UNCHANGED <<nic, kbd>>
            \/ step' = "eoi" /\ nic' = nic /\ irq_handlers[isr] = "kbd"
            \/ step' = "eoi" /\ nic' = CardAck /\ kbd' = kbd
        BY <1>1, <2>2 DEF Handle, Fail, Running, devs
      <4>4. CardAck.line = nic.line
        BY DEF CardAck, TypeOK, Cards
      <4> QED
        BY <4>1, <4>2, <4>3, <4>4
    <3>2. isr = KbdIrq => KbdIrq \notin pic.latched
      BY <3>1 DEF Served
    <3> QED
      BY <3>1, <3>2 DEF Served, InHandler
  <2>3. CASE EndOfInterrupt
    <3>1. isr' = None /\ pic'.latched = pic.latched /\ UNCHANGED <<irq_handlers, nic, kbd, machine>> /\ Running
      BY <2>3 DEF EndOfInterrupt, TypeOK, Controllers, Running, devs
    <3> QED
      BY <3>1 DEF Served, InHandler
  <2> QED
    BY <1>3, <2>1, <2>2, <2>3 DEF Interrupt
<1>4. CASE Spurious \/ Report
  BY <1>1, <1>4 DEF Spurious, Report, Fail, Running, Ordered, StopsOnce, Stopped
<1>5. CASE Devices
  <2>1. Running /\ UNCHANGED <<isr, step, irq_handlers, machine>>
    BY <1>5 DEF Devices, Running
  <2>2. CASE Tick
    <3>1. pic'.latched = pic.latched \cup {TimerIrq} /\ UNCHANGED <<nic, kbd>>
      BY <2>2 DEF Tick, TypeOK, Controllers, devs
    <3> QED
      BY <2>1, <3>1, LinesExist DEF Served, InHandler
  <2>3. CASE Key
    <3>1. ~kbd.full /\ kbd'.full /\ nic' = nic
      BY <2>3 DEF Key, TypeOK, Keyboards
    <3> QED
      BY <2>1, <3>1 DEF Served, InHandler
  <2>4. CASE CardEvent
    <3>1. pic' = pic /\ kbd' = kbd /\ nic'.line = nic.line
      BY <2>4 DEF CardEvent, TypeOK, Cards
    <3> QED
      BY <2>1, <3>1 DEF Served, InHandler
  <2> QED
    BY <1>5, <2>2, <2>3, <2>4 DEF Devices
<1> QED
  BY <1>2, <1>3, <1>4, <1>5, Steps

(***************************************************************************)
(* Devices found.                                                          *)
(***************************************************************************)

\* A function's registers are as read_bars leaves them.
LEMMA RegistersHeld ==
    ASSUME machine \in Machines, NEW a \in DOMAIN machine.functions
    PROVE  LET regs == machine.functions[a].regs
           IN  /\ regs \in [1 .. NumBars -> Registers]
               /\ \A i \in 1 .. NumBars : Holds(regs[i]) /\ Decoding(regs[i])
               /\ read_bars(regs).regs = regs
<1>1. /\ machine.functions[a].regs \in [1 .. NumBars -> Registers]
      /\ \A i \in 1 .. NumBars : Holds(machine.functions[a].regs[i]) /\ Decoding(machine.functions[a].regs[i])
  BY RegistersAssumption
<1>2. read_bars(machine.functions[a].regs).regs = machine.functions[a].regs
  BY <1>1, BarsRead
<1> QED
  BY <1>1, <1>2

\* A device is one of those that are there.
DeviceOf(d, a) ==
    LET f == machine.functions[a]
    IN  f.header = 0 /\ d.id = f.id /\ d.line = f.line /\ d.bars = read_bars(f.regs).res

\* The enumeration lists functions that there are, and leaves them alone.
LEMMA FoundStep == ASSUME IInv, SInv, Next PROVE Found'
<1>1. TypeOK /\ Listed /\ StopsOnce /\ WindowShut /\ Found /\ CardState /\ machine \in Machines
  BY DEF IInv, SInv, Ordered, TypeOK
<1>2. ASSUME pci' = pci, machine' = machine, nic'.device = nic.device PROVE Found'
  BY <1>1, <1>2 DEF Found
<1>3. CASE Enumerate
  <2>1. machine' = machine /\ nic' = nic /\ nic.device = None
    BY <1>1, <1>3, EnumerationApart DEF CardState
  <2>2. CASE probe
    <3> DEFINE a == Head(pci.todo)
               f == machine.functions[a]
               bars == read_bars(pci.config[a])
               new == [address |-> a, id |-> f.id, line |-> f.line, bars |-> bars.res]
    <3>1. \/ pci'.config = pci.config /\ pci'.devices = pci.devices
          \/ /\ a \in DOMAIN machine.functions /\ f.header = 0
             /\ pci'.config = [pci.config EXCEPT ![a] = bars.regs]
             /\ pci'.devices = Append(pci.devices, new)
      <4>1. DOMAIN pci = {"todo", "devices", "config"}
        BY <1>1 DEF Listed
      <4> HIDE DEF a, bars
      <4>2. \/ \E todo : pci' = [pci EXCEPT !.todo = todo]
            \/ pci' = pci
            \/ /\ a \in DOMAIN machine.functions /\ f.header = 0
               /\ \E todo : pci' = [todo |-> todo, devices |-> Append(pci.devices, new),
                                    config |-> [pci.config EXCEPT ![a] = bars.regs]]
        BY <2>2, Zenon DEF probe, a, bars
      <4> QED
        BY <4>1, <4>2
    <3>2. CASE pci'.config = pci.config /\ pci'.devices = pci.devices
      BY <1>1, <2>1, <3>2 DEF Found
    <3>3. CASE /\ a \in DOMAIN machine.functions /\ f.header = 0
               /\ pci'.config = [pci.config EXCEPT ![a] = bars.regs]
               /\ pci'.devices = Append(pci.devices, new)
      <4>1. pci.config[a] = f.regs /\ a \in DOMAIN pci.config
        BY <1>1, <3>3 DEF Found
      <4>2. bars.regs = f.regs /\ bars.res = read_bars(f.regs).res
        <5>1. read_bars(f.regs).regs = f.regs
          <6> HIDE DEF a
          <6> QED
            BY <1>1, <3>3, RegistersHeld
        <5> QED
          BY <4>1, <5>1
      <4> HIDE DEF a, bars
      <4>3. pci'.config = pci.config
        <5>1. pci'.config = [pci.config EXCEPT ![a] = pci.config[a]]
          BY <3>3, <4>1, <4>2
        <5>2. pci.config = [b \in DOMAIN machine.functions |-> machine.functions[b].regs]
          BY <1>1 DEF Found
        <5> QED
          BY <5>1, <5>2
      <4>4. DeviceOf(new, a)
        BY <3>3, <4>2 DEF DeviceOf
      <4>5. \A i \in DOMAIN pci'.devices :
               pci'.devices[i] = new \/ (i \in DOMAIN pci.devices /\ pci'.devices[i] = pci.devices[i])
        <5>1. PICK S : pci.devices \in Seq(S)
          BY <1>1 DEF Listed
        <5> HIDE DEF new
        <5> QED
          BY <3>3, <5>1
      <4>6. \A i \in DOMAIN pci'.devices : \E b \in DOMAIN machine.functions : DeviceOf(pci'.devices[i], b)
        <5>1. \A i \in DOMAIN pci.devices : \E b \in DOMAIN machine.functions : DeviceOf(pci.devices[i], b)
          BY <1>1 DEF Found, DeviceOf
        <5> HIDE DEF new
        <5> QED
          BY <3>3, <4>4, <4>5, <5>1
      <4> QED
        BY <1>1, <2>1, <4>3, <4>6 DEF Found, DeviceOf
    <3> QED
      BY <3>1, <3>2, <3>3
  <2>3. CASE pci_init
    <3>1. pci'.config = pci.config /\ pci'.devices = pci.devices
      BY <1>1, <2>3 DEF pci_init, Listed
    <3> QED
      BY <1>1, <2>1, <3>1 DEF Found
  <2>4. CASE ~probe /\ ~pci_init
    BY <1>2, <1>3, <2>1, <2>4 DEF Enumerate, pci_done, acpi_test, get_description, Enlarge, CopyTable,
                                  RootTable, NextEntry, HandleTable, KeepDsdt, acpi_done
  <2> QED
    BY <2>2, <2>3, <2>4
<1>4. CASE ~Enumerate
  <2>1. UNCHANGED <<machine, pci>> /\ (nic'.device = nic.device \/ i825x_ethernet_device)
    BY <1>1, <1>4, Elsewhere
  <2>2. CASE i825x_ethernet_device
    <3>1. nic'.device = Card /\ pci.devices[Card].id = "i825x"
      BY <1>1, <2>2, CardFound DEF i825x_ethernet_device, TypeOK, Cards
    <3> QED
      BY <1>1, <2>1, <3>1 DEF Found
  <2> QED
    BY <1>2, <2>1, <2>2
<1> QED
  BY <1>3, <1>4

(***************************************************************************)
(* Tables.                                                                 *)
(***************************************************************************)

\* What is mapped for a table shows it, wherever it is and however long.
LEMMA WindowShows ==
    ASSUME NEW phys \in Nat, NEW length \in Nat
    PROVE  Shows(Window(phys, length), phys, length)
<1> DEFINE n == phys + length
           x == n + Page - 1
<1>1. Page \in Nat \ {0} /\ n \in Nat /\ x \in Nat
  BY AcpiAssumption
<1>2. x = Page * (x \div Page) + (x % Page) /\ x \div Page \in Nat /\ x % Page \in 0 .. Page - 1
  <2> HIDE DEF x
  <2> QED
    BY <1>1, Division
<1>3. round_up(n) = (x \div Page) * Page
  BY DEF round_up
<1>4. PICK q \in Nat : q = x \div Page
  BY <1>2
<1>5. round_up(n) >= n /\ round_up(n) \in Nat
  <2>1. PICK r \in 0 .. Page - 1 : x = Page * q + r
    BY <1>2, <1>4
  <2>2. round_up(n) = q * Page
    BY <1>3, <1>4
  <2> HIDE DEF n
  <2>3. PICK y \in Nat : y = q * Page /\ y = Page * q
    BY <1>1
  <2>4. n + Page - 1 = y + r
    BY <2>1, <2>3
  <2>5. y >= n
    BY <1>1, <2>4
  <2> QED
    BY <2>2, <2>3, <2>5
<1>6. mapped_base(phys) <= phys /\ mapped_base(phys) \in Int
  <2>1. phys % Page \in 0 .. Page - 1
    BY <1>1, Division
  <2> QED
    BY <1>1, <2>1 DEF mapped_base
<1>7. mapped_base(phys) + mapped_length(phys, length) = round_up(n)
  BY <1>5, <1>6 DEF mapped_length
<1> QED
  BY <1>5, <1>6, <1>7 DEF Shows, Window

\* The first window shows the header, the window of the table all of it.
LEMMA TableShows ==
    ASSUME machine \in Machines, NEW phys \in DOMAIN machine.tables
    PROVE  /\ Shows(FirstWindow(phys), phys, Header)
           /\ Shows(WindowOf(phys), phys, machine.tables[phys].length)
<1> DEFINE length == machine.tables[phys].length
<1>1. phys \in Nat /\ length \in Nat /\ Page \in Nat /\ Header \in 0 .. Page
  BY TablesAssumption, AcpiAssumption
<1>2. ASSUME NEW n \in Nat, n <= Page PROVE Shows(FirstWindow(phys), phys, n)
  <2>1. Shows(Window(phys, Page), phys, Page)
    BY <1>1, WindowShows
  <2>2. mapped_base(phys) \in Int /\ mapped_length(phys, Page) \in Int
    BY <1>1, AcpiAssumption DEF mapped_base, mapped_length, round_up
  <2> QED
    BY <1>1, <1>2, <2>1, <2>2 DEF Shows, FirstWindow, Window
<1>3. CASE TooSmall(FirstWindow(phys), length)
  BY <1>1, <1>2, <1>3, WindowShows DEF WindowOf
<1>4. CASE ~TooSmall(FirstWindow(phys), length)
  <2>1. length <= Page
    BY <1>1, <1>4 DEF TooSmall, FirstWindow, Window
  <2> QED
    BY <1>1, <1>2, <1>4, <2>1 DEF WindowOf
<1> QED
  BY <1>3, <1>4

\* The tables that the root table and those that it lists name.
LEMMA TablesNamed ==
    ASSUME machine \in Machines, Pointer(machine) # None
    PROVE  /\ Pointer(machine).rsdt \in DOMAIN machine.tables
           /\ Addresses \subseteq DOMAIN machine.tables
           /\ EntriesOf(Root) \in Seq(Addresses)
           /\ \A t \in TablesListed : match_structure(t, "FACP") => t.dsdt \in DOMAIN machine.tables
<1>1. Pointer(machine).rsdt \in DOMAIN machine.tables /\ EntriesOf(Root) \in Seq(DOMAIN machine.tables)
  BY TablesAssumption DEF Root
<1>2. Addresses \subseteq DOMAIN machine.tables
  <2> DEFINE es == EntriesOf(Root)
  <2>1. \A i \in DOMAIN es : es[i] \in DOMAIN machine.tables
    <3> HIDE DEF es
    <3>1. es \in Seq(DOMAIN machine.tables)
      BY <1>1 DEF es
    <3> QED
      BY <3>1
  <2> QED
    BY <2>1 DEF Addresses
<1>3. EntriesOf(Root) \in Seq(Addresses)
  <2> DEFINE es == EntriesOf(Root)
  <2>1. es \in Seq(DOMAIN machine.tables) /\ Addresses = {es[i] : i \in DOMAIN es}
    BY <1>1 DEF Addresses
  <2> HIDE DEF es
  <2>2. es \in [1 .. Len(es) -> Addresses] /\ Len(es) \in Nat
    BY <2>1
  <2>3. es \in Seq(Addresses)
    BY <2>2
  <2> QED
    BY <2>3 DEF es
<1>4. \A t \in TablesListed : match_structure(t, "FACP") => t.dsdt \in DOMAIN machine.tables
  BY <1>2, TablesAssumption DEF TablesListed
<1> QED
  BY <1>1, <1>2, <1>3, <1>4

\* What a fit machine's tables are like, as seen from the ones that are listed.
LEMMA ListedFit ==
    ASSUME TablesFit(machine)
    PROVE  /\ Readable(Root) /\ Root.revision = 1
           /\ \A p \in Addresses : Readable(machine.tables[p])
           /\ \A t \in TablesListed :
                /\ match_structure(t, "APIC") => MadtOk(t)
                /\ match_structure(t, "FACP") => FadtOk(t) /\ Readable(machine.tables[t.dsdt])
BY DEF TablesFit, Root, Addresses, TablesListed

\* The table that is looked at is one of these.
LEMMA TableLooked ==
    ASSUME machine \in Machines, Reading, Running, pc \in Looking
    PROVE  /\ Head(acpi.rest) \in DOMAIN machine.tables
           /\ TablesFit(machine) => Readable(machine.tables[Head(acpi.rest)])
<1>1. Pointer(machine) # None /\ (ReadingRoot \/ (ReadingEntries /\ acpi.rest # <<>>) \/ ReadingDsdt)
  BY DEF Reading, TablePlaces
<1>2. CASE ReadingRoot
  <2>1. Head(acpi.rest) = Pointer(machine).rsdt
    BY <1>2 DEF ReadingRoot
  <2> QED
    BY <1>1, <2>1, TablesNamed, ListedFit DEF Root
<1>3. CASE ReadingEntries /\ acpi.rest # <<>>
  <2>1. Head(acpi.rest) \in Addresses
    BY <1>3 DEF ReadingEntries
  <2> QED
    BY <1>1, <2>1, TablesNamed, ListedFit
<1>4. CASE ReadingDsdt
  <2>1. Head(acpi.got) \in TablesListed /\ match_structure(Head(acpi.got), "FACP")
    BY <1>4 DEF ReadingDsdt
  <2>2. Head(acpi.rest) = Head(acpi.got).dsdt
    BY <1>4 DEF ReadingDsdt
  <2> QED
    BY <1>1, <2>1, <2>2, TablesNamed, ListedFit
<1> QED
  BY <1>1, <1>2, <1>3, <1>4

\* The walk over the tables looks at those that are named, each through its
\* window.
LEMMA ReadingStep == ASSUME IInv, SInv, Next PROVE Reading'
<1>1. TypeOK /\ Listed /\ StopsOnce /\ WindowShut /\ Reading /\ machine \in Machines
  BY DEF IInv, SInv, Ordered, TypeOK
<1>2. SUFFICES ASSUME Running' PROVE Reading'
  BY DEF Reading
<1>3. CASE ~Enumerate
  <2>1. /\ UNCHANGED <<machine, acpi>> /\ Running
        /\ pc' = pc \/ (pc \notin TablePlaces /\ pc' \notin TablePlaces)
    BY <1>1, <1>2, <1>3, Elsewhere DEF TablePlaces, Looking, Enumerating
  <2> QED
    BY <1>1, <2>1 DEF Reading, TablePlaces, Looking, ReadingRoot, ReadingEntries, ReadingDsdt, Root,
                      TablesListed, Addresses, WindowOf
<1>4. CASE Enumerate
  <2>1. machine' = machine /\ Running /\ DOMAIN acpi = {"window", "rest", "got", "back", "dsdt"}
    BY <1>1, <1>4, EnumerationApart DEF WindowShut
  <2>2. /\ Root' = Root /\ Addresses' = Addresses /\ TablesListed' = TablesListed
        /\ Pointer(machine)' = Pointer(machine)
        /\ \A phys : WindowOf(phys)' = WindowOf(phys)
    BY <2>1 DEF Root, Addresses, TablesListed, WindowOf
  <2> DEFINE Going == /\ pc' \in Looking =>
                           (ReadingRoot \/ (ReadingEntries /\ acpi.rest # <<>>) \/ ReadingDsdt)'
                      /\ pc' = "grow" => acpi'.window = FirstWindow(Head(acpi'.rest))
                      /\ pc' = "copy" => acpi'.window = WindowOf(Head(acpi'.rest))
                      /\ pc' = "rsdt" => acpi'.got = <<Root>>
                      /\ pc' = "entries" => ReadingEntries'
                      /\ pc' = "tables" => acpi'.got \in Seq(TablesListed)
                      /\ pc' = "dsdt" =>
                           \E got \in Seq(TablesListed) : \E t : got # <<>> /\ acpi'.got = Append(got, t)
  <2>3. ASSUME Pointer(machine) # None, pc' \in TablePlaces, Going PROVE Reading'
    BY <2>1, <2>2, <2>3 DEF Reading
  <2>4. pc \in TablePlaces => Pointer(machine) # None
    BY <1>1, <2>1 DEF Reading
  <2>5. CASE pci_init \/ probe \/ pci_done
    <3>1. pc \notin TablePlaces /\ pc' \notin TablePlaces /\ acpi' = acpi
      BY <1>2, <2>5 DEF pci_init, probe, pci_done, At, Goto, Require, Fail, Running, TablePlaces, Looking
    <3> QED
      BY <1>1, <2>1, <3>1 DEF Reading, TablePlaces, Looking
  <2>6. CASE acpi_test
    <3>1. /\ pc = "acpi" /\ pc' = "map" /\ Pointer(machine) # None
          /\ acpi' = [acpi EXCEPT !.rest = <<Pointer(machine).rsdt>>, !.back = "rsdt"]
      BY <1>2, <2>6 DEF acpi_test, At, Require, Goto, Fail, Running
    <3>2. acpi.got = <<>>
      BY <1>1, <2>1, <3>1 DEF Reading, TablePlaces, Looking
    <3>3. acpi'.rest = <<Pointer(machine).rsdt>> /\ acpi'.back = "rsdt" /\ acpi'.got = <<>>
      BY <2>1, <3>1, <3>2
    <3>4. ReadingRoot'
      BY <2>1, <3>3 DEF ReadingRoot
    <3> QED
      BY <2>3, <3>1, <3>4 DEF TablePlaces, Looking
  <2>7. CASE get_description
    <3>1. /\ pc = "map" /\ pc' = "grow" /\ acpi'.window = FirstWindow(Head(acpi.rest))
          /\ acpi'.rest = acpi.rest /\ acpi'.got = acpi.got /\ acpi'.back = acpi.back
      BY <2>1, <2>7 DEF get_description, At, Goto
    <3>2. (ReadingRoot \/ (ReadingEntries /\ acpi.rest # <<>>) \/ ReadingDsdt)'
      BY <1>1, <2>1, <2>2, <3>1 DEF Reading, Looking, ReadingRoot, ReadingEntries, ReadingDsdt
    <3> QED
      BY <2>3, <2>4, <3>1, <3>2 DEF TablePlaces, Looking
  <2>8. CASE Enlarge
    <3>1. /\ pc = "grow" /\ pc' = "copy"
          /\ acpi'.window = IF TooSmall(acpi.window, Table.length) THEN Window(Head(acpi.rest), Table.length)
                            ELSE acpi.window
          /\ acpi'.rest = acpi.rest /\ acpi'.got = acpi.got /\ acpi'.back = acpi.back
      BY <1>2, <2>1, <2>8 DEF Enlarge, At, Goto, Require, Fail, Running
    <3>2. (ReadingRoot \/ (ReadingEntries /\ acpi.rest # <<>>) \/ ReadingDsdt)'
      BY <1>1, <2>1, <2>2, <3>1 DEF Reading, Looking, ReadingRoot, ReadingEntries, ReadingDsdt
    <3>3. acpi'.window = WindowOf(Head(acpi'.rest))
      BY <1>1, <2>1, <3>1 DEF Reading, WindowOf, Table
    <3> QED
      BY <2>3, <2>4, <3>1, <3>2, <3>3 DEF TablePlaces, Looking
  <2>9. CASE CopyTable
    <3>1. /\ pc = "copy" /\ pc' = acpi.back /\ acpi'.back = acpi.back
          /\ acpi'.rest = Tail(acpi.rest) /\ acpi'.got = Append(acpi.got, Table)
      BY <1>2, <2>1, <2>9 DEF CopyTable, At, Goto, Require, Fail, Running
    <3>2. ReadingRoot \/ (ReadingEntries /\ acpi.rest # <<>>) \/ ReadingDsdt
      BY <1>1, <2>1, <3>1 DEF Reading, Looking
    <3>3. CASE ReadingRoot
      <4>1. pc' = "rsdt" /\ Table = Root /\ acpi.got = <<>>
        BY <3>1, <3>3 DEF ReadingRoot, Table, Root
      <4>2. acpi'.got = <<Root>>
        BY <3>1, <4>1
      <4> QED
        BY <2>3, <2>4, <3>1, <4>1, <4>2 DEF TablePlaces, Looking
    <3>4. CASE ReadingEntries /\ acpi.rest # <<>>
      <4>1. pc' = "entries" /\ Tail(acpi.rest) \in Seq(Addresses) /\ Head(acpi.rest) \in Addresses
        BY <3>1, <3>4 DEF ReadingEntries
      <4>2. Table \in TablesListed
        BY <4>1 DEF Table, TablesListed
      <4>3. Append(acpi.got, Table) \in Seq(TablesListed)
        BY <3>4, <4>2 DEF ReadingEntries
      <4>4. ReadingEntries'
        BY <2>2, <3>1, <4>1, <4>3 DEF ReadingEntries
      <4> QED
        BY <2>3, <2>4, <3>1, <4>1, <4>4 DEF TablePlaces, Looking
    <3>5. CASE ReadingDsdt
      <4>1. pc' = "dsdt" /\ acpi.got \in Seq(TablesListed) /\ acpi.got # <<>>
        BY <3>1, <3>5 DEF ReadingDsdt
      <4>2. \E got \in Seq(TablesListed) : \E t : got # <<>> /\ acpi'.got = Append(got, t)
        BY <3>1, <4>1
      <4> QED
        BY <2>3, <2>4, <3>1, <4>1, <4>2 DEF TablePlaces, Looking
    <3> QED
      BY <3>2, <3>3, <3>4, <3>5
  <2>10. CASE RootTable
    <3>1. /\ pc = "rsdt" /\ pc' = "entries" /\ acpi'.rest = EntriesOf(acpi.got[1])
          /\ acpi'.got = <<>> /\ acpi'.back = "entries"
      BY <1>2, <2>1, <2>10 DEF RootTable, At, Goto, Require, Fail, Running
    <3>2. acpi.got[1] = Root
      BY <1>1, <2>1, <3>1 DEF Reading
    <3>3. EntriesOf(Root) \in Seq(Addresses)
      BY <1>1, <2>4, <3>1, TablesNamed DEF TablePlaces
    <3>4. ReadingEntries'
      BY <2>2, <3>1, <3>2, <3>3 DEF ReadingEntries
    <3> QED
      BY <2>3, <2>4, <3>1, <3>4 DEF TablePlaces, Looking
  <2>11. CASE NextEntry
    <3>1. /\ pc = "entries" /\ pc' = IF acpi.rest = <<>> THEN "tables" ELSE "map"
          /\ acpi' = acpi
      BY <2>11 DEF NextEntry, At, Goto
    <3>2. ReadingEntries
      BY <1>1, <2>1, <3>1 DEF Reading
    <3>3. ReadingEntries'
      BY <2>2, <3>1, <3>2 DEF ReadingEntries
    <3> QED
      BY <2>3, <2>4, <3>1, <3>2, <3>3 DEF TablePlaces, Looking, ReadingEntries
  <2>12. CASE HandleTable
    <3>1. pc = "tables" /\ acpi.got # <<>> /\ acpi.got \in Seq(TablesListed)
      BY <1>1, <2>1, <2>12 DEF Reading, HandleTable, At
    <3>2. \/ pc' = "tables" /\ acpi' = [acpi EXCEPT !.got = Tail(@)]
          \/ /\ pc' = "map" /\ match_structure(Head(acpi.got), "FACP")
             /\ acpi' = [acpi EXCEPT !.rest = <<Head(acpi.got).dsdt>>, !.back = "dsdt"]
      BY <1>2, <2>12 DEF HandleTable, Goto, Require, Fail, Running
    <3>3. CASE pc' = "tables" /\ acpi' = [acpi EXCEPT !.got = Tail(@)]
      <4>1. acpi'.got = Tail(acpi.got) /\ Tail(acpi.got) \in Seq(TablesListed)
        BY <2>1, <3>1, <3>3
      <4> QED
        BY <2>3, <2>4, <3>1, <3>3, <4>1 DEF TablePlaces, Looking
    <3>4. CASE /\ pc' = "map" /\ match_structure(Head(acpi.got), "FACP")
               /\ acpi' = [acpi EXCEPT !.rest = <<Head(acpi.got).dsdt>>, !.back = "dsdt"]
      <4>1. acpi'.rest = <<Head(acpi.got).dsdt>> /\ acpi'.back = "dsdt" /\ acpi'.got = acpi.got
        BY <2>1, <3>4
      <4>2. ReadingDsdt'
        BY <2>2, <3>1, <3>4, <4>1 DEF ReadingDsdt
      <4> QED
        BY <2>3, <2>4, <3>1, <3>4, <4>2 DEF TablePlaces, Looking
    <3> QED
      BY <3>2, <3>3, <3>4
  <2>13. CASE KeepDsdt
    <3>1. pc = "dsdt" /\ pc' = "tables" /\ acpi'.got = Front(Tail(acpi.got))
      BY <2>1, <2>13 DEF KeepDsdt, At, Goto
    <3>2. PICK got \in Seq(TablesListed) : \E t : got # <<>> /\ acpi.got = Append(got, t)
      BY <1>1, <2>1, <3>1 DEF Reading
    <3>3. PICK t : got # <<>> /\ acpi.got = Append(got, t)
      BY <3>2
    <3>4. Front(Tail(Append(got, t))) \in Seq(TablesListed)
      <4>1. Tail(Append(got, t)) = Append(Tail(got), t) /\ Tail(got) \in Seq(TablesListed)
        BY <3>3
      <4>2. Front(Append(Tail(got), t)) = Tail(got)
        BY <4>1 DEF Front
      <4> QED
        BY <4>1, <4>2
    <3> QED
      BY <2>3, <2>4, <3>1, <3>3, <3>4 DEF TablePlaces, Looking
  <2>14. CASE acpi_done
    <3>1. pc' = "card" /\ acpi'.got = <<>>
      BY <2>14 DEF acpi_done, At, Goto
    <3> QED
      BY <3>1 DEF Reading, TablePlaces, Looking
  <2> QED
    BY <1>4, <2>5, <2>6, <2>7, <2>8, <2>9, <2>10, <2>11, <2>12, <2>13, <2>14 DEF Enumerate
<1> QED
  BY <1>3, <1>4

(***************************************************************************)
(* Stops.                                                                  *)
(***************************************************************************)

\* A card that was found on a fit machine is one with a line of its own and a
\* register that is large enough.
LEMMA CardIsFit ==
    ASSUME machine \in Machines, Found, FunctionsFit(machine),
           NEW i \in DOMAIN pci.devices, pci.devices[i].id = "i825x"
    PROVE  /\ pci.devices[i].line \in Irqs \ {TimerIrq, KbdIrq, Cascade}
           /\ ~bar_is_io(FirstBar(pci.devices[i]).address) /\ FirstBar(pci.devices[i]).size = CardBytes
<1> DEFINE d == pci.devices[i]
<1>1. PICK a \in DOMAIN machine.functions : DeviceOf(d, a)
  BY DEF Found, DeviceOf
<1> DEFINE f == machine.functions[a]
<1>2. f.header = 0 /\ d.line = f.line /\ d.bars = read_bars(f.regs).res /\ f.id = "i825x"
  BY <1>1 DEF DeviceOf
<1>3. BarsFit(f.regs) /\ CardFit(f)
  BY <1>2 DEF FunctionsFit
<1>4. /\ f.regs \in [1 .. NumBars -> Registers]
      /\ \A j \in 1 .. NumBars : Holds(f.regs[j]) /\ Decoding(f.regs[j])
  BY RegistersHeld
<1> HIDE DEF f
<1>5. PICK j \in 1 .. NumBars : /\ FirstUsed(f.regs, j) /\ ~bar_is_io(f.regs[j].value)
                                /\ Decodes(f.regs[j]) = CardBytes
  BY <1>3 DEF CardFit
<1>6. read_bars(f.regs).res # <<>> /\ read_bars(f.regs).res[1] = BarFound(f.regs, j)
  BY <1>3, <1>4, <1>5, BarsRead
<1>7. FirstBar(d) = BarFound(f.regs, j)
  BY <1>2, <1>6 DEF FirstBar
<1>8. BarSize(f.regs[j].value, Probe(f.regs[j])) = Decodes(f.regs[j])
  <2>1. PICK bar \in Registers : bar = f.regs[j] /\ Decoding(bar)
    BY <1>4
  <2>2. bar.value # 0 /\ ~bar_is_io(bar.value)
    BY <1>5, <2>1 DEF FirstUsed
  <2>3. BarSize(bar.value, Probe(bar)) = Decodes(bar)
    BY <2>1, <2>2, SizeRead
  <2> QED
    BY <2>1, <2>3
<1>9. ~bar_is_io(FirstBar(d).address) /\ FirstBar(d).size = CardBytes
  <2>1. FirstBar(d).address = f.regs[j].value /\ FirstBar(d).size = Decodes(f.regs[j])
    BY <1>7, <1>8 DEF BarFound
  <2> QED
    BY <1>5, <2>1
<1>10. d.line \in Irqs \ {TimerIrq, KbdIrq, Cascade}
  BY <1>2, <1>3 DEF CardFit
<1> QED
  BY <1>9, <1>10

\* What probe_bus and read_bars insist on.
LEMMA EnumerationStops ==
    ASSUME IInv, SInv, Enumerate, ~Running'
    PROVE  stop' \in FirmwareStops /\ ~Fit(machine)
<1>1. Running /\ machine \in Machines /\ Found /\ Reading
  BY EnumerationApart DEF IInv, SInv, Ordered, TypeOK
<1>2. CASE pci_init \/ pci_done \/ get_description \/ NextEntry \/ KeepDsdt \/ acpi_done
  BY <1>1, <1>2 DEF pci_init, pci_done, get_description, NextEntry, KeepDsdt, acpi_done, Goto, Running
<1>3. CASE probe
  <2> DEFINE a == Head(pci.todo)
             f == machine.functions[a]
  <2>1. /\ a \in DOMAIN machine.functions
        /\ \/ f.header = 0 /\ ~read_bars(pci.config[a]).ok /\ stop' = "bad register"
           \/ f.header = 1 /\ a[1] # f.primary /\ stop' = "bad bridge"
           \/ f.header = 2 /\ stop' = "bad bridge"
    BY <1>1, <1>3 DEF probe, Goto, Require, Fail, Running
  <2> HIDE DEF a
  <2>2. pci.config[a] = f.regs
    BY <1>1, <2>1 DEF Found
  <2>3. BarsFit(f.regs) => read_bars(f.regs).ok
    <3>1. f.regs \in [1 .. NumBars -> Registers] /\ \A i \in 1 .. NumBars : Holds(f.regs[i])
      BY <1>1, <2>1, RegistersHeld
    <3> QED
      BY <3>1, BarsRead
  <2>4. ~FunctionsFit(machine)
    <3>1. SUFFICES ASSUME FunctionsFit(machine) PROVE FALSE
      OBVIOUS
    <3>2. (f.header = 0 /\ BarsFit(f.regs)) \/ (f.header = 1 /\ f.primary = a[1])
      BY <2>1, <3>1 DEF FunctionsFit
    <3>3. CASE f.header = 0 /\ ~read_bars(pci.config[a]).ok
      BY <2>2, <2>3, <3>2, <3>3
    <3>4. CASE f.header = 1 /\ a[1] # f.primary
      BY <3>2, <3>4
    <3>5. CASE f.header = 2
      BY <3>2, <3>5
    <3> QED
      BY <2>1, <3>3, <3>4, <3>5
  <2> QED
    BY <2>1, <2>4 DEF Fit, FirmwareStops
<1>4. CASE acpi_test
  <2>1. stop' = "bad table" /\ Pointer(machine) = None
    BY <1>1, <1>4 DEF acpi_test, Goto, Require, Fail, Running
  <2> QED
    BY <2>1 DEF Fit, TablesFit, FirmwareStops
<1>5. CASE Enlarge
  <2>1. pc = "grow" /\ acpi.window = FirstWindow(Head(acpi.rest))
    BY <1>1, <1>5 DEF Enlarge, At, Reading
  <2>2. /\ Head(acpi.rest) \in DOMAIN machine.tables
        /\ TablesFit(machine) => Readable(Table)
    BY <1>1, <2>1, TableLooked DEF Looking, Table
  <2>3. Shows(acpi.window, Head(acpi.rest), Header)
    BY <1>1, <2>1, <2>2, TableShows
  <2>4. stop' = "bad table" /\ ~(Table.length >= Header)
    BY <1>1, <1>5, <2>3 DEF Enlarge, Goto, Require, Fail, Running
  <2> QED
    BY <2>2, <2>4 DEF Fit, Readable, FirmwareStops
<1>6. CASE CopyTable
  <2>1. pc = "copy" /\ acpi.window = WindowOf(Head(acpi.rest))
    BY <1>1, <1>6 DEF CopyTable, At, Reading
  <2>2. /\ Head(acpi.rest) \in DOMAIN machine.tables
        /\ TablesFit(machine) => Readable(Table)
    BY <1>1, <2>1, TableLooked DEF Looking, Table
  <2>3. Shows(acpi.window, Head(acpi.rest), Table.length)
    BY <1>1, <2>1, <2>2, TableShows DEF Table
  <2>4. stop' = "bad table" /\ ~Table.sum
    BY <1>1, <1>6, <2>3 DEF CopyTable, Goto, Require, Fail, Running
  <2> QED
    BY <2>2, <2>4 DEF Fit, Readable, FirmwareStops
<1>7. CASE RootTable
  <2>1. pc = "rsdt" /\ stop' = "bad table" /\ acpi.got[1].revision # 1
    BY <1>1, <1>7 DEF RootTable, At, Goto, Require, Fail, Running
  <2>2. acpi.got = <<Root>>
    BY <1>1, <2>1 DEF Reading
  <2>3. acpi.got[1] = Root
    BY <2>2
  <2> QED
    BY <2>1, <2>3, ListedFit DEF Fit, FirmwareStops
<1>8. CASE HandleTable
  <2> DEFINE t == Head(acpi.got)
  <2>1. /\ stop' = "bad table"
        /\ \/ match_structure(t, "APIC") /\ ~MadtOk(t)
           \/ match_structure(t, "FACP") /\ ~FadtOk(t)
    BY <1>1, <1>8 DEF HandleTable, Goto, Require, Fail, Running
  <2>2. acpi.got # <<>> /\ acpi.got \in Seq(TablesListed)
    BY <1>1, <1>8 DEF HandleTable, At, Reading
  <2>3. t \in TablesListed
    BY <2>2
  <2> QED
    BY <2>1, <2>3, ListedFit DEF Fit, FirmwareStops
<1> QED
  BY <1>2, <1>3, <1>4, <1>5, <1>6, <1>7, <1>8 DEF Enumerate

\* A handler is only refused for a line that the card should not have.
LEMMA RegisterStops ==
    ASSUME IInv, SInv, Register, ~Running'
    PROVE  stop' = "line taken" /\ ~Fit(machine)
<1> USE LinesExist
<1>1. TypeOK /\ machine \in Machines /\ Handlers /\ LinesOpen /\ Found
  BY DEF IInv, SInv, TypeOK
<1>2. ASSUME NEW at, NEW irq \in Irqs, NEW who, NEW next, SetHandler(at, irq, who, next),
             irq_handlers[irq] = None
      PROVE  FALSE
  BY <1>2 DEF SetHandler, At, Goto, Require, Fail, Running
<1>3. ASSUME NEW at, NEW irq \in Irqs, NEW next, pic_unmask_irq(at, irq, next),
             at \notin Outside, irq \notin OpenLines
      PROVE  FALSE
  <2>1. Running /\ pc = at /\ (irq = Cascade \/ irq \notin pic.mask)
    BY <1>3 DEF pic_unmask_irq, At, Goto, Require, Fail, Running
  <2> QED
    BY <1>1, <1>3, <2>1 DEF LinesOpen, OpenLines
<1>4. ASSUME nic.device # None,
             SetHandler("card irq", Line, "nic", "card unmask") \/ pic_unmask_irq("card unmask", Line, "reset")
      PROVE  stop' = "line taken" /\ ~Fit(machine)
  <2>1. /\ Running /\ stop' = "line taken"
        /\ \/ pc = "card irq" /\ ~(Line \in Irqs /\ irq_handlers[Line] = None)
           \/ pc = "card unmask" /\ (Line = Cascade \/ Line \notin pic.mask)
    BY <1>4 DEF SetHandler, pic_unmask_irq, At, Goto, Require, Fail, Running
  <2>2. SUFFICES ASSUME FunctionsFit(machine) PROVE FALSE
    BY <2>1 DEF Fit
  <2>3. Line \in Irqs \ {TimerIrq, KbdIrq, Cascade}
    BY <1>1, <1>4, <2>2, CardIsFit DEF TypeOK, Found, Line
  <2>4. CASE pc = "card irq"
    BY <1>1, <2>1, <2>3, <2>4 DEF Handlers, HasLine, CardPlaces, CardStarting, UserMode, CardEnding
  <2>5. CASE pc = "card unmask"
    BY <1>1, <2>1, <2>3, <2>5 DEF LinesOpen, OpenLines, CardOpen, Outside, Starting, Restoring
  <2> QED
    BY <2>1, <2>4, <2>5
<1>5. CASE register_irq_handler("timer", "timer unmask", TimerIrq, "timer", "kbd")
  <2>1. Running /\ pc \in {"timer", "timer unmask"}
    BY <1>5 DEF register_irq_handler, SetHandler, pic_unmask_irq, At, Running
  <2>2. pc = "timer" => irq_handlers[TimerIrq] = None
    BY <1>1, <2>1 DEF Handlers, TimerPlaces, KbdPlaces, Enumerating, CardStarting, UserMode, CardEnding
  <2>3. pc = "timer unmask" => TimerIrq \notin OpenLines
    <3>1. pc = "timer unmask" => ~HasLine /\ pc \notin TimerOpen
      BY DEF TimerOpen, HasLine, CardPlaces, CardStarting, UserMode, CardEnding
    <3>2. pc = "timer unmask" => OpenLines \subseteq {Cascade, KbdIrq}
      BY <3>1 DEF OpenLines
    <3>3. TimerIrq \notin {Cascade, KbdIrq}
      BY DEF TimerIrq, KbdIrq, Cascade
    <3> QED
      BY <3>2, <3>3
  <2> QED
    BY <1>2, <1>3, <1>5, <2>2, <2>3 DEF register_irq_handler, SetHandler, pic_unmask_irq, At, Outside,
                                        Starting, Restoring
<1>6. CASE register_irq_handler("kbd", "kbd unmask", KbdIrq, "kbd", "pci")
  <2>1. Running /\ pc \in {"kbd", "kbd unmask"}
    BY <1>6 DEF register_irq_handler, SetHandler, pic_unmask_irq, At, Running
  <2>2. pc = "kbd" => irq_handlers[KbdIrq] = None
    BY <1>1, <2>1 DEF Handlers, KbdPlaces, Enumerating, CardStarting, UserMode, CardEnding
  <2>3. pc = "kbd unmask" => KbdIrq \notin OpenLines
    <3>1. pc = "kbd unmask" => ~HasLine /\ pc \notin KbdOpen
      BY DEF KbdOpen, HasLine, CardPlaces, CardStarting, UserMode, CardEnding
    <3>2. pc = "kbd unmask" => OpenLines \subseteq {Cascade, TimerIrq}
      BY <3>1 DEF OpenLines
    <3>3. KbdIrq \notin {Cascade, TimerIrq}
      BY DEF TimerIrq, KbdIrq, Cascade
    <3> QED
      BY <3>2, <3>3
  <2> QED
    BY <1>2, <1>3, <1>6, <2>2, <2>3 DEF register_irq_handler, SetHandler, pic_unmask_irq, At, Outside,
                                        Starting, Restoring
<1> QED
  BY <1>4, <1>5, <1>6 DEF Register, register_irq_handler

\* What is unregistered is registered, and its line open.
LEMMA UnregisterGoesOn == ASSUME IInv, SInv, Unregister PROVE Running'
<1> USE LinesExist DEF IInv, SInv
<1> SUFFICES ASSUME ~Running' PROVE FALSE
  OBVIOUS
<1>1. ASSUME NEW at, NEW irq \in Irqs, NEW next, pic_mask_irq(at, irq, next),
             irq \in OpenLines, at \notin Outside
      PROVE  FALSE
  BY <1>1 DEF pic_mask_irq, At, Goto, Require, Fail, Running, LinesOpen
<1>2. ASSUME NEW at, NEW irq, NEW next, ClearHandler(at, irq, next), irq_handlers[irq] # None PROVE FALSE
  BY <1>2 DEF ClearHandler, Goto, Require, Fail, At, Running
<1>3. CASE nic.device # None /\ Release("irq off", "irq clear", Line, "kbd off")
  <2>1. Running /\ pc \in {"irq off", "irq clear"}
    BY <1>3 DEF Release, pic_mask_irq, ClearHandler, At, Running
  <2>2. HasLine /\ Line \in Irqs \ {TimerIrq, KbdIrq} /\ irq_handlers[Line] = "nic"
    BY <1>3, <2>1 DEF HasLine, CardPlaces, CardEnding, Handlers
  <2>3. pc = "irq off" => Line \in OpenLines
    BY <2>2 DEF OpenLines, CardOpen, CardPlaces, CardEnding
  <2> QED
    BY <1>1, <1>2, <1>3, <2>2, <2>3, NoneAssumption DEF Release, pic_mask_irq, At, Outside, Starting, Restoring
<1>4. CASE Release("kbd off", "kbd clear", KbdIrq, "timer off")
  <2>1. Running /\ pc \in {"kbd off", "kbd clear"}
    BY <1>4 DEF Release, pic_mask_irq, ClearHandler, At, Running
  <2>2. irq_handlers[KbdIrq] = "kbd"
    BY <2>1 DEF Handlers, KbdPlaces
  <2>3. pc = "kbd off" => KbdIrq \in OpenLines
    BY DEF OpenLines, KbdOpen, KbdPlaces
  <2> QED
    BY <1>1, <1>2, <1>4, <2>2, <2>3, NoneAssumption DEF Release, pic_mask_irq, At, Outside, Starting, Restoring
<1>5. CASE Release("timer off", "timer clear", TimerIrq, "isr off")
  <2>1. Running /\ pc \in {"timer off", "timer clear"}
    BY <1>5 DEF Release, pic_mask_irq, ClearHandler, At, Running
  <2>2. irq_handlers[TimerIrq] = "timer"
    BY <2>1 DEF Handlers, TimerPlaces
  <2>3. pc = "timer off" => TimerIrq \in OpenLines
    BY DEF OpenLines, TimerOpen, TimerPlaces
  <2> QED
    BY <1>1, <1>2, <1>5, <2>2, <2>3, NoneAssumption DEF Release, pic_mask_irq, At, Outside, Starting, Restoring
<1> QED
  BY <1>3, <1>4, <1>5 DEF Unregister

\* What the constructors insist on.
LEMMA SetUpStops ==
    ASSUME IInv, SInv, SetUp, ~Running'
    PROVE  stop' \in FirmwareStops /\ ~Fit(machine)
<1>1. TypeOK /\ machine \in Machines /\ Listed /\ Flags /\ Found
  BY DEF IInv, SInv, TypeOK
<1>2. CASE construct_mm
  <2>1. stop' = "no memory" /\ ~MemoryFit(machine)
    BY <1>2 DEF construct_mm, MemoryFit, At, Goto, Require, Fail, Running
  <2> QED
    BY <2>1 DEF Fit, FirmwareStops
<1>3. CASE i825x_ethernet_device
  <2>1. /\ stop' = "bad register" /\ HasCard
        /\ ~(~bar_is_io(FirstBar(pci.devices[Card]).address) /\ FirstBar(pci.devices[Card]).size = CardBytes)
    BY <1>3 DEF i825x_ethernet_device, At, Goto, Require, Fail, Running
  <2>2. Card \in DOMAIN pci.devices /\ pci.devices[Card].id = "i825x"
    BY <1>1, <2>1, CardFound
  <2>3. ~FunctionsFit(machine)
    BY <1>1, <2>1, <2>2, CardIsFit
  <2> QED
    BY <2>1, <2>3 DEF Fit, FirmwareStops
<1>4. CASE syscall_enabler
  <2>1. Running /\ pc = "user" /\ cpu.sce
    BY <1>4 DEF syscall_enabler, At, Goto, Require, Fail, Running
  <2> QED
    BY <1>1, <2>1 DEF Flags
<1>5. CASE cpu_init \/ isr_init \/ NoCard \/ reset \/ Publish \/ Network \/ switch_to
  BY <1>5 DEF cpu_init, isr_init, NoCard, reset, Publish, Network, switch_to, At, Goto, Running
<1> QED
  BY <1>2, <1>3, <1>4, <1>5 DEF SetUp

\* The destructors find what the constructors left.
LEMMA DestroyGoesOn == ASSUME IInv, SInv, Destroy PROVE Running'
<1>1. Flags /\ Handlers
  BY DEF SInv
<1> SUFFICES ASSUME ~Running' PROVE FALSE
  OBVIOUS
<1>2. CASE Leave
  <2>1. Running /\ pc = "leave" /\ ~cpu.sce
    BY <1>2 DEF Leave, At, Goto, Require, Fail, Running
  <2> QED
    BY <1>1, <2>1 DEF Flags, UserMode
<1>3. CASE IsrOff
  <2>1. Running /\ pc = "isr off" /\ ~ \A irq \in Irqs : irq_handlers[irq] = None
    BY <1>3 DEF IsrOff, At, Goto, Require, Fail, Running
  <2>2. pc \notin TimerPlaces \cup KbdPlaces /\ ~HasLine
    BY <2>1 DEF TimerPlaces, KbdPlaces, HasLine, CardPlaces, Enumerating, CardStarting, UserMode, CardEnding
  <2>3. \A irq \in Irqs : irq_handlers[irq] = None
    BY <1>1, <2>1, <2>2 DEF Handlers
  <2> QED
    BY <2>1, <2>3
<1>4. CASE CardOff \/ PicOff \/ MmOff \/ CpuOff
  BY <1>4 DEF CardOff, PicOff, MmOff, CpuOff, At, Goto, Running
<1> QED
  BY <1>2, <1>3, <1>4 DEF Destroy

\* A handler finds what it is for, but for the card's after the unmapping.
LEMMA HandlerStops ==
    ASSUME IInv, SInv, Handle, ~Running'
    PROVE  stop' = "page fault in handler" /\ nic.device # None /\ ~nic.master /\ nic' = nic
<1>1. Running /\ InHandler /\ isr \in Irqs
  BY DEF Handle, InHandler, Running, IInv, TypeOK
<1>2. /\ irq_handlers[isr] # None
      /\ irq_handlers[isr] \in {"timer", "kbd", "nic", None}
      /\ isr = KbdIrq => kbd.full
  BY <1>1 DEF IInv, SInv, TypeOK, Served
<1>3. irq_handlers[isr] = "kbd" => isr = KbdIrq
  BY <1>1, LinesExist, NoneAssumption DEF SInv, Handlers
<1>4. irq_handlers[isr] = "nic" => HasLine
  BY <1>1, LinesExist, NoneAssumption DEF SInv, Handlers
<1>5. irq_handlers[isr] = "nic" /\ ~nic.mapped /\ stop' = "page fault in handler" /\ nic' = nic
  <2>1. CASE irq_handlers[isr] = "timer"
    BY <1>1, <2>1 DEF Handle, Running
  <2>2. CASE irq_handlers[isr] = "kbd"
    BY <1>1, <1>2, <1>3, <2>2 DEF Handle, Running
  <2>3. CASE irq_handlers[isr] = "nic"
    <3>1. CASE nic.mapped
      BY <1>1, <2>3, <3>1 DEF Handle, Running
    <3>2. CASE ~nic.mapped
      BY <2>3, <3>2 DEF Handle, Fail, devs
    <3> QED
      BY <2>3, <3>1, <3>2
  <2> QED
    BY <1>2, <2>1, <2>2, <2>3
<1>6. nic.device # None /\ pc \in CardPlaces
  BY <1>4, <1>5 DEF HasLine
<1>7. ~nic.master
  <2>1. CardState
    BY DEF IInv, Ordered
  <2>2. pc \in {"irq off", "irq clear"}
    BY <1>1, <1>5, <1>6, <2>1 DEF CardState, CardPlaces, CardStarting, UserMode, CardEnding
  <2> QED
    BY <1>1, <2>1, <2>2 DEF CardState
<1> QED
  BY <1>5, <1>6, <1>7

\* Every step that stops the machine does so for a known reason.
LEMMA StopsStep == ASSUME IInv, SInv, Next PROVE OnlyKnownStops'
<1>1. OnlyKnownStops /\ StopsOnce
  BY DEF IInv, SInv, Ordered
<1>2. SUFFICES ASSUME ~Running' PROVE OnlyKnownStops'
  BY DEF OnlyKnownStops, Running
<1>3. CASE Enumerate
  <2>1. stop' \in FirmwareStops /\ ~Fit(machine) /\ machine' = machine
    BY <1>2, <1>3, EnumerationStops, MainThread
  <2> QED
    BY <2>1 DEF OnlyKnownStops
<1>4. CASE SetUp
  <2>1. stop' \in FirmwareStops /\ ~Fit(machine) /\ machine' = machine
    BY <1>2, <1>4, SetUpStops, MainThread
  <2> QED
    BY <2>1 DEF OnlyKnownStops
<1>5. CASE Register
  <2>1. stop' \in FirmwareStops /\ ~Fit(machine) /\ machine' = machine
    BY <1>2, <1>5, RegisterStops, MainThread DEF FirmwareStops
  <2> QED
    BY <2>1 DEF OnlyKnownStops
<1>6. CASE Unregister \/ Destroy
  BY <1>2, <1>6, UnregisterGoesOn, DestroyGoesOn
<1>7. CASE User
  <2>1. stop' = "user fault" \/ (read_key /\ ~cpu.rflag_if)
    BY <1>2, <1>7 DEF User, syscall, sysret, user_fault, restore_original_context, read_key, At, Goto,
                      Fail, Running
  <2>2. read_key => cpu.rflag_if
    BY DEF read_key, At, SInv, Flags, Running, Outside, Starting, Restoring
  <2> QED
    BY <2>1, <2>2 DEF OnlyKnownStops
<1>8. CASE Interrupt
  <2>1. ASSUME NEW irq \in Irqs, Deliver(irq) PROVE FALSE
    BY <1>2, <2>1, DeliveredServed DEF Deliver, Running
  <2>2. CASE Handle
    BY <1>2, <2>2, HandlerStops DEF OnlyKnownStops
  <2>3. CASE EndOfInterrupt
    BY <1>2, <2>3 DEF EndOfInterrupt, Running
  <2> QED
    BY <1>8, <2>1, <2>2, <2>3 DEF Interrupt
<1>9. CASE Spurious
  BY <1>9 DEF Spurious, Fail, OnlyKnownStops
<1>10. CASE Devices
  BY <1>2, <1>10 DEF Devices, Running
<1>11. CASE Report
  BY <1>1, <1>11 DEF Report, OnlyKnownStops, devs
<1> QED
  BY <1>3, <1>4, <1>5, <1>6, <1>7, <1>8, <1>9, <1>10, <1>11, Steps

\* Every step keeps what explains the stops.
LEMMA StopsInductive == IInv /\ SInv /\ [Next]_vars => SInv'
<1> SUFFICES ASSUME IInv, SInv, [Next]_vars PROVE SInv'
  OBVIOUS
<1>1. CASE Next
  BY <1>1, FlagsStep, LinesStep, ServedStep, FoundStep, ReadingStep, StopsStep DEF SInv
<1>2. CASE UNCHANGED vars
  <2> USE <1>2 DEF SInv, vars, devs, Running
  <2>1. Flags'
    BY DEF Flags
  <2>2. LinesOpen' /\ Handlers'
    BY DEF LinesOpen, Handlers, OpenLines, HasLine, Line
  <2>3. Served' /\ Found'
    BY DEF Served, InHandler, Found
  <2>4. Reading'
    BY DEF Reading, ReadingRoot, ReadingEntries, ReadingDsdt, Root, TablesListed, Addresses, WindowOf
  <2>5. OnlyKnownStops'
    BY DEF OnlyKnownStops
  <2> QED
    BY <2>1, <2>2, <2>3, <2>4, <2>5
<1> QED
  BY <1>1, <1>2

(***************************************************************************)
(* The theorems.                                                           *)
(***************************************************************************)

\* Every step of stage3_entry, an interrupt, a device or a report keeps it.
LEMMA Step == IInv /\ [Next]_vars => IInv'
<1> SUFFICES ASSUME IInv, [Next]_vars PROVE IInv'
  OBVIOUS
<1>1. CASE Next
  <2>1. TypeOK' /\ StopsOnce' /\ Listed' /\ WindowShut'
    BY <1>1, TypesKept, PlacesKept, OtherSteps
  <2>2. MaskKept' /\ KbdHandler' /\ CardHandler' /\ CardState' /\ PutBack'
    BY <1>1, MaskStep, KbdStep, CardHandlerStep, CardStateStep, PutBackStep
  <2>3. Serving' /\ ByteSignalled'
    BY <1>1, ServingStep, ByteStep
  <2> QED
    BY <2>1, <2>2, <2>3 DEF IInv, Ordered
<1>2. CASE UNCHANGED vars
  <2> USE <1>2 DEF IInv, Ordered, vars, devs, Running
  <2>1. TypeOK'
    BY DEF TypeOK
  <2>2. StopsOnce' /\ Listed' /\ WindowShut'
    BY DEF StopsOnce, Listed, WindowShut
  <2>3. MaskKept' /\ KbdHandler' /\ PutBack'
    BY DEF MaskKept, KbdHandler, PutBack
  <2>4. CardHandler' /\ CardState'
    BY DEF CardHandler, CardState, Line
  <2>5. Serving' /\ ByteSignalled'
    BY DEF Serving, ByteSignalled
  <2> QED
    BY <2>1, <2>2, <2>3, <2>4, <2>5
<1> QED
  BY <1>1, <1>2

\* The invariant, on every machine: values keep their sorts, and what is
\* registered and open is what the place of stage3_entry says.
LEMMA Always == Spec => []IInv
<1>1. Init => IInv
  BY Initial
<1>2. IInv /\ [Next]_vars => IInv'
  BY Step
<1> QED
  BY <1>1, <1>2, PTL DEF Spec

\* On every machine, however many interrupts come: outside of a handler no
\* line is in service, a byte that waits has its interrupt coming, and while
\* the card is published its driver is whole, with its handler and line open.
THEOREM InterruptsCorrect == Spec => []InterruptsSound
BY Always, Implied, PTL

\* When kernel_main is left the processor, the controllers, the handlers, the
\* card and the window of ACPI are as the firmware had them.
THEOREM ShutdownCorrect == Spec => []ShutdownRestores
BY Always, Implied, PTL

\* On every machine with such hardware, whatever interrupts come and whatever the
\* user program does: stage3_entry stops only for what the machine lacks, for a
\* fault of the program, and for the two interrupts that come too late.
THEOREM StopsCorrect == Spec => []OnlyKnownStops
<1>1. Init => SInv
  BY InitialStops
<1>2. IInv /\ SInv /\ [Next]_vars => SInv'
  BY StopsInductive
<1>3. SInv => OnlyKnownStops
  BY DEF SInv
<1> QED
  BY <1>1, <1>2, <1>3, Always, PTL DEF Spec

\* Sizing a base address register leaves no trace: the enumeration puts back
\* what it finds in the registers of every function.
THEOREM ConfigCorrect == Spec => []ConfigRestored
<1>1. Init => SInv
  BY InitialStops
<1>2. IInv /\ SInv /\ [Next]_vars => SInv'
  BY StopsInductive
<1>3. SInv => ConfigRestored
  BY DEF SInv, Found, ConfigRestored
<1> QED
  BY <1>1, <1>2, <1>3, Always, PTL DEF Spec
================================================================================
