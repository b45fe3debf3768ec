-------------------------------- MODULE MCKernel --------------------------------
(***************************************************************************)
(* Machines for the kernel: two that are fit (a card behind a bridge with  *)
(* a line of the second controller, a card on the first bus with one of    *)
(* the first), one without a card, and some that each lack one thing.      *)
(***************************************************************************)
EXTENDS Kernel

NoBar == [range |-> 256, size |-> 256, flags |-> 0, value |-> 0]
MemBar(size, at) == [range |-> 256, size |-> size, flags |-> 0, value |-> at]
IoBar(size, at) == [range |-> 256, size |-> size, flags |-> 1, value |-> at + 1]
WideBar(size, at) == [range |-> 256, size |-> size, flags |-> 4, value |-> at + 4]
High == [range |-> 256, size |-> 1, flags |-> 0, value |-> 0]

Device(id, multi, line, regs) ==
    [header |-> 0, id |-> id, multi |-> multi, line |-> line, regs |-> regs, primary |-> 0, secondary |-> 0]
Bridge(header, from, to) ==
    [header |-> header, id |-> "other", multi |-> FALSE, line |-> 255, regs |-> <<NoBar, NoBar, NoBar>>,
     primary |-> from, secondary |-> to]

Host == Device("other", FALSE, 255, <<NoBar, NoBar, NoBar>>)
Disk == Device("other", TRUE, 14, <<NoBar, IoBar(8, 32), MemBar(16, 48)>>)
Usb == Device("other", TRUE, 10, <<IoBar(4, 16), NoBar, NoBar>>)
WideCard == Device("i825x", FALSE, 11, <<WideBar(32, 64), High, IoBar(8, 40)>>)
PlainCard(line) == Device("i825x", FALSE, line, <<MemBar(32, 96), NoBar, IoBar(16, 160)>>)
Torn == Device("other", FALSE, 255, <<NoBar, NoBar, WideBar(32, 64)>>)
IoCard == Device("i825x", FALSE, 11, <<IoBar(32, 96), NoBar, NoBar>>)

Behind == (<<0, 0, 0>> :> Host) @@ (<<0, 1, 0>> :> Disk) @@ (<<0, 1, 1>> :> Usb) @@
          (<<0, 2, 0>> :> Bridge(1, 0, 1)) @@ (<<1, 1, 0>> :> WideCard)
Flat(card) == (<<0, 0, 0>> :> Host) @@ (<<0, 2, 0>> :> card)

Par(sig, sum, rev, sum2, at) == [sig |-> sig, sum |-> sum, revision |-> rev, sum2 |-> sum2, rsdt |-> at]
Junk == Par(FALSE, TRUE, 0, FALSE, 0)
Tab(sig, length, sum, revision, entries, dsdt) ==
    [sig |-> sig, length |-> length, sum |-> sum, revision |-> revision, entries |-> entries, dsdt |-> dsdt, tail |-> 0]

Local == [type |-> "processor_local_apic", len |-> 8, valid |-> TRUE]
IoApic == [type |-> "io_apic", len |-> 12, valid |-> TRUE]

\* pages of 8; a table that ends in the next page, one that needs three pages
Tables(sum, rev, facp) ==
    (17 :> Tab("RSDT", 5, TRUE, rev, <<30, 35, 44, 99>>, 0)) @@
    (30 :> Tab("APIC", 5, TRUE, 1, <<Local, IoApic>>, 0)) @@
    (35 :> Tab("FACP", 7, TRUE, facp, <<>>, 71)) @@
    (44 :> Tab("SSDT", 3, TRUE, 1, <<>>, 0)) @@
    (71 :> Tab("DSDT", 14, sum, 1, <<>>, 0))

Good == [memory |-> <<[type |-> "available", base |-> 0, length |-> 1],
                      [type |-> "reserved", base |-> 2, length |-> 20],
                      [type |-> "available", base |-> 2, length |-> 40]>>,
         mask |-> {3, 8, 12}, functions |-> Behind, line |-> 11, ims |-> TRUE,
         ebda |-> <<Junk, Par(TRUE, TRUE, 0, FALSE, 17)>>, bios |-> <<Junk>>,
         tables |-> Tables(TRUE, 1, 1)]

OldBoard == [Good EXCEPT !.functions = Flat(PlainCard(5)), !.line = 5, !.ims = FALSE, !.mask = {}, !.tables[30].tail = -1,
                         !.ebda = <<Par(TRUE, TRUE, 2, FALSE, 99)>>,
                         !.bios = <<Par(TRUE, FALSE, 0, TRUE, 99), Par(TRUE, TRUE, 1, TRUE, 99),
                                    Par(TRUE, TRUE, 2, TRUE, 17)>>]
Bare == [Good EXCEPT !.functions = Flat(Host), !.line = None]

Unfit ==
    {[Good EXCEPT !.memory = <<[type |-> "available", base |-> 2, length |-> 1]>>],
     [Good EXCEPT !.functions = Flat(PlainCard(255)), !.line = 255],
     [Good EXCEPT !.functions = Flat(PlainCard(2)), !.line = None],
     [Good EXCEPT !.functions = Flat(IoCard)],
     [Good EXCEPT !.functions = Flat(Torn), !.line = None],
     [Good EXCEPT !.functions = Flat(Bridge(2, 0, 1)), !.line = None],
     [Good EXCEPT !.functions = Flat(Bridge(1, 1, 2)), !.line = None],
     [Good EXCEPT !.ebda = <<Junk>>],
     [Good EXCEPT !.tables = Tables(FALSE, 1, 1)],
     [Good EXCEPT !.tables = Tables(TRUE, 2, 1)],
     [Good EXCEPT !.tables = Tables(TRUE, 1, 3)],
     [Good EXCEPT !.tables[30].tail = 1]}

MCMachines == {Good, OldBoard, Bare} \cup Unfit

Code(off, op, info) == [off |-> off, op |-> op, info |-> info]

\* Kernel functions with gaps, the common interrupt entry, and a user program.
MCFunctions ==
    << << [begin |-> 10, end |-> 15, codes |-> <<Code(2, "ALLOC_SMALL", 1), Code(1, "PUSH_NONVOL", 0)>>],
          [begin |-> 20, end |-> 26, codes |-> <<Code(4, "SAVE_NONVOL", 0), Code(0, "operand", 2),
                                                 Code(3, "ALLOC_LARGE", 0), Code(0, "operand", 3)>>],
          [begin |-> 30, end |-> 36, codes |-> <<Code(2, "ALLOC_SMALL", 2), Code(0, "PUSH_MACHFRAME", 0)>>] >>,
       << [begin |-> 60, end |-> 66, codes |-> <<Code(1, "PUSH_NONVOL", 0)>>] >> >>

MCImages == <<[first |-> 10, last |-> 49], [first |-> 60, last |-> 79]>>
MCSymbols == <<10, 20, 30, 40>>

\* A plain chain; a fault in a prologue, behind an interrupt; a leaf function
\* (40) called at the end of one that does not return; a user program's fault.
MCChains ==
    {[skip |-> 1, calls |-> <<12, 25, 13>>],
     [skip |-> 1, calls |-> <<13, 40, 26, 15>>],
     [skip |-> 2, calls |-> <<14, 33, 22, 25>>],
     [skip |-> 2, calls |-> <<14, 33, 11, 26, 10>>],
     [skip |-> 2, calls |-> <<14, 33, 61, 65>>]}
================================================================================
