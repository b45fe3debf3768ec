---------------------------------- MODULE Acpi ----------------------------------
(***************************************************************************)
(* The ACPI tables that the kernel reads at boot (kernel/kernel.cpp): the  *)
(* search for the root pointer, the window through which a table is read   *)
(* (mem_map_helper), and what is required of each table.                   *)
(*                                                                         *)
(* A table is [sig, length, sum, revision, entries, dsdt]; sum says        *)
(* whether its bytes add up to zero.  Lengths are in units of which Page   *)
(* make a page, Header a table header; an entry of the root table is one.  *)
(***************************************************************************)
EXTENDS Integers, SequencesExt

CONSTANTS Page, Header

ASSUME AcpiAssumption == Page \in Nat \ {0} /\ Header \in 1 .. Page

-------------------------------------------------------------------------------
(* find_rsdp                                                               *)

v1 == 0
v2 == 2

Accepts(p) ==
    /\ p.sig /\ p.sum
    /\ p.revision = v1 \/ (p.revision = v2 /\ p.sum2)

\* The paragraphs are looked at in turn; 0 if none will do.
find_rsdp(area) == SelectInSeq(area, Accepts)

-------------------------------------------------------------------------------
(* mem_map_helper                                                          *)

round_up(n) == ((n + Page - 1) \div Page) * Page
mapped_base(phys) == phys - (phys % Page)

mapped_length(phys, length) == round_up(phys + length) - mapped_base(phys)

\* The window of a mapping, and whether it shows some bytes.
Window(phys, length) == [base |-> mapped_base(phys), mapped |-> mapped_length(phys, length), length |-> length]
Shows(w, phys, length) == w.base <= phys /\ phys + length <= w.base + w.mapped

\* get_description maps a page at first.
FirstWindow(phys) == Window(phys, Page)

TooSmall(w, length) == length > w.length

-------------------------------------------------------------------------------
(* The tables                                                              *)

\* (rsdt_desc.length - sizeof(description)) / 4 entries
EntriesOf(t) == SubSeq(t.entries, 1, t.length - Header)

\* A table counts as one of a kind if it is long enough for it; tail is what
\* it has beyond that (and beyond its entries), negative if it is cut.
match_structure(t, sig) == t.sig = sig /\ t.tail >= 0

\* handle(multiple_apic_description): the entries fill the table exactly, each
\* has the length of its type and values that are understood.
icst_length == [processor_local_apic |-> 8, io_apic |-> 12, interrupt_source_override |-> 10, local_apic_nmi |-> 6]

MadtOk(t) ==
    /\ \A i \in DOMAIN t.entries : /\ t.entries[i].type \in DOMAIN icst_length
                                   /\ t.entries[i].len = icst_length[t.entries[i].type]
                                   /\ t.entries[i].valid
    /\ t.tail = 0

\* handle(fixed_acpi_description): a known revision, and its length
FadtOk(t) == t.revision \in {1, 2} /\ t.tail = 0
================================================================================
