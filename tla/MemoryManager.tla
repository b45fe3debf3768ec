----------------------------- MODULE MemoryManager -----------------------------
(***************************************************************************)
(* The memory managers of kernel/mm.cpp: the kernel's, and one for each    *)
(* user process, all with four levels of page tables whose pages come from *)
(* one heap of physical pages.                                             *)
(*                                                                         *)
(* Addresses count pages.  A table has TableSize entries, so there are     *)
(* TableSize^4 virtual pages; those under the last entry of the first      *)
(* table are the kernel's.  Callers behave as kernel.cpp, isr.cpp and      *)
(* i825x.cpp do:                                                           *)
(* they map with a page of the heap or with memory outside of it (Device), *)
(* and give back what they got.                                            *)
(***************************************************************************)
EXTENDS Naturals, Sequences, FiniteSets, FiniteSetsExt

CONSTANTS
    TableSize,      \* table_size
    NumPages,       \* pages of the physical heap
    MaxMappings,    \* memory_mapping objects in the page of a manager
    Users,          \* managers of processes
    Kernel,         \* the kernel's manager
    Lengths,        \* pages that are mapped at once
    MaxOps,         \* bound: operations between start and shutdown
    Image,          \* the sections of an executable, as records with the
                    \* fields virt, length and type
    FreeVirtBase,   \* free_virt_base_ at first, for each manager
    Device,         \* first page of device memory and ACPI tables
    None

ASSUME SizesAssumption ==
    /\ TableSize \in Nat /\ TableSize >= 2
    /\ {NumPages, MaxMappings, MaxOps} \subseteq Nat
    /\ Lengths \subseteq Nat \ {0}
ASSUME NamesAssumption == Kernel \notin Users /\ None \notin Users \cup {Kernel}

Managers == Users \cup {Kernel}
Depth == 4
kernel_pml4 == TableSize - 1
PagesBelow(d) == TableSize ^ (Depth - d)   \* pages under an entry at depth d
VirtPages == 0 .. TableSize ^ Depth - 1
Pages == 0 .. NumPages - 1
Index(v, d) == (v \div PagesBelow(d)) % TableSize   \* pml4e, pdpe, pde, pte
InKernel(v) == Index(v, 1) = kernel_pml4

VARIABLES
    free,       \* pages in physical_pages_
    table,      \* contents of each page of the heap, as a table
    pml4,       \* pml4_ of each manager, None when it does not exist
    records,    \* the page of its memory_mapping objects
    used,       \* memory_mapping objects it has made
    mappings,   \* memory_map_tree_; the field phys is not stored in the code
    nextVirt,   \* free_virt_base_
    sections,   \* allocations_ of each process: pages of its executable
    cr3,        \* the manager that is switched to
    ops,        \* operations so far
    stale,      \* translations the processor may have cached that are gone
    status      \* "boot" | "up" | "down" | the REQUIRE that failed

vars == <<free, table, pml4, records, used, mappings, nextVirt, sections, cr3, ops, stale, status>>
perManager == <<pml4, records, used, mappings, nextVirt, sections>>

Alive(m) == pml4[m] # None
Failures == {"out of pages", "out of mappings", "overlap", "incompatible flags",
             "not present", "wrong length", "kernel entry changed", "pages lost"}

-------------------------------------------------------------------------------
(* Physical pages.  A heap is [free, table, fault].                        *)

Heap == [free |-> free, table |-> table, fault |-> None]
EmptyTable == [i \in 0 .. TableSize - 1 |-> None]

\* The block that first fit finds (SimpleHeap).
Block(h, n) == {a .. a + n - 1 : a \in {b \in h.free : b .. b + n - 1 \subseteq h.free}}
FirstBlock(h, n) == CHOOSE b \in Block(h, n) : \A c \in Block(h, n) : Min(b) <= Min(c)

\* alloc_physical: zeroed pages.
AllocPhysical(h, n) ==
    IF Block(h, n) = {} THEN [h EXCEPT !.fault = "out of pages"]
    ELSE [h EXCEPT !.free = @ \ FirstBlock(h, n),
                   !.table = [p \in Pages |-> IF p \in FirstBlock(h, n) THEN EmptyTable ELSE @[p]]]

\* What a free page holds: entries that look present, and lead nowhere.
Garbage(p) == [i \in 0 .. TableSize - 1 |->
    [to |-> p, flags |-> {"write", "user"}, large |-> FALSE, accessed |-> FALSE]]

FreePhysical(h, ps) ==
    [h EXCEPT !.free = @ \cup ps,
              !.table = [p \in Pages |-> IF p \in ps THEN Garbage(p) ELSE @[p]]]

-------------------------------------------------------------------------------
(* Page tables.                                                            *)

Entry(to, flags, large) == [to |-> to, flags |-> flags, large |-> large, accessed |-> FALSE]

\* alloc_if_not_present: the accessed bit is not compared.
Descend(h, t, i, flags) ==
    IF h.fault # None THEN h
    ELSE IF h.table[t][i] # None
    THEN IF h.table[t][i].flags = flags /\ ~h.table[t][i].large THEN h
         ELSE [h EXCEPT !.fault = "incompatible flags"]
    ELSE LET g == AllocPhysical(h, 1)
         IN  IF g.fault # None THEN g
             ELSE [g EXCEPT !.table[t][i] = Entry(Min(FirstBlock(h, 1)), flags, FALSE)]

TableFlags(type) == {"write"} \cup (type \cap {"user"})

\* The loop body of do_map_memory: the entry of virtual page v, at the depth
\* of the page size.
MapPage(h, root, v, type, phys, depth) ==
    LET walk[d \in 0 .. depth - 1] ==
            IF d = 0 THEN [heap |-> h, at |-> root]
            ELSE LET above == walk[d - 1]
                     g == Descend(above.heap, above.at, Index(v, d), TableFlags(type))
                 IN  [heap |-> g,
                      at |-> IF g.fault = None THEN g.table[above.at][Index(v, d)].to ELSE root]
        last == walk[depth - 1]
    IN  IF last.heap.fault # None THEN last.heap
        ELSE [last.heap EXCEPT !.table[last.at][Index(v, depth)] = Entry(phys, type, depth < Depth)]

\* The loop of do_map_memory.
MapPages(h, root, virt, length, type, phys, depth) ==
    LET loop[k \in 0 .. length \div PagesBelow(depth)] ==
            IF k = 0 THEN h
            ELSE MapPage(loop[k - 1], root, virt + (k - 1) * PagesBelow(depth),
                         type, phys + (k - 1) * PagesBelow(depth), depth)
    IN  loop[length \div PagesBelow(depth)]

\* The table at depth d on the way to virtual page v, None when an entry
\* above it is not present.
TableAt(tab, root, v, d) ==
    LET walk[e \in 1 .. d] ==
            IF e = 1 THEN root
            ELSE LET t == walk[e - 1]
                 IN  IF t = None THEN None
                     ELSE IF tab[t][Index(v, e - 1)] = None THEN None
                     ELSE tab[t][Index(v, e - 1)].to
    IN  walk[d]

\* Mutant: the loop of do_unmap_memory stops one page early.
UnmapPagesShort(h, root, virt, length) ==
    LET entry(v) == <<TableAt(h.table, root, v, Depth), Index(v, Depth)>>
        gone == {entry(v) : v \in virt .. virt + length - 2}
    IN  [h EXCEPT !.table = [p \in Pages |->
            [i \in DOMAIN @[p] |-> IF <<p, i>> \in gone THEN None ELSE @[p][i]]]]

\* The loop of do_unmap_memory, for the 4K pages callers unmap; the tables
\* stay.
UnmapPages(h, root, virt, length) ==
    LET entry(v) == <<TableAt(h.table, root, v, Depth), Index(v, Depth)>>
        gone == {entry(v) : v \in virt .. virt + length - 1}
    IN  IF \E e \in gone : e[1] = None THEN [h EXCEPT !.fault = "not present"]
        ELSE [h EXCEPT !.table = [p \in Pages |->
                [i \in DOMAIN @[p] |-> IF <<p, i>> \in gone THEN None ELSE @[p][i]]]]

\* The tables below and at root.
Below(tab, ts) == {tab[e[1]][e[2]].to : e \in {x \in ts \X (0 .. TableSize - 1) :
                        tab[x[1]][x[2]] # None /\ ~tab[x[1]][x[2]].large}}
Tables(tab, root) ==
    LET pdpts == Below(tab, {root})
        pdts  == Below(tab, pdpts)
    IN  {root} \cup pdpts \cup pdts \cup Below(tab, pdts)

\* virt_to_phys: the entry that maps virtual page v, the page in it that v
\* is, and what the processor lets user code do with it.
Walk(tab, root, v) ==
    LET path[d \in 0 .. Depth] ==   \* entries seen from depth 1 to d
            IF d = 0 THEN [at |-> root, flags |-> {"write", "user"}, leaf |-> 0]
            ELSE LET up == path[d - 1]
                     e == tab[up.at][Index(v, d)]
                 IN  IF up.at = None \/ up.leaf # 0 THEN up
                     ELSE IF e = None THEN [up EXCEPT !.at = None]
                     ELSE [at |-> e.to,
                           flags |-> (e.flags \ {"write", "user"}) \cup (e.flags \cap up.flags),
                           leaf |-> IF e.large \/ d = Depth THEN d ELSE 0]
        end == path[Depth]
    IN  IF end.at = None THEN None
        ELSE [to |-> end.at + (v % PagesBelow(end.leaf)), flags |-> end.flags]

Translations(tab, root) ==
    {<<v, Walk(tab, root, v).to>> : v \in {w \in VirtPages : Walk(tab, root, w) # None}}

-------------------------------------------------------------------------------
(* Operations.                                                             *)

\* A heap becomes the state, or its fault the status.
Commit(h, ok) ==
    /\ free' = h.free /\ table' = h.table
    /\ status' = IF h.fault = None THEN ok ELSE h.fault

\* The processor may keep every translation it has seen until CR3 is written:
\* nothing is invalidated when a page is unmapped.
CacheKept ==
    stale' = (stale \cup Translations(table, pml4[cr3])) \ Translations(table', pml4'[cr3])
CacheFlushed == stale' = {}

Overlap(a, n, b, k) == a < b + k /\ b < a + n   \* memory_areas_overlap

find_mapping(tree, virt, length) == {r \in tree : Overlap(virt, length, r.virt, r.length)}

\* memory_mappings_ only hands out: its objects are never used again, also
\* when they are no longer in the tree (no_free_heap).
NoRoom(s) == s.used = MaxMappings

\* A memory_mapping, in the order of the tree by its address.
memory_mapping(virt, length, type, phys) == [virt |-> virt, length |-> length, type |-> type, phys |-> phys]

\* do_map_memory, on the heap and on what the manager m keeps of its mappings:
\* [heap, used, tree].
Mapper(m) == [heap |-> Heap, used |-> used[m], tree |-> mappings[m]]
Map(s, m, virt, length, type, phys, depth) ==
    LET Fails(why) == [s EXCEPT !.heap.fault = why]
    IN  CASE s.heap.fault # None -> s
          [] find_mapping(s.tree, virt, length) # {} -> Fails("overlap")
          [] NoRoom(s) -> Fails("out of mappings")
          [] OTHER -> [heap |-> MapPages(s.heap, pml4[m], virt, length, type, phys, depth),
                       used |-> s.used + 1,
                       tree |-> s.tree \cup {memory_mapping(virt, length, type, phys)}]

\* Mutant: a memory_mapping object is not counted.
CommitMapperUncounted(s, m) ==
    /\ Commit(s.heap, "up")
    /\ mappings' = [mappings EXCEPT ![m] = s.tree]
    /\ UNCHANGED used

CommitMapper(s, m) ==
    /\ Commit(s.heap, "up")
    /\ used' = [used EXCEPT ![m] = s.used]
    /\ mappings' = [mappings EXCEPT ![m] = s.tree]

\* Mutant: the last address is handed out again.
VirtualAllocAgain(m, length) == nextVirt[m]

\* free_virt_base_ after virtual_alloc, which returns it as it was.
virtual_alloc(m, length) == nextVirt[m] + length

\* Each mapping is of other memory.
DevicePage(m) == Device + 2 * used[m]

\* iomem_map, get_description, the interrupt stubs; mem_map_helper in the
\* process that runs: an address from virtual_alloc.
MapDevice(m, length) ==
    /\ status = "up" /\ Alive(m)
    /\ m = Kernel \/ m = cr3
    /\ CommitMapper(Map(Mapper(m), m, nextVirt[m], length,
           IF m = Kernel THEN {"read", "write"} ELSE {"read", "user"}, DevicePage(m), Depth), m)
    /\ nextVirt' = [nextVirt EXCEPT ![m] = virtual_alloc(m, length)]
    /\ UNCHANGED <<pml4, records, sections, cr3>>
    /\ CacheKept

\* alloc_and_map_user_exe: a section at a time, pages and then a mapping.
LoadExe(u) ==
    /\ status = "up" /\ Alive(u) /\ sections[u] = {}
    /\ LET load[k \in 0 .. Len(Image)] ==
               IF k = 0 THEN [mapper |-> Mapper(u), pages |-> {}]
               ELSE LET before == load[k - 1]
                        h == before.mapper.heap
                        g == IF h.fault = None THEN AllocPhysical(h, Image[k].length) ELSE h
                        block == IF g.fault = None THEN FirstBlock(h, Image[k].length) ELSE {0}
                    IN  [mapper |-> Map([before.mapper EXCEPT !.heap = g], u, Image[k].virt,
                                        Image[k].length, Image[k].type, Min(block), Depth),
                         pages |-> before.pages \cup block]
           done == load[Len(Image)]
       IN  /\ CommitMapper(done.mapper, u)
           /\ sections' = [sections EXCEPT ![u] = done.pages]
    /\ UNCHANGED <<pml4, records, nextVirt, cr3>>
    /\ CacheKept

\* do_unmap_memory from ~mem_map_helper and iomem_unmap: r is what
\* MapDevice has mapped.
Unmap(m, r) ==
    /\ status = "up" /\ Alive(m)
    /\ m = Kernel \/ m = cr3
    /\ r \in mappings[m] /\ r.phys >= Device
    /\ LET overlapping == find_mapping(mappings[m], r.virt, r.length)
           found == CHOOSE x \in overlapping : \A y \in overlapping : x.virt <= y.virt
       IN  /\ Commit(IF found.length # r.length THEN [Heap EXCEPT !.fault = "wrong length"]
                     ELSE UnmapPages(Heap, pml4[m], r.virt, r.length), "up")
           /\ mappings' = [mappings EXCEPT ![m] = @ \ {found}]
    /\ UNCHANGED <<pml4, records, used, nextVirt, sections, cr3>>
    /\ CacheKept

\* The kernel's half of a process is the kernel's table itself.
KernelEntry == table[pml4[Kernel]][kernel_pml4]

\* Mutant: a copy without the bit that the processor sets.
InheritedFresh == [KernelEntry EXCEPT !.accessed = FALSE]

\* What the constructor of default_memory_manager copies.
Inherited == KernelEntry

\* default_memory_manager: the page of mappings, the pml4, the kernel's half.
CreateManager(u) ==
    /\ status = "up" /\ ~Alive(u)
    /\ LET g == AllocPhysical(Heap, 1)
           h == IF g.fault = None THEN AllocPhysical(g, 1) ELSE g
           root == Min(FirstBlock(g, 1))
       IN  IF h.fault # None
           THEN Commit(h, "up") /\ UNCHANGED perManager
           ELSE /\ Commit([h EXCEPT !.table[root][kernel_pml4] = Inherited], "up")
                /\ pml4' = [pml4 EXCEPT ![u] = root]
                /\ records' = [records EXCEPT ![u] = Min(FirstBlock(Heap, 1))]
                /\ used' = [used EXCEPT ![u] = 0]
                /\ mappings' = [mappings EXCEPT ![u] = {}]
                /\ nextVirt' = [nextVirt EXCEPT ![u] = FreeVirtBase[u]]
                /\ sections' = [sections EXCEPT ![u] = {}]
    /\ UNCHANGED cr3
    /\ CacheKept

\* do_switch_to.  The code that follows runs in the kernel's half, so the
\* processor marks its entry.
SwitchTo(m) ==
    /\ status = "up" /\ Alive(m)
    /\ m = Kernel \/ sections[m] # {}
    /\ cr3' = m
    /\ table' = [table EXCEPT ![pml4[m]][kernel_pml4].accessed = TRUE]
    /\ UNCHANGED <<free, perManager, status>>
    /\ CacheFlushed

\* The tables that ~memory_manager_base frees, after ~default_memory_manager
\* has cleared the kernel's entry.
OwnTables(u) == Tables([table EXCEPT ![pml4[u]][kernel_pml4] = None], pml4[u])

\* Mutants: the page of memory_mapping objects is kept; the kernel's entry is
\* not cleared before the tables are freed.
FreedWithoutRecords(u) == OwnTables(u) \cup sections[u]
FreedWithKernel(u) == Tables(table, pml4[u]) \cup sections[u] \cup {records[u]}

\* allocations_, the tables and the page of memory_mapping objects.
Freed(u) == OwnTables(u) \cup sections[u] \cup {records[u]}

\* ~user_process, when another manager is in use: its objects, its sections,
\* its manager.
DestroyManager(u) ==
    /\ status = "up" /\ Alive(u) /\ cr3 # u
    /\ IF table[pml4[u]][kernel_pml4] # KernelEntry
       THEN status' = "kernel entry changed" /\ UNCHANGED <<free, table, perManager>>
       ELSE /\ Commit(FreePhysical(Heap, Freed(u)), "up")
            /\ pml4' = [pml4 EXCEPT ![u] = None]
            /\ records' = [records EXCEPT ![u] = None]
            /\ mappings' = [mappings EXCEPT ![u] = {}]
            /\ sections' = [sections EXCEPT ![u] = {}]
            /\ used' = [used EXCEPT ![u] = 0]
            /\ nextVirt' = [nextVirt EXCEPT ![u] = FreeVirtBase[u]]
    /\ UNCHANGED cr3
    /\ CacheKept

-------------------------------------------------------------------------------
(* Start and end of the kernel.                                            *)

KernelVirt(i) == kernel_pml4 * PagesBelow(1) + i
IdentityLength == PagesBelow(2)

\* kernel_memory_manager: page 0 stands for the kernel's heap.
Init ==
    /\ free = Pages \ {0, 1, 2}
    /\ table = [p \in Pages |-> IF p \in free THEN Garbage(p) ELSE EmptyTable]
    /\ pml4 = [m \in Managers |-> IF m = Kernel THEN 2 ELSE None]
    /\ records = [m \in Managers |-> IF m = Kernel THEN 1 ELSE None]
    /\ used = [m \in Managers |-> 0]
    /\ mappings = [m \in Managers |-> {}]
    /\ nextVirt = FreeVirtBase
    /\ sections = [m \in Managers |-> {}]
    /\ cr3 = Kernel /\ ops = 0 /\ stale = {}
    /\ status = "boot"

\* construct_mm: the identity map with large pages, the image in the last
\* pages, and the first switch.
ConstructMM ==
    /\ status = "boot"
    /\ LET image == KernelVirt(PagesBelow(1) - 1)
           ident == Map(Mapper(Kernel), Kernel, KernelVirt(0), IdentityLength,
                        {"read", "write"}, 0, Depth - 1)
           s == Map(ident, Kernel, image, 1, {"read", "execute"}, Device - 1, Depth)
       IN  CommitMapper([s EXCEPT !.heap.table[pml4[Kernel]][kernel_pml4].accessed = TRUE], Kernel)
    /\ UNCHANGED <<pml4, records, nextVirt, sections, cr3, ops>>
    /\ CacheFlushed

\* ~kernel_memory_manager, after every process: the destructor of
\* physical_pages_ requires all pages back.
Shutdown ==
    /\ status = "up" /\ cr3 = Kernel
    /\ \A u \in Users : ~Alive(u)
    /\ LET h == FreePhysical(Heap, Tables(table, pml4[Kernel]) \cup {0, records[Kernel]})
       IN  Commit(h, IF h.free = Pages THEN "down" ELSE "pages lost")
    /\ UNCHANGED <<perManager, cr3, ops>>
    /\ CacheFlushed

Operation ==
    \/ \E m \in Managers, length \in Lengths : MapDevice(m, length)
    \/ \E u \in Users : LoadExe(u)
    \/ \E m \in Managers : \E r \in mappings[m] : Unmap(m, r)
    \/ \E u \in Users : CreateManager(u)
    \/ \E m \in Managers : SwitchTo(m)
    \/ \E u \in Users : DestroyManager(u)

Next ==
    \/ ConstructMM
    \/ ops < MaxOps /\ ops' = ops + 1 /\ Operation
    \/ Shutdown

Spec == Init /\ [][Next]_vars

-------------------------------------------------------------------------------
(* Properties.                                                             *)

\* The shape of the state.
TypeOK ==
    /\ free \subseteq Pages
    /\ \A p \in Pages : DOMAIN table[p] = 0 .. TableSize - 1
    /\ \A m \in Managers : /\ pml4[m] \in Pages \cup {None}
                           /\ used[m] \in 0 .. MaxMappings
                           /\ Cardinality(mappings[m]) <= used[m]
                           /\ sections[m] \subseteq Pages
    /\ cr3 \in Managers
    /\ status \in {"boot", "up", "down"} \cup Failures

\* What a caller has mapped at virtual page v, in the manager m.
Expected(m, v) ==
    LET of == {r \in mappings[IF InKernel(v) THEN Kernel ELSE m] : v \in r.virt .. r.virt + r.length - 1}
    IN  IF of = {} THEN None
        ELSE LET r == CHOOSE x \in of : TRUE
             IN  [to |-> r.phys + (v - r.virt), flags |-> r.type]

\* The page tables say exactly what was mapped and not unmapped, with the
\* rights that were asked for; in every process the kernel's half follows
\* the kernel's later maps and unmaps (do_map_memory, do_unmap_memory,
\* default_memory_manager).
TranslationExact ==
    status = "up" => \A m \in Managers : Alive(m) =>
        \A v \in VirtPages : Walk(table, pml4[m], v) = Expected(m, v)

\* What a manager owns.
Owned(m) == IF m = Kernel THEN Tables(table, pml4[Kernel]) \cup {0, records[Kernel]}
            ELSE OwnTables(m) \cup {records[m]} \cup sections[m]

\* Every page of the heap is free or belongs to one manager, with no page
\* in two uses: no table leaks, none is freed while it is in use
\* (~memory_manager_base, ~default_memory_manager).
PagesAccounted ==
    status = "up" =>
      /\ Pages = free \cup UNION {Owned(m) : m \in {x \in Managers : Alive(x)}}
      /\ \A m \in Managers : Alive(m) =>
            /\ Owned(m) \cap free = {}
            /\ \A n \in Managers \ {m} : Alive(n) => Owned(m) \cap Owned(n) = {}
            /\ m # Kernel => /\ OwnTables(m) \cap (sections[m] \cup {records[m]}) = {}
                             /\ records[m] \notin sections[m]

\* User code reaches the pages of its own executable and what was mapped
\* for it from outside of the heap, never a table, another process or the
\* kernel, however pages have been reused (PAGEF_USER, free_table).
UserReach ==
    status = "up" =>
      LET live == {m \in Managers : Alive(m)}
          tables == UNION {Tables(table, pml4[m]) : m \in live}
          Reached(u) == {v \in VirtPages : LET w == Walk(table, pml4[u], v)
                                           IN  w # None /\ "user" \in w.flags}
      IN  \A u \in live \cap Users : \A v \in Reached(u) :
            LET page == Walk(table, pml4[u], v).to
            IN  /\ ~InKernel(v)
                /\ page \in sections[u] \/ page >= Device
                /\ page \notin tables \cup UNION {sections[m] : m \in live \ {u}}

\* do_unmap_memory invalidates nothing, so a page that was unmapped must not
\* be mapped again before CR3 is written: the processor could still use the
\* old translation (virtual_alloc never goes back).
CacheCoherent == status = "up" => \A e \in stale : Walk(table, pml4[cr3], e[1]) = None

\* Legal use stops the machine only when pages or memory_mapping objects run
\* out: the other REQUIREs of mm.cpp hold, and at shutdown no page is lost.
OnlyExhaustion == status \in {"boot", "up", "down", "out of pages", "out of mappings"}

\* What the processor can take a virtual page for is what is mapped there:
\* by a walk of the tables (TranslationExact) or from the translations it has
\* kept (CacheCoherent), after any maps, unmaps and switches.
TablesExact == TypeOK /\ TranslationExact /\ CacheCoherent

\* Pages are in one use at a time, and user code reaches only its own
\* (~memory_manager_base, ~default_memory_manager, PAGEF_USER).
PagesOwned == PagesAccounted /\ UserReach
================================================================================
