-------------------------------- MODULE Paging --------------------------------
(***************************************************************************)
(* Virtual memory of sys/mmu.c: the four-level tables of every address     *)
(* space, memory_list, global_mem_map and the TLB of the CPU.              *)
(*                                                                         *)
(* A table (DEFAULT_PAGES frames) is a number; an entry is what it points  *)
(* to, or ABSENT when VM_PRESENT is 0: a table on the upper three levels,  *)
(* a physical page in a page table.  Flags are left out.  Virtual pages    *)
(* are numbered; the index into each level is a digit of that number.      *)
(*                                                                         *)
(* A call of vm_map, vm_unmap, vm_init or create_address_space puts the    *)
(* ranges it goes over into `todo`; each page is one step, between which   *)
(* interrupts and the main code may touch mapped memory and fill the TLB.  *)
(***************************************************************************)
EXTENDS Integers, SequencesExt

CONSTANTS
    Tables,           \* frames that table storage can come from, as numbers
    ENTRIES,          \* entries of a table (512)
    PhysPages,        \* physical pages that callers map
    Spaces,           \* address spaces made by create_address_space
    KERNEL,           \* kernel_addr_space, also reached as NULL
    Ranges,           \* ranges of pages [virt, n] that callers use
    PHYS_LIMIT,       \* NUM_PAGES(kmem.physical_limit)
    MEM_SIZE,         \* pages of the direct map that are recorded, at most (2 GB)
    BootMaps,         \* what vm_init maps for the entries of the memory map
    MaxRecords,       \* bound on the length of global_mem_map
    ABSENT            \* an entry, or a root, that is not present

VARIABLES
    status,           \* "boot", "up" (CR3 holds the kernel's PML4) or "halted"
    pool,             \* table storage that pm_get can still give
    mem,              \* contents of every table
    root,             \* pml4 of every space
    memory_list,      \* memory_list of every space
    global_mem_map,   \* the recorded mappings of the kernel
    todo,             \* ranges the running call still has to go over
    as,               \* the space create_address_space is filling, or ABSENT
    tlb               \* translations of the kernel's space the CPU holds

vars == <<status, pool, mem, root, memory_list, global_mem_map, todo, as, tlb>>

AllSpaces == Spaces \cup {KERNEL}
Index     == 0..ENTRIES-1
Pages     == 0..ENTRIES*ENTRIES*ENTRIES*ENTRIES-1

ASSUME PagingAssumption ==
    /\ Tables \subseteq Nat
    /\ ENTRIES \in Nat \ {0, 1}
    /\ PhysPages \subseteq Nat
    /\ PHYS_LIMIT \in Nat \ {0} /\ MEM_SIZE \in Nat \ {0}
    /\ KERNEL \notin Spaces
    /\ ABSENT \notin Nat \cup Spaces
    /\ IsFiniteSet(Tables)

\* Callers map at least one page, and none beyond the last of the address space.
Mapping == {r \in [virt : Pages, n : Nat \ {0}, phys : Nat] :
               r.virt + r.n <= ENTRIES*ENTRIES*ENTRIES*ENTRIES}

ASSUME MappingsAssumption ==
    /\ \A r \in Ranges : r.n \in Nat \ {0} /\ r.virt \in Pages
                        /\ r.virt + r.n <= ENTRIES*ENTRIES*ENTRIES*ENTRIES
    /\ PHYS_LIMIT <= ENTRIES*ENTRIES*ENTRIES*ENTRIES
    /\ BootMaps \in Seq(Mapping)
    /\ MaxRecords \in Nat /\ Len(BootMaps) < MaxRecords

\* (virt_addr >> 12) & 0x1FF and so on
Pte(v)   == v % ENTRIES
Pde(v)   == (v \div ENTRIES) % ENTRIES
Pdpe(v)  == (v \div (ENTRIES*ENTRIES)) % ENTRIES
Pml4e(v) == v \div (ENTRIES*ENTRIES*ENTRIES)

EmptyTable == [i \in Index |-> ABSENT]

\* Frames that are no table hold anything: here, entries that lead nowhere new.
\* Their contents are forgotten, since a table is zeroed before it is used.
Junk(t) == [i \in Index |-> t]

\* What the CPU finds for page v of a space: ABSENT on any level, or the page.
Entry(m, t, i) == IF t = ABSENT THEN ABSENT ELSE m[t][i]

Pdpt(m, s, v) == Entry(m, root[s], Pml4e(v))
Pd(m, s, v)   == Entry(m, Pdpt(m, s, v), Pdpe(v))
Pt(m, s, v)   == Entry(m, Pd(m, s, v), Pde(v))
Walk(m, s, v) == Entry(m, Pt(m, s, v), Pte(v))

\* The lowest table on the way to page v of a space, below its PML4.
Reached(m, s, v) ==
    LET path == <<Pt(m, s, v), Pd(m, s, v), Pdpt(m, s, v)>>
    IN  IF path[1] # ABSENT THEN path[1] ELSE IF path[2] # ABSENT THEN path[2] ELSE path[3]

-----------------------------------------------------------------------------
(* Changes of the table storage: st = [mem, pool, list] *)

Storage(s) == [mem |-> mem, pool |-> pool, list |-> memory_list[s]]

PmGet(from) == CHOOSE t \in from : \A u \in from : t <= u

\* One level of map_page_entry: a missing table is taken, zeroed, entered and
\* appended to memory_list.  Where pm_get has no frames the level stays missing,
\* and so do the levels below it.
WithTable(st, t, i) ==
    IF Entry(st.mem, t, i) # ABSENT \/ t = ABSENT \/ st.pool = {} THEN st
    ELSE LET new == PmGet(st.pool)
         IN  [mem  |-> [st.mem EXCEPT ![new] = EmptyTable, ![t][i] = new],
              pool |-> st.pool \ {new},
              list |-> Append(st.list, new)]

\* The storage when map_page_entry has looked for the PDPT, the PD and the PT.
WithPdpt(s, v) == WithTable(Storage(s), root[s], Pml4e(v))
WithPd(s, v)   == LET st == WithPdpt(s, v) IN WithTable(st, Pdpt(st.mem, s, v), Pdpe(v))
WithPt(s, v)   == LET st == WithPd(s, v) IN WithTable(st, Pd(st.mem, s, v), Pde(v))

\* Mutant of Mapped: the page table is indexed with pde instead of pte.
Mapped_WrongIndex(s, v, p) ==
    LET st == WithPt(s, v) IN [st EXCEPT !.mem[Pt(st.mem, s, v)][Pde(v)] = p]

\* map_page_entry(s, v, p)
Mapped(s, v, p) ==
    LET st == WithPt(s, v) IN [st EXCEPT !.mem[Pt(st.mem, s, v)][Pte(v)] = p]

\* Memory runs out in map_page_entry: pm_get has no frames for a level, or krealloc
\* none for memory_list to grow by the table that has just been entered.  The
\* upper levels are taken, entered and listed by then, but for that table: the list
\* is already one longer, and what it names is what it named before.
Cut(s, v) ==
    LET steps == <<Storage(s), WithPdpt(s, v), WithPd(s, v), WithPt(s, v)>>
    IN  {st \in {steps[4]} : Pt(st.mem, s, v) = ABSENT}
        \cup {[steps[k + 1] EXCEPT !.list = steps[k].list] :
                  k \in {j \in 1..3 : steps[j + 1] # steps[j]}}

vector_erase(vec, index) == RemoveAt(vec, index)

\* The first element with the value, if there is one.
vector_erase_value(vec, val) ==
    LET i == SelectInSeq(vec, LAMBDA e : e = val)
    IN  IF i = 0 THEN vec ELSE vector_erase(vec, i)

\* Mutant of WithoutTable: the table stays in memory_list.
WithoutTable_Listed(st, t, i) ==
    [mem  |-> [st.mem EXCEPT ![st.mem[t][i]] = Junk(st.mem[t][i]), ![t][i] = ABSENT],
     pool |-> st.pool \cup {st.mem[t][i]},
     list |-> st.list]

\* Mutant of WithoutTable: the entry keeps pointing to the freed table.
WithoutTable_Dangling(st, t, i) ==
    [mem  |-> [st.mem EXCEPT ![st.mem[t][i]] = Junk(st.mem[t][i])],
     pool |-> st.pool \cup {st.mem[t][i]},
     list |-> vector_erase_value(st.list, st.mem[t][i])]

\* One level of unmap_page_entry: the entry is cleared, its table is freed and
\* erased from memory_list.
WithoutTable(st, t, i) ==
    [mem  |-> [st.mem EXCEPT ![st.mem[t][i]] = Junk(st.mem[t][i]), ![t][i] = ABSENT],
     pool |-> st.pool \cup {st.mem[t][i]},
     list |-> vector_erase_value(st.list, st.mem[t][i])]

\* Mutant of Unmapped: the directories stay, empty or not.
Unmapped_KeepsDirectories(s, v) ==
    LET st == [Storage(s) EXCEPT !.mem[Pt(mem, s, v)][Pte(v)] = ABSENT]
    IN  WithoutTable(st, Pd(mem, s, v), Pde(v))

\* unmap_page_entry(s, v) past its early returns: the page table goes whatever
\* else it maps, each directory only when the scan finds it empty.
Unmapped(s, v) ==
    LET pdpt == Pdpt(mem, s, v)
        pd   == Pd(mem, s, v)
        a == [Storage(s) EXCEPT !.mem[Pt(mem, s, v)][Pte(v)] = ABSENT]
        b == WithoutTable(a, pd, Pde(v))
        c == IF b.mem[pd] = EmptyTable THEN WithoutTable(b, pdpt, Pdpe(v)) ELSE b
    IN  IF b.mem[pd] = EmptyTable /\ c.mem[pdpt] = EmptyTable
        THEN WithoutTable(c, root[s], Pml4e(v)) ELSE c

\* Mutant of Invlpg: only when the page is unmapped, not when it is remapped.
Invlpg_WhenUnmapped(s, v) ==
    IF status = "up" /\ s = KERNEL /\ Head(todo).op = "unmap"
    THEN [tlb EXCEPT ![v] = ABSENT] ELSE tlb

\* invlpg, when CR3 holds the space that is changed: only the kernel's, and not
\* before the end of vm_init.
Invlpg(s, v) == IF status = "up" /\ s = KERNEL THEN [tlb EXCEPT ![v] = ABSENT] ELSE tlb

-----------------------------------------------------------------------------
(* Actions *)

Init ==
    /\ status = "boot"
    /\ pool = Tables
    /\ mem = [t \in Tables |-> Junk(t)]
    /\ root = [s \in AllSpaces |-> ABSENT]
    /\ memory_list = [s \in AllSpaces |-> <<>>]
    /\ global_mem_map = <<>>
    /\ todo = <<>>
    /\ as = ABSENT
    /\ tlb = [v \in Pages |-> ABSENT]

Call(op, s, r, p) == [op |-> op, space |-> s, virt |-> r.virt, n |-> r.n, phys |-> p]

Record(r, p) == [virt |-> r.virt, n |-> r.n, phys |-> p]

\* The calls that map every record of the list into space s.
Replay(records, s) ==
    [i \in 1..Len(records) |-> Call("map", s, records[i], records[i].phys)]

\* kmalloc of a zeroed PML4
NewRoot(s) ==
    LET t == PmGet(pool)
    IN  /\ root[s] = ABSENT
        /\ pool # {}
        /\ root' = [root EXCEPT ![s] = t]
        /\ pool' = pool \ {t}
        /\ mem' = [mem EXCEPT ![t] = EmptyTable]

\* The direct map of n pages of physical memory.
Direct(n) == [virt |-> 0, n |-> n, phys |-> 0]

\* vm_init up to the loops: the direct map is recorded as far as MEM_SIZE and
\* then made once more, unrecorded, up to the limit; the other mappings follow.
\* Nobody reads the records before they are all made.
VmInit ==
    LET recorded == <<Direct(IF PHYS_LIMIT < MEM_SIZE THEN PHYS_LIMIT ELSE MEM_SIZE)>>
    IN
    /\ status = "boot"
    /\ todo = <<>>
    /\ NewRoot(KERNEL)
    /\ global_mem_map' = recorded \o BootMaps
    /\ todo' = Replay(recorded \o <<Direct(PHYS_LIMIT)>> \o BootMaps, KERNEL)
    /\ UNCHANGED <<status, memory_list, as, tlb>>

\* write_cr(cr3, ..), the end of vm_init
LoadCr3 ==
    /\ status = "boot"
    /\ root[KERNEL] # ABSENT
    /\ todo = <<>>
    /\ status' = "up"
    /\ UNCHANGED <<pool, mem, root, memory_list, global_mem_map, todo, as, tlb>>

Idle == status = "up" /\ todo = <<>> /\ as = ABSENT

\* vm_map(s, ..): a mapping of the kernel is recorded first.
VmMap(s, r, p) ==
    /\ Idle
    /\ root[s] # ABSENT
    /\ s = KERNEL => Len(global_mem_map) < MaxRecords
    /\ global_mem_map' = IF s = KERNEL THEN Append(global_mem_map, Record(r, p))
                         ELSE global_mem_map
    /\ todo' = <<Call("map", s, r, p)>>
    /\ UNCHANGED <<status, pool, mem, root, memory_list, as, tlb>>

\* vm_unmap(s, ..): the first record at that address goes, whatever its length.
VmUnmap(s, r) ==
    /\ Idle
    /\ root[s] # ABSENT
    /\ LET i == SelectInSeq(global_mem_map, LAMBDA e : e.virt = r.virt)
       IN  global_mem_map' = IF s = KERNEL /\ i # 0 THEN vector_erase(global_mem_map, i)
                             ELSE global_mem_map
    /\ todo' = <<Call("unmap", s, r, 0)>>
    /\ UNCHANGED <<status, pool, mem, root, memory_list, as, tlb>>

\* Mutant of CreateAddressSpace: the first record is skipped.
CreateAddressSpace_SkipsFirst(s) ==
    /\ Idle
    /\ NewRoot(s)
    /\ todo' = Replay(Tail(global_mem_map), s)
    /\ as' = s
    /\ UNCHANGED <<status, memory_list, global_mem_map, tlb>>

\* create_address_space: a fresh PML4, into which the records are mapped.
CreateAddressSpace(s) ==
    /\ Idle
    /\ NewRoot(s)
    /\ todo' = Replay(global_mem_map, s)
    /\ as' = s
    /\ UNCHANGED <<status, memory_list, global_mem_map, tlb>>

\* create_address_space returns the space.
ReturnAddressSpace ==
    /\ status = "up"
    /\ as # ABSENT
    /\ todo = <<>>
    /\ as' = ABSENT
    /\ UNCHANGED <<status, pool, mem, root, memory_list, global_mem_map, todo, tlb>>

\* Mutant of Rest: the loop runs once more.
Rest_OneMore ==
    LET c == Head(todo)
    IN  IF c.n > 0 THEN <<[c EXCEPT !.n = @ - 1, !.virt = @ + 1, !.phys = @ + 1]>> \o Tail(todo)
        ELSE Tail(todo)

\* The rest of the running call after one page.
Rest ==
    LET c == Head(todo)
    IN  IF c.n > 1 THEN <<[c EXCEPT !.n = @ - 1, !.virt = @ + 1, !.phys = @ + 1]>> \o Tail(todo)
        ELSE Tail(todo)

Become(s, v, st) ==
    /\ mem' = st.mem
    /\ pool' = st.pool
    /\ memory_list' = [memory_list EXCEPT ![s] = st.list]
    /\ tlb' = Invlpg(s, v)
    /\ todo' = Rest
    /\ UNCHANGED <<status, root, global_mem_map, as>>

Current(op) == status # "halted" /\ todo # <<>> /\ Head(todo).op = op

\* map_page_entry
MapPage ==
    /\ Current("map")
    /\ LET c == Head(todo)
       IN  /\ Pt(WithPt(c.space, c.virt).mem, c.space, c.virt) # ABSENT
           /\ Become(c.space, c.virt, Mapped(c.space, c.virt, c.phys))

\* unmap_page_entry of a page that is mapped.  pm_free cannot report an error:
\* a table of a space is not in the pool (TablesPrivate).
UnmapPage ==
    /\ Current("unmap")
    /\ LET c == Head(todo)
       IN  /\ Walk(mem, c.space, c.virt) # ABSENT
           /\ Become(c.space, c.virt, Unmapped(c.space, c.virt))

\* unmap_page_entry returns early, without invlpg.
UnmapNothing ==
    /\ Current("unmap")
    /\ Walk(mem, Head(todo).space, Head(todo).virt) = ABSENT
    /\ todo' = Rest
    /\ UNCHANGED <<status, pool, mem, root, memory_list, global_mem_map, as, tlb>>

\* map_page_entry halts for want of memory, with what it has done until then.
OutOfMemory ==
    /\ Current("map")
    /\ LET c == Head(todo)
       IN  \E st \in Cut(c.space, c.virt) :
              /\ mem' = st.mem
              /\ pool' = st.pool
              /\ memory_list' = [memory_list EXCEPT ![c.space] = st.list]
    /\ status' = "halted"
    /\ UNCHANGED <<root, global_mem_map, todo, as, tlb>>

\* kmalloc halts in vm_map, where the record of a mapping is appended, or in
\* create_address_space: nothing of the tables has changed.
HeapOutOfMemory ==
    /\ Idle
    /\ status' = "halted"
    /\ UNCHANGED <<pool, mem, root, memory_list, global_mem_map, todo, as, tlb>>

\* The CPU translates page v of the kernel's space and keeps the translation.
Access(v) ==
    /\ status = "up"
    /\ tlb[v] = ABSENT
    /\ Walk(mem, KERNEL, v) # ABSENT
    /\ tlb' = [tlb EXCEPT ![v] = Walk(mem, KERNEL, v)]
    /\ UNCHANGED <<status, pool, mem, root, memory_list, global_mem_map, todo, as>>

Next ==
    \/ VmInit
    \/ LoadCr3
    \/ ReturnAddressSpace
    \/ \E s \in AllSpaces, r \in Ranges :
          \/ \E p \in PhysPages : VmMap(s, r, p)
          \/ VmUnmap(s, r)
    \/ \E s \in Spaces : CreateAddressSpace(s)
    \/ MapPage
    \/ UnmapPage
    \/ UnmapNothing
    \/ OutOfMemory
    \/ HeapOutOfMemory
    \/ \E v \in Pages : Access(v)

Spec == Init /\ [][Next]_vars

-----------------------------------------------------------------------------
(* Properties *)

\* The tables of space s below its PML4.
Below(t)  == {mem[t][i] : i \in Index} \ {ABSENT}
Pdpts(s)  == IF root[s] = ABSENT THEN {} ELSE Below(root[s])
Pds(s)    == UNION {Below(t) : t \in Pdpts(s)}
Pts(s)    == UNION {Below(t) : t \in Pds(s)}
Linked(s) == Pdpts(s) \cup Pds(s) \cup Pts(s)
Owned(s)  == Linked(s) \cup ({root[s]} \ {ABSENT})

CallRecord == [op : {"map", "unmap"}, space : AllSpaces, virt : Pages, n : Nat \ {0}, phys : Nat]

\* The variables have their types, and TLB entries are physical pages.
TypeOK ==
    /\ status \in {"boot", "up", "halted"}
    /\ pool \subseteq Tables
    /\ mem \in [Tables -> [Index -> Nat \cup {ABSENT}]]
    /\ root \in [AllSpaces -> Tables \cup {ABSENT}]
    /\ memory_list \in [AllSpaces -> Seq(Tables)]
    /\ global_mem_map \in Seq([virt : Pages, n : Nat, phys : Nat])
    /\ Len(global_mem_map) <= MaxRecords
    /\ todo \in Seq(CallRecord)
    /\ as \in Spaces \cup {ABSENT}
    /\ tlb \in [Pages -> Nat \cup {ABSENT}]

\* Frames of tables belong to one owner: what a space is translated through is
\* never in the allocator's hands and never part of another space, and inside a
\* space no table hangs in two places.
TablesPrivate ==
    /\ \A s \in AllSpaces : Owned(s) \cap pool = {}
    /\ \A s, r \in AllSpaces : s # r => Owned(s) \cap Owned(r) = {}
    /\ \A s \in AllSpaces :
          \A t \in Owned(s) \ Pts(s), u \in Owned(s) \ Pts(s) :
             \A i, j \in Index :
                mem[t][i] # ABSENT /\ mem[t][i] = mem[u][j] => t = u /\ i = j

\* The table that map_page_entry entered last when it was halted.
StoppedAt ==
    IF status = "halted" /\ todo # <<>>
    THEN Reached(mem, Head(todo).space, Head(todo).virt) ELSE ABSENT

Names(list, S) == ToSet(list) = S /\ Len(list) = Cardinality(S)

\* memory_list names each table below the PML4 exactly once, through every
\* order of mapping and unmapping: no table is lost, none is kept after its free.
\* When memory runs out in the middle of a mapping, the tables it has entered are
\* named too, but for the last one if the list itself could not grow.
MemoryListExact ==
    \A s \in AllSpaces :
        \/ Names(memory_list[s], Linked(s))
        \/ Names(memory_list[s], Linked(s) \ {StoppedAt})

\* unmap_page_entry leaves no table behind that maps nothing, and map_page_entry
\* leaves at most one: that of the level at which it ran out of memory.
NoEmptyTable ==
    \A s \in AllSpaces : \A t \in Linked(s) : mem[t] = EmptyTable => t = StoppedAt

\* Mapping one page changes the translation of no other page of any space.
MapTouchesOnlyItsPage ==
    [][Current("map") => \A s \in AllSpaces, v \in Pages :
          <<s, v>> # <<Head(todo).space, Head(todo).virt>> =>
             Walk(mem, s, v)' = Walk(mem, s, v)]_<<mem, todo>>

\* The CPU never uses a translation that differs from the one in the tables: what
\* it holds for a page of the kernel is what the tables say, or they say nothing.
TlbNeverContradicts ==
    \A v \in Pages : tlb[v] # ABSENT => Walk(mem, KERNEL, v) \in {tlb[v], ABSENT}

\* The last of the records that cover page v, as the page it is mapped to.
Recorded(v) ==
    LET Covers(e) == v \in e.virt .. e.virt + e.n - 1
        i == SelectLastInSubSeq(global_mem_map, 1, Len(global_mem_map), Covers)
    IN  IF i = 0 THEN ABSENT ELSE global_mem_map[i].phys + v - global_mem_map[i].virt

\* When create_address_space returns, the new space maps every page the records
\* of the kernel cover, and no other; of records that overlap the last one wins.
NewSpaceSharesKernel ==
    status = "up" /\ as # ABSENT /\ todo = <<>> =>
        \A v \in Pages : Walk(mem, as, v) = Recorded(v)

\* What the documentation says, and the code does not do:

\* "Unmaps a page from an address space": when the call is past a page of the
\* kernel, the CPU no longer translates it.
UnmappedIsUntranslated ==
    [][status = "up" /\ todo # todo' /\ Current("unmap") /\ Head(todo).space = KERNEL =>
          tlb'[Head(todo).virt] = ABSENT]_vars

=============================================================================
