# Horizon64 in TLA+

Specifications, model-checking runs and proofs for the Horizon64 kernel (C, x86_64, booted by Limine).
Paths below are relative to `src/kernel/src/` (headers: `src/kernel/include/`). How to run: `tlc -config X.cfg M` for a run of
PROJECT.json, `tlapm M.tla` for a module of proofs.

Horizon64 runs on one CPU (`NUM_CPUS` 1), has no scheduler and no user mode: `system_init`
(`init/init.c`) brings the parts up in a fixed order, then the main code prints its banner and idles.
Concurrency comes from interrupts: after `sti` a handler runs between any two instructions of the main
code; handlers run through interrupt gates, with IF clear, and the PICs acknowledge by themselves.

## 1. Inventory

| Part | Source | State it keeps | Operations | What makes it correct |
|---|---|---|---|---|
| Physical frames | `sys/mmu.c` 34-228 | `kmem`: limit, sizes, bitmap (1 = free) | `pm_init`, `pm_allocate`, `pm_get`, `pm_free` | no frame has two owners; `free_size` equals the bitmap; nothing lost; only usable memory is given |
| Kernel heap | `common/kmalloc.c` | a header frame before every block | `kmalloc`, `kfree`, `krealloc` | blocks are private, zeroed, kept by `krealloc`; `kfree` gives back exactly what was taken |
| Vectors | `common/vector.h` | length, capacity, data | append, erase, erase_value | a sequence; stays inside its block |
| Virtual memory | `sys/mmu.c` 238-619 | page tables, `memory_list`, `global_mem_map` | map, unmap, translate, new address space | mapping and unmapping touch only their own page; tables are freed when empty; the kernel is mapped everywhere |
| Lock | `common/lock.c` | bit, saved flags | lock, unlock | exclusion, IF restored, no handler spins on its own CPU |
| Interrupt dispatch | `sys/interrupts/*.c`, `isr_asm.asm` | gate table, handler tables, IF | register, enable, dispatch | every enabled vector has a handler; early interrupts do not kill the boot |
| PIC and PIT | `sys/tick/pic.c`, `pit.c` | `g_pic_mask`, IMR, the saved mask | configure, mask, unmask, save, restore | the cached mask equals the hardware's; what is saved is restored |
| Clock and APIC timer | `sys/tick/clkhandler.c`, `sys/acpi/apic.c` | `system_time`, timer mode, `apic_timer_enabled` | tick handlers, start, stop, sleep, frequency | one clock ticks at any time; time never stops; every APIC interrupt is acknowledged |
| CMOS clock | `sys/cmos.c` | registers of the RTC, `boot_time` | `read_time`, conversions | no torn reading, correct time |
| Keyboard | `dev/keyboard/*.c` | `key_pressed`, `last_keystroke` | handler, init, table of characters | boot ends; the map says which keys are down |
| Terminal | `dev/terminal.c` | cursor, colours, framebuffer | putc, clear, scroll, printf | every character shown, cursor on the screen, also when a handler prints |
| PCI | `sys/pci.c` | `device_list` | bus scan | every function found once, scan ends |
| ACPI tables | `sys/acpi/{acpi,rsdp,madt}.c`, `apic_init` | table pointers, APIC lists, local APIC | checks, look-up, lists, enabling | list bounds, checksums, no use of what was not found |
| HPET | `sys/acpi/hpet.c` | its registers | map, silence, start | a started HPET raises nothing |
| CPU and GDT | `sys/cpu.c`, `sys/gdt/` | descriptors, segment registers, page attribute table, CR4 | set-up | valid selectors, uncached device pages |
| Serial port | `dev/serial.c` | the chip's registers | set-up and test | the port ends with the rate and format that is meant |
| Display | `graphics/framebuffer.c`, `init/psf.c`, `init/iso_file.c` | framebuffer, font, size of the terminal | set-up | a terminal with rows, or none |
| Boot sequence | `init/init.c`, `kernel.c` | which step is next | the steps, halts | it ends; when it returns, everything set up works |
| kprint, string and memory helpers | `common/*.c`, `util/*.c` | none | formatting, loops | out of scope |

How they interact: everything that needs memory calls `kmalloc` (vectors, address spaces, fonts) or
`pm_get` (page tables); both draw frames from one bitmap, which no handler touches. The page tables
record their frames in a vector (`memory_list`) whose storage comes from `kmalloc`. The interrupt parts
share `g_pic_mask`, the handler tables and IF between main code and handlers; the terminal's cursor is
shared between `terminal_printf` in main code and `terminal_putc` in the keyboard handler.

## 2. Plan

Done in this order, the most important first:

1. `PhysMem`, `PhysMem_proofs`: the frame allocator; accounting and ownership, checked and proved.
2. `Heap` (what callers may rely on) and `Kmalloc`, which refines it on top of `PhysMem`.
3. `Lock`, `Lock_proofs`: the lock, instruction by instruction.
4. `Paging`: tables, memory list, TLB, address spaces.
5. `Clock`: PIC, PIT, tick handlers and APIC timer, main code against handlers.
6. `Terminal`, `Terminal_proofs`: the cursor and the scrolling, main code against the keyboard handler.
7. `Machine`, `Serial`, `Interrupts`, `Acpi`, `Hpet`, `Cmos`, `Pci`, `Display`, `Keyboard`: one module per part
   that `system_init` sets up, and `Boot`, which composes them in the order of `init/init.c`, interrupts included.
   `Filter` is the one helper module: the elements of a sequence at a set of places, without recursion (in `Acpi` and `Pci`).
8. `Kmalloc_proofs`, `Paging_proofs`, `Clock_proofs`, `Boot_proofs`, with `Numbers` for the facts about numbers they share:
   what the runs of these modules check, for every value of the constants (section 5).

Left:

9. `memory_list` of `Paging` as a vector in blocks of `Kmalloc`, whose erase writes past its block (section 6).

## 3. The models

### PhysMem: physical frames (`sys/mmu.c` 34-228)

The bitmap `kmem.bitmap` is the set `free` of the frames whose bit is 1. Addresses and sizes are in frames;
`free_size` counts frames too and may go below zero, which stands for the wrapped `uint64_t`.
`map` is the boot loader's memory map. `PmInit` is all of `pm_init`: the limit from the counted entries,
the first entry that holds the bitmap, the `memset` of `bitmap_size` bytes, `pm_free` of the pool and
`pm_allocate` of the bitmap itself. `PmInitNoMap` and `PmInitNoRoom` are its two ways to fail.
The bitmap's size is rounded down to whole bytes, so the last frames have bits that nobody ever writes:
`TailOnes` says which of them the RAM may show as 1, and any subset of those at or after the zeroed bytes is taken.
`leftover` (history) is the subset that was taken: `pm_get` gives those frames out like any others, while `free_size` has never
counted them, so that it is the number of free frames less theirs, and stays so.
`PmGet` is the first-fit loop of `pm_get`, `PmGetHalt` its end without a fit. `PmFree` is `pm_free` of what a
caller holds. The loop bounds only the first frame of a request by the limit; so does `Fits`.
`held` is a ghost: who was given what. No handler allocates, so a call is one step.

### Heap and Kmalloc: the kernel heap (`common/kmalloc.c`)

`Kmalloc` EXTENDS `PhysMem`. A block is a header frame and `NUM_PAGES(size)` data frames. `hdr` is what stands in
a frame as a header (`NOHDR` once other data is written there), `data` the units of all frames, `ptr` what
`kmalloc` returned, `asked` (ghost) the size asked for. `Kfree` and `KfreeAgain` are `kfree` on a live and
on an already freed pointer; both use only the header, as the code does. `krealloc` is three actions: in place,
moving, and out of memory. Moving is one step in which the new block is taken while the old one still occupies its
frames, copied, and the old one freed. `Store` is a caller writing within its size. `TableGet` and `TableFree` are the
page-table frames of `mmu.c`, which share the allocator. The contents of freed frames are forgotten
(`Forgotten`): everything that is given out again is zeroed before it is read, except the units of the
last frame past the size, which the model leaves arbitrary.
`Heap` is the promise: private blocks, zeroed when new, common prefix kept on resizing.
The refinement maps a block to what its owner reads through the pointer.

`KfreeAgain` may come at any time after the first `kfree`. While nobody has written over the old header, `kfree` finds no magic number
and returns; when somebody else's block starts at the same frame by then, `kfree` finds that block's header and frees it
(`kmalloc.c:63-64`). The model follows it there: the other caller's block is gone, whole, and he holds it no more. So `Heap`
promises that a block is private and keeps its contents until it is freed, not that only its owner can free it. What a caller
does with a pointer whose block another one has freed is not modelled.

### Lock: the lock (`common/lock.c`)

Every instruction of `lock_lock_implementation` and `unlock_lock_implmentation` is an action, on any number of CPUs,
each with a main context and an interrupt handler over it. `pushed` is the flags word on a context's stack,
`rflags` the word in the lock; of both only IF is kept. `before` (ghost) is IF at the call. `Interrupt` and
`Iretq` are the interrupt gate, `Toggle` is `cli`/`sti` of the callers. Nothing in the kernel takes a lock yet (its use in
`kprint.c` is commented out); the model is of the lock itself, with both contexts as callers.

### Paging: virtual memory (`sys/mmu.c` 238-619)

A table is a number, an entry is what it points to or `ABSENT`; `mem` holds the tables, `pool` is what `pm_get` can
still give, `root` and `memory_list` belong to the spaces, `global_mem_map` is the list of recorded kernel mappings.
`todo` holds the ranges the running call still has to go over: one page per step, because the code that runs
meanwhile (handlers, or the main code through other pages) may fill the TLB (`Access`). `MapPage` is
`map_page_entry` with all levels it creates. `OutOfMemory` is its halt when `pm_get` or the vector runs out of memory between the levels: the tables
before that (`StoppedAt`) have been taken, entered and listed, and stay (`Cut`); the last of them is empty, and missing from `memory_list` when it was the list
that could not grow. `HeapOutOfMemory` is a `kmalloc` that halts while no call is under way (within `vm_init` it is not modelled). `UnmapPage` is `unmap_page_entry` with all it frees, and `UnmapNothing` its
early returns. `VmInit` queues what `vm_init` maps: the direct map as far as 2 GB, recorded, the direct map up to the
limit, and the other mappings (`BootMaps`). `LoadCr3` ends it. `CreateAddressSpace` replays the records.
Left out: `vm_get_phys_addr`, which has no caller; flags of entries; which entries of the memory map `vm_init` maps; its
checks of the boot loader's answers (the latter two are in `Boot`). The vectors are sequences, `vector_erase` and
`vector_erase_value` by what they leave in them. CR3 always holds
the kernel's PML4, since nothing else is ever loaded. `vm_unmap` and `create_address_space` have no
caller in the kernel yet; they are modelled as the API they are.

### Clock: ticks (`sys/tick/*.c`, `sys/interrupts/irq.c`, `sys/acpi/apic.c` 300-405, `keyboard_init`)

`pc` is the step of the main code; code between `cli` and `sti` is one step, everything else one step per change of
shared state. `imr`, `irr` and `apic` are the hardware, `g_pic_mask`, `g_irq_handler`, `system_time`, `preempt_quantum`,
`apic_timer_enabled`, `base_frequency`, `divisor` the kernel's variables. An interrupt that can be delivered is delivered before the
next step of the main code (`Quiet`). `left` is the time a sleep still has to see, so that `system_time`
itself can wrap at 2 in the run. Only IRQ 0 and 1 are modelled; the others stay masked. A machine without a PIC
reads all ones from its ports and never interrupts. `apic_timer_init`, `_stop`, `_start`, `_set_freq` and
`system_timer_sleep` have no callers in the kernel yet; `Calls` makes them in any order an API user could.

### Terminal: cursor and screen (`dev/terminal.c`, `fb_putc` of `graphics/framebuffer.c`)

Cells stand for the pixels of a character. The main code prints (`PrintChar`, `PrintNewline`), draws, pushes the
cursor and scrolls, one step per write of the cursor, per character drawn and per row copied or blanked; a key
(`KeyPutc`, `KeyBackspace`) runs `terminal_putc` in one go between any two steps. Column `WIDTH` is off the screen: a
character drawn there spills into the next pixel line. Rows below the screen are dropped by `fb_putpixel` and read as black by
`fb_getpixel`. `x++` takes the value in memory or the one the test has read, since the compiler may do either
(`Advance`). The arguments of `fb_putc` are read in one step. The text has no empty lines (the
kernel's one text has none: its lines hold blanks), and the screen is taken to be a whole number of rows. `disturbed` (ghost) says that a key has
come within a `terminal_putc`. Left out: colours, number formatting, a terminal without a font, `terminal_clear`.

### Boot and its parts: `system_init` (`init/init.c` and what it calls)

`Boot` has one action per step of `system_init`; `pc` is the step that comes next, `halted` says whether the machine still runs, has
reported and stopped (`halt()`), or has a page fault to take. `Interrupt` is any interrupt of the PICs between two steps
once `isr_init` has set IF: through the gate (`GateUsable`), the stub, `isr_handler` and `irq_handler`, and back. `PageFault`
is the exception of a step that touched a page that is not mapped. `UseKeyboard` is a person at the keyboard: before `keyboard_init`,
before `apic_init`'s last step, and at the running system. `KeyboardOff` is the first half of `keyboard_init`; at `pc = "flush"` its loop asks the status
port until no byte waits, and as it reads none it goes on for ever when one does; `KeyboardReady` is the rest. The
state and the operations are in the modules of the parts:

- `Machine`: the CPU's features, CR4, the page attribute table, and which device pages are mapped with which flags.
  `MemoryType` is how the CPU combines the two. `DirectMap` is what `vm_init` maps of the device pages.
- `Serial`: the writes of `serial_init` one after the other, and the chip's registers after them; what comes back is the byte
  written only when the chip is in loopback.
- `Interrupts`: descriptors with their bytes; gates; the stack that a stub builds and what `REGISTERS` finds in it; the
  byte writes to the two PICs and what the chips make of them (`Programmed`); the mode and count of the PIT; `irq_init` and
  the registration of the keyboard. Masks are computed as numbers here; the behaviour of masks over time is in `Clock`.
- `Acpi`: `acpi_init` with its three ways to fail, `acpi_get_sdt`, `madt_init`, and the steps of `apic_init`.
- `Hpet`: `hpet_init`; registers are the sets of their bits.
- `Cmos`: `read_time` register by register against a clock that announces (UIP) and makes an update; the clock makes no
  update within a reading that began with UIP clear, which is what the chip guarantees for 244 us.
- `Pci`: the three loops of `pci_init` over a configuration space, in order, and the growth of the vector. Behind a bridge
  nothing is scanned: `PciAssumption` states that the code's test for a bridge is false on real class words, and TLC checks it.
- `Display`: `fb_init`, `psf1_font_init`, `get_iso_file`, `init_terminal`.
- `Keyboard`: `kbhandler`, the map of pressed keys and the table of characters.

What `PhysMem`, `Kmalloc`, `Paging`, `Clock` and `Terminal` model in detail is not repeated: of memory, `Boot` keeps
`physical_limit` and the device pages.

## 4. Runs

| Run | What it shows | Bounds |
|---|---|---|
| `phys_mem` | ownership, accounting and conservation over all sequences of gets and frees | five maps (a hole, a first entry too short, leftover bits inside and outside the pool, no room, none), 3 callers, requests of 1-3 frames |
| `kmalloc` | headers true, frames private, `free_size` exact, blocks freed whole also by a second `kfree`, `Heap` implemented | 7 frames, 3 callers, sizes 0-3 with 2 units to a frame |
| `lock` | exclusion, no handler spinning on its own CPU, IF restored, progress | 2 CPUs with a handler each |
| `paging` | table ownership, `memory_list`, no empty table, TLB, what a new space holds, a page mapped alone, memory running out at any level | 8 tables of 2 entries (16 pages), kernel and one space, 3 ranges, 2 records |
| `clock` | mask cache, one clock only, keyboard line, acknowledged ticks; sleeps and keys under fairness | with and without PIC, sleeps of 1-2 ticks, quantum 2, time wraps at 2, 2 frequencies |
| `terminal` | where the cursor can be; undisturbed text is contiguous | 4 x 3 cells, 8 characters or newlines, 4 keys |
| `boot` | what works when `system_init` returns, what interrupts change, boot time, devices of bus 0, keys, and that it ends unless a key waits for `keyboard_init` | see below |
| `phys_mem_usable`, `paging_stale`, `clock_take_over`, `clock_flush`, `boot_pci` | section 6 | as above; one map; a machine with a PIC |

Why the bounds are enough: three callers and three-frame requests split a pool around a hole and close gaps in every
order; three sizes cross the page boundary of a block both ways; eight tables run out in the middle of a mapping;
two entries per table make a neighbour that shares a table, one that shares a directory and one that shares nothing;
two CPUs with handlers have every pair of contexts (same CPU, other CPU); eight characters on rows of three wrap, fall
below the screen and scroll. 
The bounds of `boot`: an HPET at 4077 MB and a local APIC at 4078 MB, memory ending below and above them; a CPU with all
features and one with none; with and without PICs; seven firmwares (both revisions, one to five I/O APICs, HPETs of 3, 4
and 32 timers, tables missing, no answer, a bad sum, a bad signature); three instants over the turn of a year and three register
modes; one PCI machine with seven functions on bus 0 in five devices, with gaps, and a disk behind a bridge; framebuffers missing, none, NULL,
lower than a character and right; modules missing, empty, wrong and right; two keys and three presses or releases; a test byte that comes back or not. Each
answer is independent of the others, so that one of a kind at a time reaches every branch.

Symmetry of the callers is used in `phys_mem` and `kmalloc`, where no liveness is checked.
`CHECK_DEADLOCK FALSE` stands where the system really stops: after `halt()`, at the bound on printing and keys, in the flush
loop of `keyboard_init` that never ends (`clock`, `clock_flush`, `boot`), in the idle kernel when nobody types (`boot`).

Fairness. `lock`: weak fairness of every instruction of every context (a CPU executes what it runs, and an owner leaves
its critical section); interrupts, calls of `lock` and `cli` have none. `clock`: weak fairness of delivery and of the
timers, which hardware does by itself; `[]<>Quiet` and strong fairness of the main code's steps, because ticks are a
millisecond apart and a handler takes a small part of that. Nobody has to press keys or call anything.
`boot`: weak fairness of the steps of `system_init` (the CPU executes them; interrupts do not keep it from it) and of the
real time clock, which runs by itself; none of interrupts and keys.

Every property has a mutant in PROJECT.json: an operator `X_Something` before the definition `X`, a plausible bug of
that code with which TLC finds the property violated.

## 5. Proofs

What each module proves it proves for every value of the constants that satisfies the named assumptions; TLC evaluates the
same assumptions on the values of the run. Each proof has the same shape: an inductive invariant, one lemma for each
action that disturbs it, and a last step by temporal logic.

`PhysMem_proofs`, for every set of memory maps, every number of callers and request sizes:

- `TypeCorrect`, `NeverShared`. The invariant adds to `TypeOK` and `NoSharing`
  that nothing is in use before `pm_init` (`Unused`) and that everything held came from the pool or the leftover bits (`HeldKnown`);
  first fit takes only frames whose bits are all FREE, and lemma `BitmapInPool` puts the bitmap itself into the pool.
- `FreeSizeNeverDrifts`, `NothingLost`: whatever bits behind the zeroed bytes read as 1. `free_size` is the number of free frames
  less the leftover ones that `pm_init` found, for ever; what is free, held or in the bitmap is the pool and those frames. The
  invariant needs ownership: the amount `pm_free` adds is the cardinality of what was not free, which equals the extent only
  because a held extent is disjoint from `free`.

`Kmalloc_proofs`, on top of `PhysMem_proofs`, for every size of a frame and of the blocks asked for (`UnitsAssumption`: the
largest block with its header is a request `pm_get` accepts, and memory maps lie below the last address):

- `HeapTypeCorrect`, `HeadersStayTrue`, `HeapNeverShares`, `HeapFreeSizeNeverDrifts`. `KInv` adds to the
  invariant of the frames that a block has as many frames as its size needs and a header (`BlocksSized`), and that what is held
  lies in RAM (`InRam`): a store into one block leaves the header of another alone because no frame has two owners.
- `WholeBlocksFreed`, an action property: in one step at most one owner loses frames to the pool, and loses them all, header and data, exactly
  as many as the header says. That holds for a second `kfree` too: it frees nothing, or the whole block whose header it finds.
- `HeapImplemented`: `Kmalloc` implements `Heap`. `StepSimulates` maps each step to a step of `Heap` or to a stutter; a moving
  `krealloc` needs that the copy goes from one extent to another one (`NoSharing`), and a step of the page tables that it
  touches no block.

`Paging_proofs`, for any number of tables, entries to a table, spaces, ranges and records: `PagingTypeCorrect`, `TablesStayPrivate`,
`MemoryListStaysExact`, `NoTableStaysEmpty`, `TlbStaysTrue`, `NewSpacesShareKernel`, `MapTouchesOnePage`. `PagingAssumption`: tables are
frames, and `ABSENT` is none of them; there are finitely many. `MappingsAssumption`: what callers map lies inside the address space
(the kernel's callers pass addresses of their own image, of devices and of memory), and the mappings of the boot fit into the
records. The invariant gives every table a level and an owner (`TablesInv`): a directory's entry leads one level down in the same space, no
table hangs in two places, and none below a root hangs nowhere; the labels are quantified, so that a step says only which
labels it changes. `PInv` holds while calls go on and return; `AnyInv` adds `StoppedInv`, what holds after a mapping has run out of memory, since the halted
state breaks parts of `PInv`: the lemmas about `Cut` and its stages say that after each level
the tables are still a tree, that only the table entered last is without entries, and that the list names them all but perhaps that one. So the theorems hold of that state too, with the exception they name: the table at which
memory ran out is empty, and may be missing from the list. The rest is about the call under way: it stays inside the address space (`CallsInv`), what
`create_address_space` still has to map will make the new space agree with the records (`Pending`), and the TLB may be wrong
only about pages the call will still flush. That a mapping of one page leaves the others alone rests on `Digits`: two pages with the
same four indices are the same page.

`Clock_proofs`, for every quantum, width of the registers, divisor and set of frequencies, with and without a PIC: `TypeCorrect`, `CacheExact`,
`NeverTwoClocks`, `KeyboardOpen`, `TicksReachTheirEnd`. `ClockAssumption` includes that the measured count is not 0 after truncation, without
which the code divides by 0. `OneClock` is not inductive: the PIT's line is masked before the APIC timer is unmasked
(`PitMasked`), and stays so through `apic_timer_stop`'s restore only because the mask that was saved has it masked too; before `irq_init`
nothing has been started (`Untouched`). `TicksReachTheirEnd` has an invariant of its own (`AckInv`): while the timer runs or a tick waits, the handler is
`clkhandler_two` and the flag is set, or about to be; a stop masks the timer before it clears the flag, and no tick waits then, because
interrupts are on.

`Lock_proofs`, for any number of CPUs: `TypeCorrect`, `LockExcludes`, `HandlersNeverSpinOnTheirOwnCpu`,
`UnlockRestoresFlags`. The invariant ties the lock bit to the existence of a holder, IF of a CPU to the
steps of its two contexts, and the flags word (first on the stack, then in the lock, then on the stack again) to `before`.

`Terminal_proofs`, for screens of any size from 3 x 3, any text without empty lines and any number of keys:
`TypeCorrect`, `CursorStaysNear`, `TextStaysContiguous`. `CursorNearScreen` is not inductive: the invariant `CursorReach` says, for each step of
`terminal_putc`, how far below the screen the cursor can be in and before the last column (only in the last column does a
character move it down), and that undisturbed text stays one row higher. `KeyMoveReach` is the one argument all steps share.
For the text, `TextKept` says of each step which cells are drawn and which are blank, and that below the screen the cursor
is in the first column, so that the scroll puts it at the start of a blank row.

`Boot_proofs`, for every machine, firmware and boot loader that the constants describe:

- `KeyMapStaysTrue`, for the keys 0..127 (`KeyboardAssumption`: the driver clears bit 7 of a byte): the bytes under way about a key end with
  what was last done to it (`KeysInv`), and only line 1 leads to `kbhandler` (`Dispatch`).
- `BootTimeIsATime`, for any sequence of times of the hundred years from the one the kernel was written in, which is what the year
  in two digits can say, in BCD or binary, in the 24-hour modes (`CmosAssumption`; the 12-hour modes are read wrong, section 6). `TimeInv`: the registers read so far belong to the present time, which
  does not end while they are read, since the reading began with UIP clear; `ConvertedIsTime` computes that the BCD conversion
  and the hundred added to the year give the time back.
- `StartedHpetStaysQuiet`, for every list of tables and HPETs of 1 to 32 timers, which is what the five bits of the table's
  count can say (`HpetAssumption`: the device has as many timers).
- `InterruptsStayTransparent`, for every set of vectors that contains the page fault and the PICs' sixteen (`BootAssumption`). `InterruptInv`
  splits the boot into the steps before `gdt_init`, before IF is set, before `irq_init` and after it: gates are made before IF
  is set, the PICs raise nothing while all their lines are masked, and afterwards (`Armed`) they are remapped to vectors that
  all have a handler, line 7's spurious one included. `FrameFits`: for vectors with and without an error code, what CPU, stub
  and `pushall` push is what `REGISTERS` describes, and `popall` gives each register its own value back. `Configured` and
  `Probed` compute what the bytes written to a PIC make of it.
- `SystemInitReturnsReady`. `ReadyInv` says of each part what holds between the step that sets it up and the end of the boot
  (`SegmentsLoaded`, `SerialSet`, `DevicesUncached`, `HpetMapped`, `TimersSet`, `DisplaySet`, `ApicSet`), as far as the boot still runs:
  each halt is what keeps an unfinished part from being built upon. `PartsKept` deals with the steps that leave a part alone;
  `SerialPrograms` and `Configured` compute the registers of the serial chip and of the PICs from the bytes written. Assumed:
  the pages of devices are none of them page 0, and the tables of the firmware name such pages (`MachineAssumption`,
  `AcpiAssumption`); the fonts among the boot modules have a character size that is not 0 (`DisplayAssumption`), by which `init_terminal`
  divides without a test (`terminal.c:39`). Nothing is assumed of the screen: `fb_init` tests for a NULL framebuffer and returns without one
  (`framebuffer.c:28`), and a screen lower than a character gives a terminal of no rows, so the theorem says that there are rows
  when the screen has room for one.
- `ScanListsRootBusOnce`, for every configuration space and its bus 0 (that the buses behind bridges are not scanned is `boot_pci`). `ScanReachesAll`: the 256 steps of the loops over device and
  function reach each function of bus 0 at exactly one step, and `ScanFinds` which of them pass the tests of `scan_device`: functions other than 0
  exist only where the device says that it has them. `Ranks`, `ChosenAre`: the elements a loop picks from a sequence are those at
  the places that pass, each place once. `RoomForAll`: `vector_append` makes room for each of them. `PciAssumption` also says
  what the hardware guarantees: a function that exists has a vendor, a device with any function has function 0.
- `ArraysHold`: `TypeInv` and what it says of the parts (`KeysInv`, `TimeInv`, `InterruptInv`, `PciInv`) is inductive. `ApicsFit`: the test
  in `madt_init` keeps the number of I/O APICs inside the array although it lets one more in than the limit;
  `HpetStaysHpet`, `GatesAreEntries`, `SizesAreNumbers`: the writes to registers, gates and sizes leave what their types describe.

Only model-checked: liveness (`Progress`, `SleepEndsOnPit`, `KeysAreRead`, `BootEndsOrFlushes`), which is out of the prover's reach. Every
other property of a run has its theorem, except those of the five runs that show a violation (section 6).

## 6. Where the code and its documentation disagree

Shown by a run:

- `phys_mem_usable` (`mmu.c:213`): a request at the end of memory is tested against bits beyond the limit, and frames
  that do not exist may be given out.
- `paging_stale` (`mmu.c:331`): `vm_unmap` of two pages of one table frees the table with the first page; for the
  second it returns before `invlpg`, and the CPU keeps a translation of an unmapped page.
- `clock_take_over` (`apic.c:404`): the initial count computed for the APIC timer is 0; after the take-over nothing ticks.
- `clock_flush` (`keyboard.c:80`): the flush loop reads the status port, so a key pressed during boot keeps it going for ever. `BootEndsOrFlushes` (run `boot`) shows
  that nothing else keeps `system_init` from its end.
- `boot_pci` (`pci_io.h:293`): `pci.c:202` says that bridges are looked for and followed; `PCI_DEV_IS_BRIDGE` compares the whole class word,
  subclass included, with 6, and a PCI bridge has 0x0604: the disk behind the bridge is not listed.

Visible in the models, without a run of their own:

- leftover bits that read as 1 make frames free that `free_size` has not counted (`mmu.c:88`): it stays too small by that many, and wraps when
  fewer frames than that are free; the bitmap's last, partial byte may lie outside the frames reserved for it (`mmu.c:106`);
- `unmap_page_entry` frees a page table whatever else it maps (`mmu.c:341`), while the levels above are scanned first;
- a mapping made with `vm_map(NULL, ..)` reaches only spaces created later (`mmu.c:474`), although `apic_init` says
  "The APIC must be visible to all tasks" (`apic.c:284`);
- `apic_timer_start` sets the flag that makes the handler acknowledge the APIC after it has unmasked the timer (`apic.c:336`): a tick in between gets no end of
  interrupt, and the APIC delivers no further one. `TicksAcknowledged` says that this is the only such place;
- `apic_timer_stop` restores the mask it finds in `g_pic_mask`, in which `apic_timer_start` has masked IRQ 0 (`apic.c:330`): the PIT does not
  take over again, contrary to `apic.c:309` ("so that the system timers can continue");
- a second `kfree` of a pointer frees the block of whoever has the frame by then (`kmalloc.c:63`);
- the first character of each new last row is drawn below the screen and lost before the scroll (`terminal.c:164`);
- a key between a character's drawing and the cursor's step draws over that character;
- when memory ends below the local APIC, `apic_init` writes the error register (`apic.c:282`) before `vm_map` maps its
  page (`apic.c:285`): the run `boot` reaches that page fault, and the kernel stops;
- after a bad checksum or signature `acpi_init` returns (`acpi.c:86`), the boot goes on, and `apic_init` reads
  the base through a NULL `madt`: a page fault again; an RSDP of revision 3 or more is read as one of revision 0 (RSDT);
- `num_io_apics > MAX_IO_APICS` (`madt.c:94`) lets one more in than the limit; the array has room for it;
- `HPET_NUM_COMPARATOR_CHECK` (`hpet.c:227`) is true for 4 to 31 timers, and then the HPET is refused; `x &= (0 << bit)`
  clears the whole word of a timer;
- `CHECK_TIME_EQ` (`cmos.h:66`) lacks parentheses: the `!` in `cmos.c:69` applies to the seconds only, and the loop also ends with two
  readings that differ in more than the seconds. `BootTimeTrue` holds because of the wait for UIP. In 12-hour mode the PM bit is tested after
  the BCD conversion has lost it (`cmos.c:86`): 1 PM is read as 81, and 12 AM as 12; the property is about 24-hour modes;
- were a bridge recognised, the number of the bus behind it would be read with `&&` for `&` (`PCI_READ_SUBBUS_ID`);
- `check_string_ending` does not compare the first letter (`iso_file.c:20`);
- step 7 of `serial_init` writes 0xAE, in which the loopback bit 0x10 is 0: a working chip with a quiet line is reported faulty;
- caps lock shifts only while the key is held down (`scancodes.c:48`);
- the 256 bytes that `psf1_font_mode` allocates are lost when `glyph_buffer` is set to the file (`psf.c:55`).

Met while reading, in what is not modelled:

- `lock.h` declares `unlock_lock_implementation` and `lock.c` defines `unlock_lock_implmentation`: a use of `UNLOCK_LOCK` would not link
  (nothing takes a lock yet);
- `vm_get_phys_addr` (`mmu.c:420`) tests `pd[pte]` but walks through `pd[pde]`; nothing calls it;
- `vector_erase` (`vector.h:77`) moves `sizeof * length - index - 1` bytes where `(length - index - 1)` elements are meant;
  with the tables of 2 GB in `memory_list`, erasing near the end writes past the pages of its block;
- a MADT record of length 0 would be read for ever (`madt.c:101`); `krealloc` of a freed block trusts its old header;
- `klog_implementation` hands a `va_list` to a function with variable arguments, so that numbers in its reports are
  wrong; the width of `%4x` in `kprintf` cuts high digits where padding is meant;
- `stack_walk` takes the return address for the next frame; `get_cpu_model_name` reads leaf 0x80000004 twice and 0x80000003 never;
- the stubs of vectors 29 and 30 push an error code although AMD CPUs push one; `pic_send_end_of_interrupt` tests
  `irq > 8` and nothing calls it.

## 7. What is not modelled

Every part of the system is listed under "components" of PROJECT.json with its status. Left out of the modelled parts, because
nothing in the kernel calls it: `find_bar` and the table of PCI names, `pit_set_event` and the reading of the PIT's count, the reading of IRR and ISR,
`apic_send_ipi`, `serial_write` and `serial_read`, `irq_unregister_handler`, `terminal_clear` and the setters of the terminal's colours and
cursor, `fb_refresh`, `vm_get_phys_addr`. Left out because it changes no state that anything reads: the log, the printing of
numbers, CPU information, memory statistics. Scancodes with an 0xE0 prefix are left out of `Keyboard`. Code under `HPET_LONG_MODE`
and `#if 0` is not compiled. String and memory helpers are library loops; the models use what they compute.
