---------------------------------- MODULE Boot ----------------------------------
(***************************************************************************)
(* system_init (init/init.c): the parts of the kernel are initialised one  *)
(* after the other, each with what the boot loader, the firmware and the   *)
(* devices answer.  From isr_init on an interrupt may come between two     *)
(* steps whenever IF is set.  The kernel ends in the idle loop, or halted. *)
(*                                                                         *)
(* The state and the operations of a part are in the module of the part;   *)
(* here is their order.  An answer is chosen at the step that reads it.    *)
(* pm_init is modelled in PhysMem, the tables of vm_init in Paging and the *)
(* allocator in Kmalloc: only what they tell the later steps is kept.      *)
(***************************************************************************)
EXTENDS Serial, Interrupts, Hpet, Cmos, Pci, Display, Keyboard

VARIABLES
    pc,               \* the next step of system_init
    limit             \* kmem.physical_limit

vars == <<pc, limit, MachineVars, SerialVars, InterruptVars, AcpiVars, HpetVars,
          CmosVars, PciVars, DisplayVars, KeyboardVars>>

ASSUME BootAssumption ==
    /\ PicPresent \subseteq BOOLEAN
    /\ {14} \cup 32..47 \subseteq Vectors /\ Vectors \subseteq 0..255

Stages == {"start", "serial", "gdt", "idt", "cpu", "isr", "pm", "vm", "acpi", "hpet",
           "cmos", "pci", "fb", "font", "terminal", "irq", "keyboard", "flush", "apic",
           "apic_reset", "apic_map", "apic_enable", "apic_check", "idle"}

\* A step of system_init, and the next one.
Step(here, next) == pc = here /\ halted = "no" /\ pc' = next

Init ==
    /\ pc = "start" /\ limit = 0
    /\ MachineInit /\ SerialInit /\ InterruptInit /\ AcpiInit /\ HpetInit
    /\ CmosInit /\ PciInit /\ DisplayInit /\ KeyboardInit

-----------------------------------------------------------------------------
(* Before there is memory *)

\* It answers whether there is a response.
print_boot_info(response) == response

\* The base revision, and print_boot_info.
CheckBootLoader ==
    /\ Step("start", "serial")
    /\ \E revision_supported, response \in BOOLEAN :
          IF revision_supported /\ print_boot_info(response) THEN GoesOn ELSE halt("report")
    /\ UNCHANGED <<limit, SerialVars, features, cr4, page_flags, pat, InterruptVars, AcpiVars,
                   HpetVars, CmosVars, PciVars, DisplayVars, KeyboardVars>>

\* A faulty chip is only reported.
SerialPort ==
    /\ Step("serial", "gdt")
    /\ serial_init
    /\ UNCHANGED <<limit, MachineVars, InterruptVars, AcpiVars, HpetVars, CmosVars, PciVars,
                   DisplayVars, KeyboardVars>>

GdtInit ==
    /\ Step("gdt", "idt")
    /\ gdt_init
    /\ UNCHANGED <<limit, SerialVars, MachineVars, idt, handlers, interrupt_flag, timing,
                   registers, AcpiVars, HpetVars, CmosVars, PciVars, DisplayVars, KeyboardVars>>

IdtInit ==
    /\ Step("idt", "cpu")
    /\ idt_init
    /\ UNCHANGED <<limit, SerialVars, MachineVars, segments, handlers, interrupt_flag,
                   timing, registers, AcpiVars, HpetVars, CmosVars, PciVars, DisplayVars,
                   KeyboardVars>>

CpuInit ==
    /\ Step("cpu", "isr")
    /\ cpu_init /\ GoesOn
    /\ UNCHANGED <<limit, SerialVars, InterruptVars, AcpiVars, HpetVars, CmosVars, PciVars,
                   DisplayVars, KeyboardVars>>

IsrInit ==
    /\ Step("isr", "pm")
    /\ isr_init
    /\ UNCHANGED <<limit, SerialVars, MachineVars, segments, handlers, timing, registers,
                   AcpiVars, HpetVars, CmosVars, PciVars, DisplayVars, KeyboardVars>>

-----------------------------------------------------------------------------
(* Memory and devices *)

\* pm_init: no memory map, or the limit of the one there is.
PmInit ==
    /\ Step("pm", "vm")
    /\ \/ halt("report") /\ UNCHANGED limit
       \/ GoesOn /\ limit' \in Limits
    /\ UNCHANGED <<SerialVars, features, cr4, page_flags, pat, InterruptVars, AcpiVars, HpetVars,
                   CmosVars, PciVars, DisplayVars, KeyboardVars>>

\* vm_init: no kernel address, or the new page table is loaded.
VmInit ==
    /\ Step("vm", "acpi")
    /\ \/ halt("report") /\ UNCHANGED page_flags
       \/ GoesOn /\ page_flags' = DirectMap(limit)
    /\ UNCHANGED <<limit, SerialVars, features, cr4, pat, InterruptVars, AcpiVars, HpetVars,
                   CmosVars, PciVars, DisplayVars, KeyboardVars>>

AcpiTables ==
    /\ Step("acpi", "hpet")
    /\ \E rsdp \in Firmwares : acpi_init(rsdp)
    /\ UNCHANGED <<limit, SerialVars, features, cr4, page_flags, pat, InterruptVars, local_apic,
                   HpetVars, CmosVars, PciVars, DisplayVars, KeyboardVars>>

StartHpet ==
    /\ Step("hpet", "cmos")
    /\ hpet_init
    /\ UNCHANGED <<limit, SerialVars, InterruptVars, CmosVars, PciVars, DisplayVars,
                   KeyboardVars>>

\* cmos_init: the steps of read_time, and those of the clock meanwhile.
ReadClock ==
    /\ \/ Step("cmos", "cmos") /\ ReadTime
       \/ Step("cmos", "pci") /\ TimeIsRead
    /\ UNCHANGED <<limit, SerialVars, MachineVars, InterruptVars, AcpiVars, HpetVars,
                   PciVars, DisplayVars, KeyboardVars>>

ClockRuns ==
    /\ pc = "cmos" /\ (Announce \/ Update)
    /\ UNCHANGED <<pc, limit, SerialVars, MachineVars, InterruptVars, AcpiVars, HpetVars,
                   PciVars, DisplayVars, KeyboardVars>>

ScanPci ==
    /\ Step("pci", "fb")
    /\ \E space \in PciMachines : pci_init(space)
    /\ UNCHANGED <<limit, SerialVars, MachineVars, InterruptVars, AcpiVars, HpetVars,
                   CmosVars, DisplayVars, KeyboardVars>>

-----------------------------------------------------------------------------
(* The terminal, and the interrupts of the PICs *)

Show ==
    /\ \/ Step("fb", "font") /\ \E response \in FbResponses : fb_init(response)
       \/ /\ Step("font", "terminal")
          /\ \E response \in ModuleResponses, memory \in BOOLEAN : psf1_font_init(response, memory)
       \/ Step("terminal", "irq") /\ init_terminal
    /\ UNCHANGED <<limit, SerialVars, features, cr4, page_flags, pat, InterruptVars, AcpiVars,
                   HpetVars, CmosVars, PciVars, KeyboardVars>>

IrqInit ==
    /\ Step("irq", "keyboard")
    /\ irq_init
    /\ UNCHANGED <<limit, SerialVars, MachineVars, segments, registers, AcpiVars, HpetVars,
                   CmosVars, PciVars, DisplayVars, KeyboardVars>>

\* keyboard_init turns interrupts and the keyboard off.
KeyboardOff ==
    /\ Step("keyboard", "flush")
    /\ disable_interrupts
    /\ UNCHANGED <<limit, SerialVars, MachineVars, segments, idt, handlers, timing, registers,
                   AcpiVars, HpetVars, CmosVars, PciVars, DisplayVars, KeyboardVars>>

\* The rest of keyboard_init.  Its loop asks the controller's status until there is no
\* byte; as it reads no byte it goes on for ever when there is one.
KeyboardReady ==
    /\ Step("flush", "apic")
    /\ kb_bytes = <<>>
    /\ RegisterKeyboard
    /\ UNCHANGED <<limit, SerialVars, MachineVars, segments, registers, AcpiVars, HpetVars,
                   CmosVars, PciVars, DisplayVars, KeyboardVars>>

\* apic_init, in five steps.
ApicInit ==
    /\ \/ Step("apic", "apic_reset") /\ \E a \in ApicStates : apic_find(a)
       \/ Step("apic_reset", "apic_map") /\ apic_reset_error_reg
       \/ Step("apic_map", "apic_enable") /\ apic_map
       \/ Step("apic_enable", "apic_check") /\ apic_enable
       \/ Step("apic_check", "idle") /\ apic_check_error_reg
    /\ UNCHANGED <<limit, SerialVars, InterruptVars, HpetVars, CmosVars, PciVars,
                   DisplayVars, KeyboardVars>>

-----------------------------------------------------------------------------
(* Interrupts *)

\* irq_handler: a line without a handler is only reported.
irq_handler(irq) ==
    IF g_irq_handler[irq] = "kbhandler" THEN kbhandler ELSE UNCHANGED KeyboardVars

\* isr_handler reports a vector without a handler, and halts.
isr_handler(v) ==
    IF g_isr_handlers[v] = "NULL"
    THEN halt(IF v >= 32 THEN "interrupt" ELSE "exception") /\ UNCHANGED KeyboardVars
    ELSE GoesOn /\ irq_handler(v - PIC_REMAP_OFFSET)

\* Through the gate to the stub, isr_handler, and back with the registers that it was
\* shown; without a gate the CPU gives up.
Taken(v) ==
    /\ IF GateUsable(v)
       THEN isr_handler(v) /\ registers' = ValueAfter(v)
       ELSE halt("reset") /\ UNCHANGED <<registers, KeyboardVars>>
    /\ UNCHANGED <<pc, limit, SerialVars, features, cr4, page_flags, pat, segments, idt, handlers,
                   interrupt_flag, timing, AcpiVars, HpetVars, CmosVars, PciVars, DisplayVars>>

\* An interrupt of the PICs.
Interrupt(v) ==
    /\ halted = "no" /\ interrupt_flag /\ v \in PicVectors
    /\ v = 33 => kb_bytes # <<>>
    /\ Taken(v)

\* The page fault of the step of system_init that could not complete.
PageFault == halted = "fault" /\ Taken(14)

\* The steps before which keys may come: the first that looks at the controller, to which
\* an earlier key makes no other difference; the last of apic_init, whose steps do not
\* touch what a key does; and the idle loop.  The keyboard is off during the flush.
KeyboardOn == {"keyboard", "apic_check", "idle"}

\* Somebody uses the keyboard.
UseKeyboard ==
    /\ pc \in KeyboardOn
    /\ \E k \in Keys : PressKey(k) \/ ReleaseKey(k)
    /\ UNCHANGED <<pc, limit, SerialVars, MachineVars, InterruptVars, AcpiVars, HpetVars,
                   CmosVars, PciVars, DisplayVars>>

SystemInit ==
    \/ CheckBootLoader \/ SerialPort \/ GdtInit \/ IdtInit \/ CpuInit \/ IsrInit
    \/ PmInit \/ VmInit \/ AcpiTables \/ StartHpet \/ ReadClock \/ ScanPci
    \/ Show \/ IrqInit \/ KeyboardOff \/ KeyboardReady \/ ApicInit \/ PageFault

Next ==
    \/ SystemInit
    \/ ClockRuns
    \/ \E v \in Vectors : Interrupt(v)
    \/ UseKeyboard

Fairness == WF_vars(SystemInit) /\ WF_vars(ClockRuns)

Spec == Init /\ [][Next]_vars /\ Fairness

-----------------------------------------------------------------------------
(* Properties *)

\* The kernel's arrays hold what is put into them: four pointers to I/O APICs, 256 to
\* local APICs, as many devices as the vector has capacity for.  A step of system_init is
\* among the known ones, and a character that is typed can be printed.
BootTypeOK ==
    /\ pc \in Stages
    /\ halted \in {"no", "fault", "report", "interrupt", "exception", "reset"}
    /\ gdt \in Seq(GDT_ENTRY) /\ idt \in [Vectors -> IDT_ENTRY]
    /\ hpet_regs \in HPET
    /\ initial_fb \in FRAMEBUFFER /\ term \in TERMINAL
    /\ device_list.data \in Seq(PCI_DEVICE_INFO)
    /\ Len(io_apics) <= 4 /\ Len(local_apics) <= MAX_CPUS
    /\ device_list.length = Len(device_list.data)
    /\ device_list.length <= device_list.capacity
    /\ reading \in 0..9
    /\ typed \in {0, 8} \cup 32..126
    /\ [key_pressed |-> key_pressed, last_keystroke |-> last_keystroke] \in KEYBOARD_MOUSE

\* Interrupts are transparent: whatever the step of the boot at which a hardware
\* interrupt comes, the spurious one included, its gate, stub, isr_handler and
\* irq_handler give control back with the registers unchanged, and nothing halts.  A page
\* fault finds its gate too, and its report shows the registers as they were.
InterruptsTransparent ==
    /\ halted \notin {"interrupt", "reset"}
    /\ \A r \in DOMAIN registers : registers[r] = r

\* PIT_1MS: the period of the timer is within a thousandth of a millisecond's clocks.
TicksEveryMillisecond ==
    /\ pit.mode = 54
    /\ pit.count * 1000 \in (PIT_MAX_FREQ - PIT_MAX_FREQ \div 1000)
                            ..(PIT_MAX_FREQ + PIT_MAX_FREQ \div 1000)

\* The PICs as the handlers expect them: remapped, cascaded, acknowledging by
\* themselves, with the timer and the keyboard open, and the cached mask exact.
PicsReady ==
    /\ \A c \in {1, 2} : chips[c].auto_eoi
    /\ chips[1].offset = PIC_REMAP_OFFSET /\ chips[2].offset = PIC_REMAP_OFFSET + 8
    /\ chips[1].cascade = 4 /\ chips[2].cascade = 2
    /\ chips[1].mask = 252 /\ chips[2].mask = 255
    /\ g_pic_mask = chips[1].mask + 256 * chips[2].mask
    /\ g_irq_handler[0] = "clkhandler" /\ g_irq_handler[1] = "kbhandler"

\* The rate that is meant, 8 bits without parity, no interrupts, and not in loopback.
SerialReady ==
    /\ (uart.divisor_low + 256 * uart.divisor_high) * BAUD_RATE = MAX_RATE
    /\ uart.line = 3 /\ uart.interrupts = 0 /\ ~InLoopback(uart)

\* system_init returns only into a system that works: valid segments, interrupts on,
\* a local APIC found in the MADT and enabled, device pages that are not cached, a
\* font and a terminal with rows (unless there was no memory for the font, or the screen
\* is missing or too small for one character of it), a serial port set up if
\* it is not reported faulty, and, on a machine with PICs, their timer and keyboard
\* interrupts.
ReadyMeansReady ==
    pc = "idle" /\ halted = "no" =>
        /\ IsKernelCode64(gdt, cs) /\ IsKernelData(gdt, ds)
        /\ interrupt_flag
        /\ madt # NULL /\ local_apic.enabled /\ local_apic.base = madt.lapic_address
        /\ MemoryType(local_apic.base) = "UC"
        /\ hpet # NULL => MemoryType(hpet) = "UC"
        /\ font.header # NULL => font.glyph_buffer # NULL
        /\ font.header # NULL /\ HasRoom => term.height > 0 /\ term.width > 0
        /\ pic_present => PicsReady /\ TicksEveryMillisecond
        /\ serial_enabled = "ERR_NO_ERR" => SerialReady

\* An HPET whose counter the kernel has started raises no interrupt: none of its timers,
\* the last one included, has its interrupt or its FSB route enabled.
EnabledHpetIsQuiet ==
    hpet # NULL /\ ENABLE_CNF \in hpet_regs.config =>
        \A i \in DOMAIN hpet_regs.timers :
            hpet_regs.timers[i] \cap {TMR_FSB_EN_CNF, TMR_INT_ENB_CNF} = {}

\* pci_init lists every function of bus 0 once, whether or not a device with a single
\* function answers for all eight.  What is behind a bridge it does not find: see
\* BridgesAreFollowed.
RootBusListedOnce ==
    pci_space # <<>> =>
        LET found == device_list.data IN
        /\ \A i, j \in DOMAIN found : i # j => found[i] # found[j]
        /\ ToSet(found) = {f \in DOMAIN pci_space : f[1] = 0}

\* The boot time is a time that the clock has shown: never registers of two instants
\* put together, nor one converted wrongly.  It is so for a clock in a 24-hour mode: in
\* a 12-hour mode read_time looks for the PM bit after the conversion that has lost it.
BootTimeTrue ==
    boot_time # <<>> /\ status_b.is_24_hours =>
        \E i \in 1..rtc : \A r \in DOMAIN boot_time[1] \ {"century"} :
            boot_time[1][r] = Instants[i][r]

\* When no byte waits in the controller, the driver's map says which keys are down.
KeysHeldTrue == kb_bytes = <<>> => key_pressed = held

\* system_init ends: the kernel idles, or it has stopped.  Only a byte that waits in the
\* keyboard's controller when keyboard_init comes keeps it from that, in the flush loop.
BootEndsOrFlushes ==
    <>(pc = "idle" \/ halted \notin {"no", "fault"} \/ (pc = "flush" /\ kb_bytes # <<>>))

\* What comments say, and the code does not do:

\* "While scanning a device, we check to see if there are any bridges between that device
\* and another to continue scanning that bridge": every function of the machine, whose
\* bridges lead to its other buses, is listed.
BridgesAreFollowed == pci_space # <<>> => DOMAIN pci_space \subseteq ToSet(device_list.data)

=============================================================================
