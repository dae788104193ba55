------------------------------ MODULE Interrupts ------------------------------
(***************************************************************************)
(* What an interrupt needs before it can be taken: the global descriptor   *)
(* table (sys/gdt), the interrupt descriptor table and the stubs behind    *)
(* its gates (sys/interrupts), the two PICs and the PIT (sys/tick).        *)
(*                                                                         *)
(* Bytes and words written to tables and ports are numbers; the hardware   *)
(* reads their bits.  Bases and limits of segments, which long mode        *)
(* ignores, port delays and log output are left out.                       *)
(***************************************************************************)
EXTENDS Integers, Sequences, SequencesExt

CONSTANTS
    Vectors,          \* the vectors that are looked at
    PicPresent        \* whether the machine may have a PIC: a subset of BOOLEAN

VARIABLES
    gdt,              \* descriptors of the loaded table
    cs, ds,           \* code and data segment registers
    idt,              \* gates
    g_isr_handlers, g_irq_handler,
    interrupt_flag,   \* IF
    pic_present,
    chips,            \* the two PICs
    g_pic_mask,
    pit,              \* mode byte and count of channel 0
    registers         \* which value a register of the main code holds: its own

segments == <<gdt, cs, ds>>
handlers == <<g_isr_handlers, g_irq_handler>>
timing   == <<pic_present, chips, g_pic_mask, pit>>

InterruptVars == <<segments, idt, handlers, interrupt_flag, timing, registers>>

NUM_HARDWARE_INTERRUPTS == 16
PIC_REMAP_OFFSET == 32
PIT_MAX_FREQ == 1193182
PIT_DEFAULT_FREQ == 1000
PIT_1MS == 1000

\* STI and CLI.
enable_interrupts == interrupt_flag' = TRUE

disable_interrupts == interrupt_flag' = FALSE

Bit(word, i) == (word \div 2^i) % 2

WithBit(word, i) == IF Bit(word, i) = 1 THEN word ELSE word + 2^i

WithoutBit(word, i) == IF Bit(word, i) = 0 THEN word ELSE word - 2^i

-----------------------------------------------------------------------------
(* Segments *)

GDT_KERNEL_CODE_64_BIT == 40

GDT_ENTRY == [access : 0..255, flags : 0..255]

\* A descriptor: its access byte and its flags.
gdt_init_entry(access, flags) == [access |-> access, flags |-> flags - (flags % 16)]

\* GDT_ACCESS_BYTE: present, code or data, executable, readable or writeable.
KernelCode == 128 + 16 + 8 + 2
KernelData == 128 + 16 + 2
Ring3 == 96

\* GDT_TABLE as gdt_init fills it.
GdtTable ==
    << gdt_init_entry(0, 0),
       gdt_init_entry(KernelCode, 0),            gdt_init_entry(KernelData, 0),
       gdt_init_entry(KernelCode, 64 + 128),     gdt_init_entry(KernelData, 64 + 128),
       gdt_init_entry(KernelCode, 32 + 128),     gdt_init_entry(KernelData, 32 + 128),
       gdt_init_entry(KernelCode + Ring3, 32 + 128),
       gdt_init_entry(KernelData + Ring3, 32 + 128) >>

\* The descriptor that the CPU finds in a table for a selector.
Descriptor(table, selector) == table[selector \div 8 + 1]

IsKernelCode64(table, selector) ==
    /\ selector \div 8 + 1 \in DOMAIN table
    /\ LET d == Descriptor(table, selector)
       IN  /\ Bit(d.access, 7) = 1 /\ Bit(d.access, 4) = 1 /\ Bit(d.access, 3) = 1
           /\ (d.access \div 32) % 4 = 0
           /\ Bit(d.flags, 5) = 1 /\ Bit(d.flags, 6) = 0

IsKernelData(table, selector) ==
    /\ selector \div 8 + 1 \in DOMAIN table
    /\ LET d == Descriptor(table, selector)
       IN  /\ Bit(d.access, 7) = 1 /\ Bit(d.access, 4) = 1 /\ Bit(d.access, 3) = 0
           /\ (d.access \div 32) % 4 = 0 /\ Bit(d.access, 1) = 1

\* gdt_init and gdt_load, for the one CPU.
gdt_init ==
    /\ gdt' = GdtTable
    /\ ds' = 48
    /\ cs' = 40

-----------------------------------------------------------------------------
(* Gates and stubs *)

\* A stub is known by the vector it pushes; 0 is also the base of an empty gate.
Stubs == 0..255

Selectors == 0..65535

IDT_ENTRY == [isr : Stubs, selector : Selectors, type : 0..255]

\* The flag has the present bit in it.
IDT_FLAG_GATE_64BIT_INT == 142

idt_init_entry(stub, selector, type) == [isr |-> stub, selector |-> selector, type |-> type]

\* The entries isr_init_entries makes, all of ring 0.
isr_init_entries ==
    [v \in Vectors |-> idt_init_entry(v, GDT_KERNEL_CODE_64_BIT, IDT_FLAG_GATE_64BIT_INT)]

idt_enable_gate(table, v) == [table EXCEPT ![v].type = WithBit(@, 7)]

idt_disable_gate(table, v) == [table EXCEPT ![v].type = WithoutBit(@, 7)]

\* idt_init zeroes every entry.
idt_init == idt' = [v \in Vectors |-> idt_init_entry(0, 0, 0)]

\* isr_init: all gates are made and opened, the one of 0x80 is closed again.
isr_init ==
    /\ idt' = LET open == [v \in Vectors |-> idt_enable_gate(isr_init_entries, v)[v]]
              IN  IF 128 \in Vectors THEN idt_disable_gate(open, 128) ELSE open
    /\ enable_interrupts

\* The vectors up to 21 that the CPU pushes an error code for, and what it pushes, the
\* last word at the end.
PushesErrorCode(v) == v \in {8, 17, 21} \cup 10..14

CpuPushes(v) ==
    <<"ss", "rsp", "rflags", "cs", "rip">> \o IF PushesErrorCode(v) THEN <<"error_code">> ELSE <<>>

\* The stubs made by ISR_ERRORCODE; the others push an error code of 0.
ISR_ERRORCODE == {8, 10, 11, 12, 13, 14, 17, 21}

StubPushes(stub) == IF stub \in ISR_ERRORCODE THEN <<"interrupt">> ELSE <<"error_code", "interrupt">>

pushall ==
    <<"rax", "rbx", "rcx", "rdx", "rbp", "rdi", "rsi", "r8",
      "r9", "r10", "r11", "r12", "r13", "r14", "r15">>

popall ==
    <<"r15", "r14", "r13", "r12", "r11", "r10", "r9", "r8",
      "rsi", "rdi", "rbp", "rdx", "rcx", "rbx", "rax">>

\* The stack when isr_handler is called, from its top on.
Frame(v) == Reverse(CpuPushes(v) \o StubPushes(idt[v].isr) \o pushall)

\* What the struct REGISTERS finds there; isr_disp takes it off in the same order: popall,
\* two words dropped, and iretq.
REGISTERS == popall \o <<"interrupt", "error_code", "rip", "cs", "rflags", "rsp", "ss">>

ValueAfter(v) ==
    LET frame == Frame(v)
    IN  [r \in DOMAIN registers |->
            registers[frame[CHOOSE i \in DOMAIN REGISTERS : REGISTERS[i] = r]]]

-----------------------------------------------------------------------------
(* The two PICs *)

\* What is written to a chip: 0 and a byte for its command port, 1 and a byte for its data
\* port.  The chips do not see what is written to each other.
IsICW1(w) == w[1] = 0 /\ Bit(w[2], 4) = 1

\* PIC_ICW1_ICW4 | PIC_ICW1_INITIALIZE, and PIC_ICW4_8086 | PIC_ICW4_AUTO_EOI.
ICW1 == 1 + 16
ICW4 == 1 + 2

\* What the writes to a chip make of it.  ICW1 clears the mask, and the next three bytes
\* for the data port are ICW2 to ICW4; other bytes for that port are the mask.  The last
\* byte is a mask, and only ICW1 goes to the command port.
Programmed(chip, writes) ==
    LET icw1 == {i \in DOMAIN writes : IsICW1(writes[i])}
        last == CHOOSE i \in icw1 : \A j \in icw1 : j <= i
        mask == writes[Len(writes)][2]
    IN  IF icw1 = {} THEN [chip EXCEPT !.mask = mask]
        ELSE [offset |-> writes[last + 1][2], cascade |-> writes[last + 2][2],
              auto_eoi |-> Bit(writes[last + 3][2], 1) = 1, mask |-> mask]

\* What writes to the two chips make of them; without a PIC nobody listens.
AfterWrites(pair, Writes(_)) ==
    IF pic_present THEN [c \in {1, 2} |-> Programmed(pair[c], Writes(c))] ELSE pair

\* What pic_set_mask writes to a chip.
pic_set_mask(mask, c) == <<1, IF c = 1 THEN mask % 256 ELSE mask \div 256>>

pic_disable(c) == pic_set_mask(65535, c)

AfterMask(pair, mask) == AfterWrites(pair, LAMBDA c : <<pic_set_mask(mask, c)>>)

\* pic_get_mask: a machine without a PIC reads 0xFF from its ports.
pic_get_mask(pair) == IF pic_present THEN pair[1].mask + 256 * pair[2].mask ELSE 65535

\* pic_probe: pic_disable, everything unmasked, and read back.
ProbeWrites(c) == <<pic_disable(c), pic_set_mask(0, c)>>

\* Mutant of ConfigureWrites: the offsets of the two chips are swapped.
ConfigureWrites_Swapped(c) ==
    << pic_disable(c), <<0, ICW1>>,
       <<1, IF c = 1 THEN PIC_REMAP_OFFSET + 8 ELSE PIC_REMAP_OFFSET>>,
       <<1, IF c = 1 THEN 4 ELSE 2>>, <<1, ICW4>>, pic_disable(c) >>

\* pic_configure: four control words for each chip, between two full masks.
ConfigureWrites(c) ==
    << pic_disable(c), <<0, ICW1>>,
       <<1, IF c = 1 THEN PIC_REMAP_OFFSET ELSE PIC_REMAP_OFFSET + 8>>,
       <<1, IF c = 1 THEN 4 ELSE 2>>, <<1, ICW4>>, pic_disable(c) >>

AfterProbe == AfterWrites(chips, ProbeWrites)

AfterConfigure == AfterWrites(AfterProbe, ConfigureWrites)

\* The count that pit_init computes; its rounding looks at the remainder of the
\* division by the count.
pit_count(hertz) ==
    LET wanted == IF hertz < 18 \/ hertz > PIT_MAX_FREQ THEN PIT_DEFAULT_FREQ ELSE hertz
        count  == PIT_MAX_FREQ \div wanted
    IN  IF PIT_MAX_FREQ % count > count \div 2 THEN count + 1 ELSE count

PIT_BINARY_MODE == 0
PIT_MODE_3 == 3        \* square wave generator
PIT_LO_AND_HIGH == 3
PIT_CHANNEL_0 == 0

PIT_MODE_COMMAND(op_mode, access_mode, channel) == 2 * op_mode + 16 * access_mode + 64 * channel

\* pit_init: the mode, then the two bytes of the count.
pit_init(hertz) ==
    pit' = [mode  |-> PIT_BINARY_MODE + PIT_MODE_COMMAND(PIT_MODE_3, PIT_LO_AND_HIGH, PIT_CHANNEL_0),
            count |-> (pit_count(hertz) % 256) + 256 * ((pit_count(hertz) \div 256) % 256)]

-----------------------------------------------------------------------------
(* Hardware interrupts *)

irq_register_handler(table, irq, handler) == [table EXCEPT ![irq] = handler]

\* isr_register_handler, of several vectors one after the other.
isr_register_handler(vectors, handler) ==
    /\ g_isr_handlers' = [v \in Vectors |-> IF v \in vectors THEN handler ELSE g_isr_handlers[v]]
    /\ idt' = [v \in Vectors |-> IF v \in vectors THEN idt_enable_gate(idt, v)[v] ELSE idt[v]]

HardwareVectors ==
    Vectors \cap {PIC_REMAP_OFFSET + i : i \in 0..NUM_HARDWARE_INTERRUPTS-1}

\* Mutant of IrqFound: the handlers of the first eight lines only are registered, and
\* the last of them is forgotten.
IrqFound_NotAll ==
    /\ chips' = AfterMask(AfterConfigure, 65534)
    /\ g_pic_mask' = 65534
    /\ pit_init(PIT_1MS)
    /\ g_irq_handler' = irq_register_handler(g_irq_handler, 0, "clkhandler")
    /\ isr_register_handler(HardwareVectors \ {39}, "irq_handler")
    /\ enable_interrupts

\* irq_init with a PIC: it is configured, the PIT set and its line unmasked, and all
\* sixteen vectors get irq_handler, between cli and sti.
IrqFound ==
    /\ chips' = AfterMask(AfterConfigure, WithoutBit(65535, 0))
    /\ g_pic_mask' = WithoutBit(65535, 0)
    /\ pit_init(PIT_1MS)
    /\ g_irq_handler' = irq_register_handler(g_irq_handler, 0, "clkhandler")
    /\ isr_register_handler(HardwareVectors, "irq_handler")
    /\ enable_interrupts

\* irq_init when pic_probe finds none: it returns with interrupts off.
IrqNotFound ==
    /\ chips' = AfterProbe
    /\ g_pic_mask' = 0
    /\ disable_interrupts
    /\ UNCHANGED <<pit, handlers, idt>>

irq_init ==
    /\ IF pic_get_mask(AfterProbe) = 0 THEN IrqFound ELSE IrqNotFound
    /\ UNCHANGED pic_present

\* What keyboard_init does to the interrupts: the handler, pic_unmask(1), sti.
RegisterKeyboard ==
    /\ g_irq_handler' = irq_register_handler(g_irq_handler, 1, "kbhandler")
    /\ g_pic_mask' = WithoutBit(g_pic_mask, 1)
    /\ chips' = AfterMask(chips, WithoutBit(g_pic_mask, 1))
    /\ enable_interrupts
    /\ UNCHANGED <<pic_present, pit, g_isr_handlers, idt>>

\* The vectors the PICs may raise: those of the unmasked lines 0 and 1, and that of
\* line 7 when a request has gone before it was acknowledged.
PicVectors ==
    IF pic_present /\ chips[1].mask # 255
    THEN {chips[1].offset + line : line \in {l \in {0, 1} : Bit(chips[1].mask, l) = 0} \cup {7}}
    ELSE {}

\* The gate is present and leads into 64-bit kernel code.
GateUsable(v) == Bit(idt[v].type, 7) = 1 /\ IsKernelCode64(gdt, idt[v].selector)

\* Init as the boot loader leaves the machine: a table of its own with the same
\* selectors, interrupts off, all lines of the PICs masked.
InterruptInit ==
    /\ gdt = <<>> /\ cs = 40 /\ ds = 48
    /\ idt = [v \in Vectors |-> idt_init_entry(0, 0, 0)]
    /\ g_isr_handlers = [v \in Vectors |-> "NULL"]
    /\ g_irq_handler = [irq \in 0..NUM_HARDWARE_INTERRUPTS-1 |-> "NULL"]
    /\ interrupt_flag = FALSE
    /\ pic_present \in PicPresent
    /\ chips = [c \in {1, 2} |-> [mask |-> 255, offset |-> 8, cascade |-> 0, auto_eoi |-> FALSE]]
    /\ g_pic_mask = 65535
    /\ pit = [mode |-> 0, count |-> 0]
    /\ registers = [r \in ToSet(REGISTERS) \ {"interrupt", "error_code"} |-> r]

=============================================================================
