------------------------------- MODULE Machine -------------------------------
(***************************************************************************)
(* The processor as far as the boot sequence needs it (sys/cpu.c, asm.h):  *)
(* whether it still runs, what its page table says of the pages of memory  *)
(* mapped devices, and the page attribute table.  An address is a number   *)
(* of megabytes; a device has one page.                                    *)
(***************************************************************************)
EXTENDS Integers, Sequences, FiniteSets

CONSTANTS
    DevicePages,      \* the pages of the memory mapped devices
    Features,         \* the sets of features that processors report
    Limits,           \* kmem.physical_limit, as memory maps give it
    NULL              \* the NULL pointer: a value of its own

VARIABLES
    halted,           \* "no", "fault" (a page fault is to be taken), or what stopped it
    features,         \* of this processor
    cr4,              \* the bits of CR4 that are set
    page_flags,       \* flags of the kernel's mapping of a device page, 0 for none
    pat               \* MSR_PAT: the entries 0..3 of its low and 4..7 of its high half

MachineVars == <<halted, features, cr4, page_flags, pat>>

ASSUME MachineAssumption == DevicePages \subseteq Nat \ {0}

halt(reason) == halted' = reason

GoesOn == UNCHANGED halted

\* An access to a page that is not mapped: the instruction does not complete.
page_fault == halted' = "fault"

VM_DEFAULT == 3
VM_MMIO == 27

check_cpu_support(feature) == feature \in features

\* The table as the boot loader leaves it.
LiminePat == [low |-> <<"WB", "WT", "UC-", "UC">>, high |-> <<"WP", "WC", "UC-", "UC">>]

\* The instructions move the halves through EAX and EDX.
read_msr == pat.low \o pat.high

write_msr(value) == pat' = [low |-> SubSeq(value, 1, 4), high |-> SubSeq(value, 5, 8)]

\* WRITE_TO_CR4_BIT takes the number of a bit, not its mask.
CR4_FXSAVE_FXRSTOR_INSTRUCTIONS == 9
CR4_UNMASKED_SIMD_FLOATING_POINT_EXCEPTIONS == 10

read_cr == cr4

write_cr(val) == cr4' = val

WRITE_TO_CR4_BITS(bits) == write_cr(read_cr \cup bits)

\* cpu_init: the low four entries stay, the fifth becomes write-combining (1), and the
\* others 0, which is uncacheable.
cpu_init ==
    /\ IF check_cpu_support("pat")
       THEN write_msr(SubSeq(read_msr, 1, 4) \o <<"WC", "UC", "UC", "UC">>)
       ELSE UNCHANGED pat
    /\ WRITE_TO_CR4_BITS({CR4_FXSAVE_FXRSTOR_INSTRUCTIONS,
                          CR4_UNMASKED_SIMD_FLOATING_POINT_EXCEPTIONS})
    /\ UNCHANGED <<features, page_flags>>

\* What vm_init maps of the device pages: its direct map ends at physical_limit.
DirectMap(limit) == [p \in DevicePages |-> IF p < limit THEN VM_DEFAULT ELSE 0]

\* vm_map(NULL, PHYS_TO_VIRT(p), p, 1, flags)
vm_map(p, flags) == page_flags' = [page_flags EXCEPT ![p] = flags]

IsMapped(p) == page_flags[p] # 0

\* The entry of the table that a leaf selects: cache disable is bit 4, write-through
\* bit 3 of the flags; bit 7, which selects the high half, is never set.
MemoryType(p) == pat.low[2 * ((page_flags[p] \div 16) % 2) + ((page_flags[p] \div 8) % 2) + 1]

MachineInit ==
    /\ halted = "no"
    /\ features \in Features
    /\ cr4 = {5}                    \* the boot loader has set PAE
    /\ page_flags = [p \in DevicePages |-> VM_DEFAULT]
    /\ pat = LiminePat

=============================================================================
