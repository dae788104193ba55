--------------------------------- MODULE Hpet ---------------------------------
(***************************************************************************)
(* hpet_init (sys/acpi/hpet.c): the HPET that the ACPI table names is      *)
(* mapped, its timers are silenced and its counter started.                *)
(*                                                                         *)
(* Registers are the sets of their bits that are one.  The period, the     *)
(* revision and the size of the counter are only logged.                   *)
(***************************************************************************)
EXTENDS Acpi

CONSTANTS
    HpetStates(_)     \* capabilities, config and timers of a device with so many timers

VARIABLES
    hpet, hpet_sdt,   \* the pointers: the page or NULL, the table or NULL
    hpet_regs         \* the registers of the device

HpetVars == <<hpet, hpet_sdt, hpet_regs>>

HPET_MIN_COMPARATOR == 3
HPET_MAX_COMPARATOR == 32

ENABLE_CNF == 0
LEG_RT_CAP == 15
TMR_FSB_EN_CNF == 14
TMR_INT_ENB_CNF == 2

\* Bits of a timer that a write does not change: periodic, 64-bit and FSB capable.
ReadOnly == {4, 5, 15}

Bits == SUBSET (0..63)

\* The registers that are used.
HPET == [capabilities : Bits, config : Bits, timers : Seq(Bits)]

ASSUME HpetAssumption == \A num \in 1..HPET_MAX_COMPARATOR :
    \A d \in HpetStates(num) : d \in HPET /\ Len(d.timers) = num

GEN_CONFIG_SET(bit, config) == config \cup {bit}

GEN_CAPABILITIES_READ(bit, capabilities) == bit \in capabilities

HPET_TIMER_READ_CONFIG_CAP(bit, timer) == bit \in timer

\* The timer has its interrupt or its FSB route on.
IsLoud(timer) == \E bit \in {TMR_FSB_EN_CNF, TMR_INT_ENB_CNF} : HPET_TIMER_READ_CONFIG_CAP(bit, timer)

\* The code reports an error when this is true.
HPET_NUM_COMPARATOR_CHECK(num) == num < HPET_MAX_COMPARATOR /\ num > HPET_MIN_COMPARATOR

\* Mutant of hpet_reset_comparators: the bound is that of the register, one less.
hpet_reset_comparators_Short(timers, num) ==
    [i \in DOMAIN timers |->
        IF i < num /\ IsLoud(timers[i]) THEN timers[i] \cap ReadOnly ELSE timers[i]]

\* hpet_reset_comparators: x &= (0 << bit) clears the whole word, as far as it
\* can be written, when the bit was set.
hpet_reset_comparators(timers, num) ==
    [i \in DOMAIN timers |->
        IF i <= num /\ IsLoud(timers[i]) THEN timers[i] \cap ReadOnly ELSE timers[i]]

hpet_enable(config) == GEN_CONFIG_SET(ENABLE_CNF, config)

\* hpet_init after the table is found, on a device in state d.
HpetFound(found, d) ==
    LET num     == found.comparator_count + 1
        refused == ~GEN_CAPABILITIES_READ(LEG_RT_CAP, d.capabilities) \/ HPET_NUM_COMPARATOR_CHECK(num)
    IN  /\ vm_map(found.address, VM_MMIO)
        /\ hpet' = IF refused THEN NULL ELSE found.address
        /\ hpet_sdt' = IF refused THEN NULL ELSE found
        /\ hpet_regs' = IF refused THEN d
                        ELSE [d EXCEPT !.timers = hpet_reset_comparators(@, num),
                                       !.config = hpet_enable(@)]

\* hpet_init
hpet_init ==
    /\ LET found == acpi_get_sdt(sdt, "HPET") IN
       IF found = NULL
       THEN UNCHANGED <<HpetVars, page_flags>>
       ELSE \E d \in HpetStates(found.comparator_count + 1) : HpetFound(found, d)
    /\ GoesOn
    /\ UNCHANGED <<features, cr4, pat, AcpiVars>>

HpetInit ==
    /\ hpet = NULL /\ hpet_sdt = NULL
    /\ hpet_regs = [capabilities |-> {}, config |-> {}, timers |-> <<>>]

=============================================================================
