--------------------------------- MODULE Acpi ---------------------------------
(***************************************************************************)
(* The tables of the firmware (sys/acpi): acpi_init, acpi_get_sdt and      *)
(* madt_init, and the processor's local APIC, whose base is in the MADT    *)
(* (apic_init; its timer is modelled in Clock).                            *)
(*                                                                         *)
(* The firmware is a record: whether the boot loader found it, its         *)
(* revision, whether its two checksums are 0 and its signature right, and  *)
(* the tables its RSDT and XSDT list.  The records of a MADT are a         *)
(* sequence; lengths of records, which the loop adds up, are left out.     *)
(***************************************************************************)
EXTENDS Machine, Filter, SequencesExt

CONSTANTS
    MAX_CPUS,         \* size of local_apics (256)
    Firmwares,        \* what acpi_init may be given
    ApicStates        \* the local APIC before apic_init: base MSR and error register

VARIABLES
    sdt,              \* the tables listed, or NULL
    use_xsdt,
    madt,             \* the MADT, or NULL
    local_apics, io_apics,
    local_apic        \* local_apic_base, and the registers of the APIC

tables == <<sdt, use_xsdt, madt, local_apics, io_apics>>
AcpiVars == <<tables, local_apic>>

MADT_RECORD_TYPE_LOCAL_APIC == 0
MADT_RECORD_TYPE_IO_APIC == 1
MAX_IO_APICS == 2
APIC_SPURIOUS_INT_NUM == 39

\* The tables, as far as they are read.  Values stand for what the code computes from
\* them: sums for checksums, lists of tables for lists of their addresses.
MADT_RECORD == [type : 0..255, id : 0..255]

MADT == [signature : {"APIC"}, lapic_address : DevicePages, records : Seq(MADT_RECORD)]

HPET_SDT == [signature : {"HPET"}, address : DevicePages, comparator_count : 0..31]

ACPI_SDT == MADT \cup HPET_SDT

XSDP == [response : BOOLEAN, revision : 0..255, sum : 0..255, extended_sum : 0..255,
         signature : BOOLEAN, rsdt : Seq(ACPI_SDT), xsdt : Seq(ACPI_SDT)]

ASSUME AcpiAssumption ==
    /\ MAX_CPUS \in Nat
    /\ \A rsdp \in Firmwares : rsdp \in XSDP

\* rsdp_checksum_check: the first 20 bytes, and from revision 2 on the extension too.
rsdp_checksum_check(rsdp) ==
    rsdp.sum = 0 /\ (rsdp.revision >= 2 => rsdp.extended_sum = 0)

\* acpi_get_sdt: the first table with the signature.
acpi_get_sdt(list, signature) ==
    IF list = NULL THEN NULL
    ELSE LET i == SelectInSeq(list, LAMBDA t : t.signature = signature)
         IN  IF i = 0 THEN NULL ELSE list[i]

FirstUpTo(list, n) == SubSeq(list, 1, IF Len(list) < n THEN Len(list) ELSE n)

\* The records of MADT entries of a type.
RecordsOf(records, type) == Chosen(records, {i \in DOMAIN records : records[i].type = type})

\* Mutant of IoApicsOf: the limit is that of the local APICs.
IoApicsOf_NoLimit(records) == FirstUpTo(RecordsOf(records, MADT_RECORD_TYPE_IO_APIC), 256)

\* What madt_init tracks: num_io_apics > MAX_IO_APICS lets one more than the limit in.
IoApicsOf(records) ==
    FirstUpTo(RecordsOf(records, MADT_RECORD_TYPE_IO_APIC), MAX_IO_APICS + 1)

LocalApicsOf(records) ==
    FirstUpTo(RecordsOf(records, MADT_RECORD_TYPE_LOCAL_APIC), MAX_CPUS)

madt_init(list) ==
    LET found == acpi_get_sdt(list, "APIC") IN
    /\ madt' = found
    /\ IF found = NULL
       THEN halt("report") /\ UNCHANGED <<local_apics, io_apics>>
       ELSE /\ local_apics' = LocalApicsOf(found.records)
            /\ io_apics' = IoApicsOf(found.records)
            /\ GoesOn

\* acpi_init.  A bad sum or signature is reported, and the boot goes on without MADT.
acpi_init(rsdp) ==
    LET list == IF rsdp.revision = 2 THEN rsdp.xsdt ELSE rsdp.rsdt IN
    CASE ~rsdp.response ->
             halt("report") /\ UNCHANGED tables
      [] rsdp.response /\ ~rsdp_checksum_check(rsdp) ->
             GoesOn /\ UNCHANGED tables
      [] OTHER ->
             /\ sdt' = list
             /\ use_xsdt' = (rsdp.revision = 2)
             /\ IF rsdp.signature THEN madt_init(list)
                ELSE GoesOn /\ UNCHANGED <<madt, local_apics, io_apics>>

-----------------------------------------------------------------------------
(* The local APIC *)

check_apic_exists == check_cpu_support("apic")

check_2xapic_exists == check_cpu_support("x2apic")

\* apic_write_reg and apic_read_reg do nothing before there is a base.
apic_access(effect) ==
    CASE local_apic.base = 0        -> GoesOn /\ UNCHANGED local_apic
      [] IsMapped(local_apic.base)  -> effect
      [] OTHER                      -> page_fault /\ UNCHANGED local_apic

apic_write_reg(written) == apic_access(local_apic' = written /\ GoesOn)

\* Reads through madt.
madt_get_local_apic_base(found) == found.lapic_address

\* Up to local_apic_base.
apic_find(a) ==
    /\ IF ~check_2xapic_exists /\ ~check_apic_exists
       THEN halt("report") /\ UNCHANGED local_apic
       ELSE IF a.msr_enabled /\ a.msr_x2apic
       THEN halt("report") /\ UNCHANGED local_apic
       ELSE IF madt = NULL
       THEN page_fault /\ UNCHANGED local_apic
       ELSE GoesOn /\ local_apic' = [base |-> madt_get_local_apic_base(madt), esr |-> a.esr,
                                     svr |-> 255, enabled |-> FALSE]
    /\ UNCHANGED <<features, cr4, page_flags, pat, tables>>

\* apic_reset_error_reg: any write clears the register.
apic_reset_error_reg ==
    /\ apic_write_reg([local_apic EXCEPT !.esr = 0])
    /\ UNCHANGED <<features, cr4, page_flags, pat, tables>>

\* vm_map of the page.
apic_map ==
    /\ vm_map(local_apic.base, VM_MMIO) /\ GoesOn
    /\ UNCHANGED <<features, cr4, pat, AcpiVars>>

apic_enable ==
    /\ apic_write_reg([local_apic EXCEPT !.svr = APIC_SPURIOUS_INT_NUM, !.enabled = TRUE])
    /\ UNCHANGED <<features, cr4, page_flags, pat, tables>>

\* apic_check_error_reg: any of the eight error bits stops the machine.
apic_check_error_reg ==
    /\ apic_access(/\ IF local_apic.esr % 256 # 0 THEN halt("report") ELSE GoesOn
                   /\ UNCHANGED local_apic)
    /\ UNCHANGED <<features, cr4, page_flags, pat, tables>>

AcpiInit ==
    /\ sdt = NULL /\ use_xsdt = FALSE /\ madt = NULL
    /\ local_apics = <<>> /\ io_apics = <<>>
    /\ local_apic = [base |-> 0, esr |-> 0, svr |-> 255, enabled |-> FALSE]

=============================================================================
