-------------------------------- MODULE MCBoot --------------------------------
(***************************************************************************)
(* Machines on which the boot sequence is checked: an HPET at 4077 MB and  *)
(* a local APIC at 4078 MB, with memory that ends below and above them.    *)
(***************************************************************************)
EXTENDS Boot

HpetPage == 4077
ApicPage == 4078

MCDevicePages == {HpetPage, ApicPage}
MCFeatures == {{"apic", "x2apic", "pat"}, {}}
MCLimits == {3072, 5120}

\* Vectors that the CPU pushes an error code for, and all that the PICs may raise.
MCVectors == {8, 14, 128} \cup 32..47

Madt(io) == [signature |-> "APIC", lapic_address |-> ApicPage,
             records |-> [i \in 1..3 |-> [type |-> 0, id |-> i]] \o
                         [i \in 1..io |-> [type |-> 1, id |-> i]] \o
                         <<[type |-> 2, id |-> 0]>>]

HpetTable(num) == [signature |-> "HPET", address |-> HpetPage, comparator_count |-> num - 1]

Old(list) == [response |-> TRUE, revision |-> 0, sum |-> 0, extended_sum |-> 7,
              signature |-> TRUE, rsdt |-> list, xsdt |-> <<>>]

New(list) == [Old(list) EXCEPT !.revision = 2, !.extended_sum = 0, !.rsdt = <<>>, !.xsdt = list]

MCFirmwares ==
    {New(<<HpetTable(32), Madt(5)>>), Old(<<Madt(2), HpetTable(3)>>),
     Old(<<Madt(1)>>),
     New(<<HpetTable(4)>>),
     [New(<<Madt(1)>>) EXCEPT !.response = FALSE],
     [New(<<Madt(1)>>) EXCEPT !.extended_sum = 1],
     [Old(<<Madt(1), HpetTable(1)>>) EXCEPT !.signature = FALSE]}

MCApicStates ==
    {[msr_enabled |-> TRUE, msr_x2apic |-> TRUE, esr |-> 0]}
    \cup {[msr_enabled |-> TRUE, msr_x2apic |-> FALSE, esr |-> e] : e \in {0, 32}}

\* Timers as the firmware may leave them, the last one with its interrupt on and the
\* others with their FSB route; and a device that cannot replace the legacy timers.
MCHpetStates(num) ==
    {IF num # 3
     THEN [capabilities |-> {LEG_RT_CAP}, config |-> {},
           timers |-> [i \in 1..num |-> IF i = num THEN {2, 5} ELSE {5, 14, 15}]]
     ELSE [capabilities |-> {}, config |-> {}, timers |-> [i \in 1..num |-> {2}]]}

At(h, m, s, wd, d, mo, y) == [hours |-> h, minutes |-> m, seconds |-> s, weekdays |-> wd,
                              day |-> d, month |-> mo, year |-> y, century |-> 0]

MCInstants == <<At(23, 59, 58, 3, 31, 12, 2024), At(23, 59, 59, 3, 31, 12, 2024),
                At(0, 0, 0, 4, 1, 1, 2025)>>

MCModes == {[is_24_hours |-> TRUE, is_binary |-> FALSE], [is_24_hours |-> TRUE, is_binary |-> TRUE],
            [is_24_hours |-> FALSE, is_binary |-> FALSE]}

\* A host bridge, devices with one function, one with the functions 0, 2 and 7, and a
\* bridge with a disk behind it: so many that the vector grows twice.
Function(header, class) == [vendor |-> 4130, header |-> header, class |-> class]

MCPciMachines ==
    {[f \in {<<0, d, 0>> : d \in {0, 1, 3, 30, 31}} \cup {<<0, 3, 2>>, <<0, 3, 7>>, <<1, 0, 0>>} |->
        IF f[2] = 3 THEN Function(128, 513)
        ELSE IF f = <<0, 31, 0>> THEN Function(1, 1540) ELSE Function(0, 1536)]}

\* No answer, no screen, a NULL one, one with room, and one lower than a character.
MCFbResponses ==
    {NULL, <<>>, <<NULL>>, <<[height |-> 600, width |-> 800]>>, <<[height |-> 10, width |-> 800]>>}
MCFontPath == <<"z", "a", "p">>

File(path, magic) == [path |-> path, magic |-> magic, character_size |-> 16]

MCModuleResponses ==
    {NULL, <<>>, <<File(<<"k">>, TRUE), File(<<"/", "z", "a", "p">>, TRUE)>>,
     <<File(<<"z", "a", "p">>, FALSE)>>}

MCKeys == {30, 42}

=============================================================================
