---------------------------------- MODULE Pci ----------------------------------
(***************************************************************************)
(* pci_init (sys/pci.c) and the vector it fills (common/vector.h).         *)
(*                                                                         *)
(* A machine's configuration space is a function from <<bus, device, func>>*)
(* to the IDs, the header type and the class word of the functions that    *)
(* are there.  A device with one function may answer for all eight.  Only  *)
(* what finds functions is modelled: reading a BAR and the table of names  *)
(* have no effect.                                                         *)
(***************************************************************************)
EXTENDS Filter, SequencesExt

CONSTANTS
    PciMachines       \* configuration spaces

VARIABLES
    pci_space,        \* the machine's
    device_list       \* length, capacity (in elements) and data of the vector

PciVars == <<pci_space, device_list>>

MAX_BUS_NUM == 1
MAX_DEVICE_NUM == 32
MAX_FUNCTION_NUM == 8
RESIZE == 4

PCI_CLASS_BRIDGE_DEVICE == 6
PCI_MULTI_FUNCTION == 128

PCI_DEVICE_INFO == (0..255) \X (0..31) \X (0..7)

\* What the functions of a device answer.
IsMultifunction(space, bus, device) == space[<<bus, device, 0>>].header >= PCI_MULTI_FUNCTION

pci_ind(space, bus, device, func) ==
    IF <<bus, device, 0>> \in DOMAIN space /\ ~IsMultifunction(space, bus, device)
    THEN space[<<bus, device, 0>>]
    ELSE IF <<bus, device, func>> \in DOMAIN space THEN space[<<bus, device, func>>]
    ELSE [vendor |-> 65535, header |-> 255, class |-> 65535]

PCI_READ_VENDOR_ID(space, bus, device, func) == pci_ind(space, bus, device, func).vendor

PCI_READ_HEADER(space, bus, device, func) == pci_ind(space, bus, device, func).header

\* Class and subclass.
PCI_READ_CLASS(space, bus, device, func) == pci_ind(space, bus, device, func).class

PCI_FUNCTION_EXISTS(space, bus, device, func) ==
    PCI_READ_VENDOR_ID(space, bus, device, func) # 65535

PCI_DEV_IS_BRIDGE(space, bus, device, func) ==
    /\ PCI_READ_HEADER(space, bus, device, func) = 1
    /\ PCI_READ_CLASS(space, bus, device, func) = PCI_CLASS_BRIDGE_DEVICE

\* A function has a vendor, only a device with more than one has others than function 0,
\* and the test for a bridge is never true: a real bridge has class 6 in the high byte of
\* the class word.
ASSUME PciAssumption ==
    \A space \in PciMachines :
        /\ DOMAIN space \subseteq PCI_DEVICE_INFO
        /\ \A f \in DOMAIN space : space[f].vendor # 65535
        /\ \A f \in DOMAIN space : <<f[1], f[2], 0>> \in DOMAIN space
        /\ \A f \in DOMAIN space : f[3] = 0 \/ IsMultifunction(space, f[1], f[2])
        /\ \A f \in DOMAIN space : ~PCI_DEV_IS_BRIDGE(space, f[1], f[2], f[3])

NoDevices == [length |-> 0, capacity |-> 0, data |-> <<>>]

\* vector_append of one element after the other.
vector_append(vec, elems) ==
    LET capacity[n \in 0..Len(elems)] ==
            IF n = 0 THEN vec.capacity
            ELSE LET length == vec.length + n
                     before == capacity[n - 1]
                 IN  IF before < length THEN length * RESIZE ELSE before
    IN  [length   |-> vec.length + Len(elems),
         capacity |-> capacity[Len(elems)],
         data     |-> vec.data \o elems]

\* Mutant of scan_device: the functions are looked for whatever the header type says.
scan_device_AllFunctions(space, bus, device, func) ==
    PCI_FUNCTION_EXISTS(space, bus, device, 0) /\ PCI_FUNCTION_EXISTS(space, bus, device, func)

\* Whether scan_device appends the function; by PciAssumption it enters no other bus.
scan_device(space, bus, device, func) ==
    /\ PCI_FUNCTION_EXISTS(space, bus, device, 0)
    /\ func = 0 \/ (IsMultifunction(space, bus, device) /\ PCI_FUNCTION_EXISTS(space, bus, device, func))

\* The order in which the three loops reach the functions.
ScanOrder ==
    [i \in 1..(MAX_BUS_NUM * MAX_DEVICE_NUM * MAX_FUNCTION_NUM) |->
        LET n == i - 1
        IN  <<n \div (MAX_DEVICE_NUM * MAX_FUNCTION_NUM),
              (n \div MAX_FUNCTION_NUM) % MAX_DEVICE_NUM, n % MAX_FUNCTION_NUM>>]

\* pci_init on a machine.
pci_init(space) ==
    /\ pci_space' = space
    /\ \E found \in {{n \in DOMAIN ScanOrder :
                        scan_device(space, ScanOrder[n][1], ScanOrder[n][2], ScanOrder[n][3])}} :
          device_list' = vector_append(device_list, Chosen(ScanOrder, found))

PciInit ==
    /\ pci_space = <<>>
    /\ device_list = NoDevices

=============================================================================
