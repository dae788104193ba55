CONSTANTS
    Tables <- EightTables
    ENTRIES = 2
    PhysPages = {1}
    Spaces = {a}
    KERNEL = KERNEL
    Ranges <- Neighbours
    BootMaps <- Image
    PHYS_LIMIT = 2
    MEM_SIZE = 1
    MaxRecords = 2
    ABSENT = ABSENT
SPECIFICATION Spec
CHECK_DEADLOCK FALSE
INVARIANTS TypeOK TablesPrivate MemoryListExact NoEmptyTable TlbNeverContradicts NewSpaceSharesKernel
PROPERTIES MapTouchesOnlyItsPage
