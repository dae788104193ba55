CONSTANTS
    MemoryMaps <- OneMap
    TailOnes <- NoTail
    TOP = 8
    LOW_MEMORY = 1
    PAGES_PER_BYTE = 4
    PAGE_SIZE = 2
    Clients = {c1, c2, c3}
    MaxRequest = 3
    NONE = NONE
    UNITS = 2
    MaxSize = 3
    JUNK = JUNK
    Stored = {1}
SPECIFICATION KSpec
SYMMETRY Symmetry
CHECK_DEADLOCK FALSE
INVARIANTS KTypeOK HeadersTrue NoSharing FreeSizeExact
PROPERTIES FreesWholeBlocks ImplementsHeap
