CONSTANTS
    MemoryMaps <- HoledMap
    TailOnes <- SomeTail
    TOP = 16
    LOW_MEMORY = 2
    PAGES_PER_BYTE = 4
    PAGE_SIZE = 2
    Clients = {c1, c2, c3}
    MaxRequest = 3
    NONE = NONE
SPECIFICATION Spec
SYMMETRY Symmetry
CHECK_DEADLOCK FALSE
INVARIANTS OnlyUsableGiven
