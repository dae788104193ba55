CONSTANTS
    WIDTH = 4
    HEIGHT = 3
    MaxPrinted = 8
    MaxKeys = 4
SPECIFICATION Spec
CHECK_DEADLOCK FALSE
INVARIANTS TypeOK CursorNearScreen TextIsContiguous
