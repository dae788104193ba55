CONSTANTS
    PicPresent = {TRUE}
    EARLY_KEYS = FALSE
    QUANTUM = 2
    TIME_WORD = 2
    WORD = 64
    DIVISOR = 4
    Elapsed = {1, 3}
    Freqs = {1, 7}
    MaxSleep = 2
SPECIFICATION FairSpec
PROPERTIES SleepEnds
