CONSTANTS
    CPUs = {c1, c2}
SPECIFICATION FairSpec
INVARIANTS TypeOK MutualExclusion NoSelfDeadlock
PROPERTIES FlagsRestored Progress
