SPECIFICATION Spec
CONSTANTS
    t1 = t1
    t2 = t2
    Threads <- MCThreads
    WordSize = 8
    Sizes = {1, 2}
    MaxAllocations = 3
    MaxResets = 1
SYMMETRY Symmetry
INVARIANTS
    TypeOK
    CountersAddUp
    PeakIsHighWaterMark
    QuietWatchIsExact
PROPERTIES
    PeakNeverFalls
