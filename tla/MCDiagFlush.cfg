SPECIFICATION Spec
CONSTANTS
    p1 = p1
    p2 = p2
    Producers <- TwoProducers
    GeneralSlots = 2
    CriticalSlots = 1
    DevelopmentSink = FALSE
    MayCrash = FALSE
    Overlap = FALSE
    MaxEmits = 3
    MaxInstalls = 1
INVARIANT FlushIsBounded
CHECK_DEADLOCK FALSE
