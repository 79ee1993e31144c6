SPECIFICATION Spec
CONSTANTS
    p1 = p1
    p2 = p2
    Producers <- TwoProducers
    GeneralSlots = 2
    CriticalSlots = 1
    DevelopmentSink = FALSE
    MayCrash = TRUE
    Overlap = TRUE
    MaxEmits = 3
    MaxInstalls = 1
INVARIANTS
    TypeOK
    EveryRecordAccounted
    SinkInOrder
    FlushCoversQueued
    ResultCoversQueued
SYMMETRY Symmetry
CHECK_DEADLOCK FALSE
