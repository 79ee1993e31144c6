SPECIFICATION Spec
CONSTANTS
    p1 = p1
    p2 = p2
    Producers <- TwoProducers
    GeneralSlots = 1
    CriticalSlots = 1
    DevelopmentSink = FALSE
    MayCrash = TRUE
    Overlap = FALSE
    MaxEmits = 1
    MaxInstalls = 1
PROPERTY CrashIsReported
CHECK_DEADLOCK FALSE
