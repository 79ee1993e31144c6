SPECIFICATION Spec
CONSTANTS
    p1 = p1
    p2 = p2
    Producers <- TwoProducers
    GeneralSlots = 1
    CriticalSlots = 1
    DevelopmentSink = TRUE
    MayCrash = TRUE
    Overlap = TRUE
    MaxEmits = 2
    MaxInstalls = 2
PROPERTIES
    EmitReturns
    ShutdownReturns
CHECK_DEADLOCK FALSE
