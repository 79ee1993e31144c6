SPECIFICATION Spec
CONSTANTS
    MaxMessageBytes = 4
    LineBytes = 9
    Framings <- Framing
    SizeBound = 8
    Generations = 2
    DevelopmentSink = FALSE
    RecordSizes <- Sizes
    BufferSlots = 1
    MaxRecords = 4
    MaxRuns = 1
INVARIANT LossIsObservable
CHECK_DEADLOCK FALSE
