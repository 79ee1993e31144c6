SPECIFICATION Spec
CONSTANTS
    MaxMessageBytes = 4
    LineBytes = 9
    Framings <- Framing
    SizeBound = 8
    Generations = 3
    DevelopmentSink = TRUE
    RecordSizes <- Sizes
    BufferSlots = 1
    MaxRecords = 6
    MaxRuns = 2
INVARIANTS
    TypeOK
    RetainsItsBudget
    GenerationBounded
    EscapeFits
CHECK_DEADLOCK FALSE
