SPECIFICATION Spec
CONSTANTS
    b1 = b1
    b2 = b2
    Builders <- MCBuilders
    WordSize = 8
    Byte = 2
    LongWidth = 4
    ScalarWidths = {2, 4}
    ScalarValues = {2}
    Spans <- MCSpans
    Bounds = {3, 7}
    MaxPuts = 3
INVARIANTS
    TypeOK
    ReadsBack
PROPERTIES
    GrowsGeometrically
    ImplementsAccumulator
