SPECIFICATION Spec
CONSTANTS
    main = main
    other = other
    a = a
    b = b
    Threads <- TwoThreads
    Main = main
    Windows = TRUE
    Cells <- TwoCells
    Throwing <- BothThrow
    AssignNoexcept = TRUE
    Block = 4
    LengthBytes = 2
    WordSize = 64
    ByteSize = 8
    Stream <- NineBytes
    Asserts = TRUE
INVARIANTS
    HoldsExactlyOne
CHECK_DEADLOCK FALSE
