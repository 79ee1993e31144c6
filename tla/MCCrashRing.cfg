SPECIFICATION Spec
CONSTANTS
    w1 = w1
    w2 = w2
    p1 = p1
    e1 = e1
    e2 = e2
    NoEvent = NoEvent
    Writers <- TwoWriters
    Inspectors <- OneInspector
    Events <- TwoEvents
    Windows <- AskedWindows
    Capacity = 2
    WordSize = 8
    MaxRingSequence = 3
    SnapshotBound = 2
    MaxWrites = 4
SYMMETRY Symmetry
INVARIANTS
    TypeOK
    NeverTorn
    ProtocolInv
    NewestFirst
    StatusIsHonest
    EveryWriteCounted
    NobodyWaits
PROPERTIES
    SlotNeverRegresses
    ImplementsBoard
    EachStepIsProgress
CHECK_DEADLOCK FALSE
