SPECIFICATION Spec
CONSTANTS
    h1 = h1
    h2 = h2
    h3 = h3
    Handles <- MCHandles
    WordSize = 32
    Begin = 23
    Capacity = 8
    Sizes = {0, 1, 3}
    Alignments = {1, 2, 4, 8}
    Counts = {0, 1, 2, 16, 17}
    ElementSize = 2
    ElementAlignment = 2
    NativeAlignment = 4
    HeapAddresses = {4, 5, 6, 7, 8, 9, 10, 11, 12, 13, 14, 15}
SYMMETRY Symmetry
INVARIANTS
    TypeOK
    BlocksApart
    RefusesOnlyWhenFull
    ExactlyOneOwner
    GivenBackOnce
    ObjectsMatchOwners
