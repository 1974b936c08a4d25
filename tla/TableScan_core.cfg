SPECIFICATION Spec
CONSTANTS
    short = short
    long = long
    Tuples <- MCTuples
    Size <- MCSize
    Capacity = 4
    SlotSize = 1
    Deleted = Deleted
    MaxPages = 3
INVARIANTS
    ScanTypeOK
    VisitedInOrder
    EveryRowVisited
PROPERTIES
    IncrementReturns
