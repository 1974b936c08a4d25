SPECIFICATION RecordSpec
CONSTANTS
    small = small
    wide = wide
    huge = huge
    Tuples <- MCTuples
    Size <- MCSize
    Capacity = 4
    SlotSize = 1
    PoolSize = 1
    MaxPages = 2
    MaxPins = 2
    Zero = Zero
    Data <- MCData
    Unwritten = Unwritten
    Absent = Absent
    Deleted = Deleted
INVARIANTS
    RecordTypeOK
    OnePinAtATime
    PoolNeverExhausted
    NoOrphanRow
    AnswersAreTrue
PROPERTIES
    GrowsOnlyWhenFull
    RecordsReadBack
