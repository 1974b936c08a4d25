SPECIFICATION Spec
CONSTANTS
    a = a
    b = b
    tuple = tuple
    Names = {a, b}
    Busy = {a}
    MaxTables = 2
    Tuples <- MCTuples
    Size <- MCSize
    Capacity = 3
    SlotSize = 1
    PoolSize = 1
    MaxFileErrors = 1
    MaxPages = 2
    Zero = Zero
    Deleted = Deleted
    Nothing = Nothing
    Unreadable = Unreadable
INVARIANTS
    DatabaseTypeOK
    CommittedRowsSurvive
    StatementsSeen
    CreatedTablesDurable
    IdsInUseNotReused
