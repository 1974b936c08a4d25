SPECIFICATION Spec
CONSTANTS
    PageSize = 8
    HeaderSize = 2
    SlotSize = 1
    Width = 16
    Byte <- MCByte
    ZeroByte = 0
    Tuples <- MCTuples
    Growing = TRUE
    Absent = Absent
    Deleted = Deleted
PROPERTIES
    CompactionMovesNoRow
