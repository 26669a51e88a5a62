SPECIFICATION Spec
CONSTANTS
    ProcNumbers = {1, 2}
    Procs = {1, 2}
    MaxContent = 1
    MaxStdin <- MCShortStdins
    Stdin <- MCStdin
    Contents <- MCContents
    Bytes <- MCBytes
    Missing = Missing
    Hole = 0
    BufferSize = 1
    AllBytes = 99
    Offsets <- MCFewOffsets
    Counts <- MCOnlyAll
INVARIANTS Undamaged ExitTellsCount
CHECK_DEADLOCK FALSE
